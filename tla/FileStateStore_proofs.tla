------------------------ MODULE FileStateStore_proofs ------------------------
(***************************************************************************)
(* Proofs about FileStateStore, for every set of keys and states and every   *)
(* bound on the number of writes.                                           *)
(***************************************************************************)
EXTENDS FileStateStore, TLAPS

\* Where a running call stands, and what the map and the files hold there.
CallInv ==
    call # NoCall =>
        /\ call.op = "set" => call.state \in States
        /\ call.at # "load" => call.op = "set" /\ loaded
        /\ (call.op = "set" /\ call.at \in {"load", "memory", "open"}) => writeSeq < MaxWrites
        /\ call.at \in {"write", "rename"} => writeSeq >= 1
        /\ call.at = "rename" => tmp[writeSeq - 1] = cache

\* Between calls, and until the running call has changed the map, a resolved
\* set is still the last change of both the map and the file.
SettledInv ==
    (outcome = "resolved" /\ (call # NoCall => call.at \in {"load", "memory"})) =>
        loaded /\ file = cache

\* The map of a process that could read its file has every location of the file.
CoverInv ==
    (loaded /\ ~startedEmpty) =>
        \A k \in Keys : Has(file, k) => cache[k] # NoState

IInv ==
    /\ TypeOK
    /\ FileNeverTorn
    /\ ~loaded => cache = Empty
    /\ CallInv
    /\ SettledInv
    /\ CoverInv

LEMMA EmptyIsSnapshot == Empty \in Snapshots
BY DEF Empty, Snapshots

LEMMA SavedIsSnapshot == \A c \in Contents : Saved(c) \in Snapshots
BY EmptyIsSnapshot DEF Saved, Contents

LEMMA InitInv == Init => IInv
<1> SUFFICES ASSUME Init PROVE IInv
  OBVIOUS
<1>1. TypeOK
  <2>1. cache \in Snapshots /\ file \in Contents
    BY EmptyIsSnapshot DEF Init, Contents
  <2>2. tmp \in [Names -> Contents]
    BY DEF Init, Contents
  <2>3. writeSeq \in 0 .. MaxWrites
    BY StoreAssumption DEF Init
  <2> QED
    BY <2>1, <2>2, <2>3 DEF Init, TypeOK
<1>2. FileNeverTorn
  BY ContentAssumption DEF Init, FileNeverTorn
<1> QED
  BY <1>1, <1>2 DEF Init, IInv, CallInv, SettledInv, CoverInv

\* Every step keeps the inductive invariant.
LEMMA StepInv == IInv /\ [Next]_storeVars => IInv'
<1> SUFFICES ASSUME IInv, [Next]_storeVars PROVE IInv'
  OBVIOUS
<1> USE StoreAssumption, ContentAssumption, EmptyIsSnapshot, SavedIsSnapshot
<1>1. CASE \E k \in Keys : BeginGet(k)
  BY <1>1 DEF IInv, TypeOK, FileNeverTorn, CallInv, SettledInv, CoverInv, BeginGet, Calls
<1>2. CASE \E k \in Keys, s \in States : BeginSet(k, s)
  BY <1>2 DEF IInv, TypeOK, FileNeverTorn, CallInv, SettledInv, CoverInv, BeginSet, Calls
<1>3. CASE Load
  BY <1>3 DEF IInv, TypeOK, FileNeverTorn, CallInv, SettledInv, CoverInv, Load, At,
     AfterLoad, Calls, Saved, Has, Empty, Contents
<1>4. CASE LoadFails
  BY <1>4 DEF IInv, TypeOK, FileNeverTorn, CallInv, SettledInv, CoverInv, LoadFails, At,
     AfterLoad, Calls
<1>5. CASE SetMemory
  BY <1>5 DEF IInv, TypeOK, FileNeverTorn, CallInv, SettledInv, CoverInv, SetMemory, At,
     Calls, Snapshots, Has
<1>6. CASE OpenTmp
  BY <1>6 DEF IInv, TypeOK, FileNeverTorn, CallInv, SettledInv, CoverInv, OpenTmp, At,
     Calls, Contents, Names
<1>7. CASE WriteTmp
  BY <1>7 DEF IInv, TypeOK, FileNeverTorn, CallInv, SettledInv, CoverInv, WriteTmp, At,
     Calls, Contents, Names
<1>8. CASE RenameTmp
  BY <1>8 DEF IInv, TypeOK, FileNeverTorn, CallInv, SettledInv, CoverInv, RenameTmp, At,
     Calls, Contents, Names, Has
<1>9. CASE SetFails
  BY <1>9 DEF IInv, TypeOK, FileNeverTorn, CallInv, SettledInv, CoverInv, SetFails, At,
     Calls
<1>10. CASE Crash
  <2>1. TypeOK'
    <3>1. cache' \in Snapshots /\ writeSeq' \in 0 .. MaxWrites
      BY <1>10 DEF Crash
    <3> QED
      BY <1>10, <3>1 DEF IInv, TypeOK, Crash
  <2>2. FileNeverTorn' /\ (~loaded => cache = Empty)'
    BY <1>10 DEF IInv, FileNeverTorn, Crash, Empty
  <2>3. CallInv' /\ SettledInv' /\ CoverInv'
    BY <1>10 DEF CallInv, SettledInv, CoverInv, Crash
  <2> QED
    BY <2>1, <2>2, <2>3 DEF IInv
<1>11. CASE UNCHANGED storeVars
  BY <1>11 DEF IInv, TypeOK, FileNeverTorn, CallInv, SettledInv, CoverInv, storeVars, Has
<1> QED
  BY <1>1, <1>2, <1>3, <1>4, <1>5, <1>6, <1>7, <1>8, <1>9, <1>10, <1>11 DEF Next

\* The inductive invariant holds in every reachable state.
LEMMA Invariant == Spec => []IInv
BY InitInv, StepInv, PTL DEF Spec

\* Every state of a get or set call, of a crash and of a restart is well typed:
\* the map and a readable file are whole maps, and a sequence number names a
\* temporary file of this process (StateStore.ts:19-57).
THEOREM TypeCorrect == Spec => []TypeOK
<1>1. IInv => TypeOK
  BY DEF IInv
<1> QED
  BY Invariant, <1>1, PTL

\* The state file is never partly written, whatever fails and whenever the
\* process dies: the only step that changes it is the rename of a temporary
\* file that holds the whole map (StateStore.ts:50-55).
THEOREM NeverTorn == Spec => []FileNeverTorn
<1>1. IInv => FileNeverTorn
  BY DEF IInv
<1> QED
  BY Invariant, <1>1, PTL

\* When the last set of a process resolved and no call runs, the file is the
\* map: a set that resolves also saves what an earlier, rejected set left only
\* in memory (StateStore.ts:48-56).
THEOREM ResolvedSetIsDurable == Spec => []ResolvedSetSavesAll
<1>1. IInv => ResolvedSetSavesAll
  BY DEF IInv, SettledInv, ResolvedSetSavesAll
<1> QED
  BY Invariant, <1>1, PTL

\* No step removes a location from the file of a process that could read the
\* file when it started: load() brought every location of the file into the
\* map, and a set writes the whole map (StateStore.ts:29-41, 48-56).
THEOREM LossNeedsFailedLoad == Spec => OnlyUnreadStateIsLost
<1> DEFINE Loses == \E k \in Keys : Has(file, k) /\ ~Has(file', k)
<1>1. IInv /\ [Next]_storeVars => [Loses => startedEmpty]_storeVars
  <2> SUFFICES ASSUME IInv, Next, Loses PROVE startedEmpty
    BY DEF storeVars, Has
  <2>1. PICK k \in Keys : Has(file, k) /\ ~Has(file', k)
    OBVIOUS
  <2>2. RenameTmp
    <3>1. file' # file
      BY <2>1
    <3> QED
      BY <3>1 DEF Next, BeginGet, BeginSet, Load, LoadFails, SetMemory, OpenTmp, WriteTmp,
         SetFails, Crash
  <2>3. loaded /\ file' = cache
    BY <2>2 DEF IInv, CallInv, RenameTmp, At
  <2>4. cache \in Snapshots
    BY DEF IInv, TypeOK
  <2>5. cache[k] = NoState
    BY <2>1, <2>3, <2>4 DEF Has
  <2> QED
    BY <2>1, <2>3, <2>5 DEF IInv, CoverInv
<1> QED
  BY Invariant, <1>1, PTL DEF Spec, OnlyUnreadStateIsLost

\* A step of the store is a step of the snapshot store, or nothing to its caller.
LEMMA StepRefines ==
    IInv /\ [Next]_storeVars => [Abstract!SnapshotNext]_(Abstract!snapshotVars)
<1> SUFFICES ASSUME IInv, [Next]_storeVars
             PROVE  Abstract!SnapshotNext \/ UNCHANGED Abstract!snapshotVars
  OBVIOUS
<1>1. CASE Load
  <2>1. CASE loaded
    BY <1>1, <2>1 DEF Load, Abstract!snapshotVars
  <2>2. CASE ~loaded
    BY <1>1, <2>2 DEF Load, Abstract!SnapshotNext, Abstract!Start
  <2> QED
    BY <2>1, <2>2
<1>2. CASE LoadFails
  BY <1>2 DEF LoadFails, Empty, Abstract!SnapshotNext, Abstract!Start, Abstract!Empty
<1>3. CASE SetMemory
  <2>1. call.key \in Keys /\ call.state \in States /\ loaded
    BY <1>3 DEF IInv, TypeOK, CallInv, Calls, SetMemory, At
  <2>2. Abstract!Put(call.key, call.state)
    BY <1>3, <2>1 DEF SetMemory, Abstract!Put
  <2> QED
    BY <2>1, <2>2 DEF Abstract!SnapshotNext
<1>4. CASE RenameTmp
  <2>1. loaded /\ file' = cache /\ cache \in Snapshots
    BY <1>4 DEF IInv, TypeOK, CallInv, RenameTmp, At
  <2>2. Abstract!Flush
    BY <1>4, <2>1 DEF RenameTmp, Saved, Abstract!Flush
  <2> QED
    BY <2>2 DEF Abstract!SnapshotNext
<1>5. CASE Crash
  BY <1>5 DEF Crash, Empty, Abstract!SnapshotNext, Abstract!Stop, Abstract!Empty
<1>6. CASE \/ \E k \in Keys : BeginGet(k)
           \/ \E k \in Keys, s \in States : BeginSet(k, s)
           \/ OpenTmp \/ WriteTmp \/ SetFails \/ UNCHANGED storeVars
  BY <1>6 DEF BeginGet, BeginSet, OpenTmp, WriteTmp, SetFails, storeVars,
     Abstract!snapshotVars
<1> QED
  BY <1>1, <1>2, <1>3, <1>4, <1>5, <1>6 DEF Next

\* The store implements the snapshot store: a map that reads its own writes,
\* and a file that is always the whole map as it was after some write.
THEOREM Refinement == Spec => ImplementsSnapshotStore
<1>1. Init => Abstract!SnapshotInit
  BY ContentAssumption DEF Init, Saved, Empty, Abstract!SnapshotInit, Abstract!Empty
<1> QED
  BY Invariant, StepRefines, <1>1, PTL DEF Spec, ImplementsSnapshotStore, Abstract!SnapshotSpec
==============================================================================
