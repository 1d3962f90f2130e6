--------------------------- MODULE FileStateStore ---------------------------
(***************************************************************************)
(* FileStateStore of routes/state/StateStore.ts: one JSON file, loaded at    *)
(* the first call into a map, rewritten whole at every set through a        *)
(* temporary file and a rename.                                             *)
(*                                                                          *)
(* get and set are async functions without an await, so a call runs to its  *)
(* end before any other code of the process.  It is split into steps here   *)
(* only because the process, or a system call, can fail between them.       *)
(***************************************************************************)
EXTENDS Integers

CONSTANTS
    Keys, States, NoState,
    NoFile,        \* no file of that name
    Torn,          \* a file that does not hold a whole JSON document
    NoCall,        \* no get or set is running
    MaxWrites      \* bound: set calls of one process

ASSUME StoreAssumption ==
    /\ NoState \notin States
    /\ MaxWrites \in Nat \ {0}

VARIABLES
    cache,         \* this.cache
    loaded,        \* this.loaded
    writeSeq,      \* this.writeSeq
    file,          \* contents of this.path
    tmp,           \* contents of the temporary files, by sequence number
    call,          \* the running call, and its next step
    outcome,       \* how the last set of this process settled
    startedEmpty   \* history: this process failed to read a file that was there

storeVars == <<cache, loaded, writeSeq, file, tmp, call, outcome, startedEmpty>>

Snapshots == [Keys -> States \cup {NoState}]
Empty == [k \in Keys |-> NoState]

Contents == Snapshots \cup {NoFile, Torn}
Names == 0 .. (MaxWrites - 1)
Calls == [op : {"get", "set"}, key : Keys, state : States \cup {NoState},
          at : {"load", "memory", "open", "write", "rename"}]

ASSUME ContentAssumption ==
    /\ NoFile \notin Snapshots
    /\ Torn \notin Snapshots
    /\ NoFile # Torn
    /\ NoCall \notin Calls

TypeOK ==
    /\ cache \in Snapshots
    /\ loaded \in BOOLEAN
    /\ writeSeq \in 0 .. MaxWrites
    /\ file \in Contents
    /\ tmp \in [Names -> Contents]
    /\ call \in Calls \cup {NoCall}
    /\ outcome \in {"none", "resolved", "rejected"}
    /\ startedEmpty \in BOOLEAN

\* What a read of the file yields: the saved map, or nothing to start from.
Saved(content) == IF content \in Snapshots THEN content ELSE Empty

Init ==
    /\ cache = Empty
    /\ loaded = FALSE
    /\ writeSeq = 0
    /\ file = NoFile
    /\ tmp = [n \in Names |-> NoFile]
    /\ call = NoCall
    /\ outcome = "none"
    /\ startedEmpty = FALSE

At(step) == call # NoCall /\ call.at = step

BeginGet(k) ==
    /\ call = NoCall
    /\ call' = [op |-> "get", key |-> k, state |-> NoState, at |-> "load"]
    /\ UNCHANGED <<cache, loaded, writeSeq, file, tmp, outcome, startedEmpty>>

BeginSet(k, s) ==
    /\ call = NoCall
    /\ writeSeq < MaxWrites
    /\ call' = [op |-> "set", key |-> k, state |-> s, at |-> "load"]
    /\ UNCHANGED <<cache, loaded, writeSeq, file, tmp, outcome, startedEmpty>>

\* A get ends with the load; a set goes on to the map.
AfterLoad == IF call.op = "get" THEN NoCall ELSE [call EXCEPT !.at = "memory"]

\* Mutant: the file's absence is not checked.
LoadUnchecked ==
    /\ At("load")
    /\ loaded' = TRUE
    /\ cache' = IF loaded THEN cache ELSE file
    /\ startedEmpty' = startedEmpty
    /\ call' = AfterLoad
    /\ UNCHANGED <<writeSeq, file, tmp, outcome>>

\* Mutant: the file is read again at every call.
LoadAgain ==
    /\ At("load")
    /\ loaded' = TRUE
    /\ cache' = Saved(file)
    /\ startedEmpty' = (file = Torn)
    /\ call' = AfterLoad
    /\ UNCHANGED <<writeSeq, file, tmp, outcome>>

\* load(): once per process.  A file that cannot be parsed leaves the map
\* empty (the missing file does too, but there is nothing to lose then).
Load ==
    /\ At("load")
    /\ loaded' = TRUE
    /\ cache' = IF loaded THEN cache ELSE Saved(file)
    /\ startedEmpty' = IF loaded THEN startedEmpty ELSE file = Torn
    /\ call' = AfterLoad
    /\ UNCHANGED <<writeSeq, file, tmp, outcome>>

\* load() whose readFileSync throws on a file that is there.
LoadFails ==
    /\ At("load")
    /\ ~loaded
    /\ file # NoFile
    /\ loaded' = TRUE
    /\ cache' = Empty
    /\ startedEmpty' = TRUE
    /\ call' = AfterLoad
    /\ UNCHANGED <<writeSeq, file, tmp, outcome>>

SetMemory ==
    /\ At("memory")
    /\ cache' = [cache EXCEPT ![call.key] = call.state]
    /\ call' = [call EXCEPT !.at = "open"]
    /\ UNCHANGED <<loaded, writeSeq, file, tmp, outcome, startedEmpty>>

\* Mutant: the state file is truncated and written in place.
OpenInPlace ==
    /\ At("open")
    /\ file' = Torn
    /\ writeSeq' = writeSeq + 1
    /\ call' = [call EXCEPT !.at = "write"]
    /\ UNCHANGED <<cache, loaded, tmp, outcome, startedEmpty>>

\* writeFileSync creates or truncates the temporary file of this sequence
\* number, which a previous process may have left behind.
OpenTmp ==
    /\ At("open")
    /\ tmp' = [tmp EXCEPT ![writeSeq] = Torn]
    /\ writeSeq' = writeSeq + 1
    /\ call' = [call EXCEPT !.at = "write"]
    /\ UNCHANGED <<cache, loaded, file, outcome, startedEmpty>>

\* Mutant: only the location that was set is written.
WriteOneKey ==
    /\ At("write")
    /\ tmp' = [tmp EXCEPT ![writeSeq - 1] = [Empty EXCEPT ![call.key] = call.state]]
    /\ call' = [call EXCEPT !.at = "rename"]
    /\ UNCHANGED <<cache, loaded, writeSeq, file, outcome, startedEmpty>>

WriteTmp ==
    /\ At("write")
    /\ tmp' = [tmp EXCEPT ![writeSeq - 1] = cache]
    /\ call' = [call EXCEPT !.at = "rename"]
    /\ UNCHANGED <<cache, loaded, writeSeq, file, outcome, startedEmpty>>

RenameTmp ==
    /\ At("rename")
    /\ file' = tmp[writeSeq - 1]
    /\ tmp' = [tmp EXCEPT ![writeSeq - 1] = NoFile]
    /\ call' = NoCall
    /\ outcome' = "resolved"
    /\ UNCHANGED <<cache, loaded, writeSeq, startedEmpty>>

\* Mutant: the store swallows the error instead of rejecting.
FailsQuietly ==
    /\ At("open") \/ At("write") \/ At("rename")
    /\ writeSeq' = IF call.at = "open" THEN writeSeq + 1 ELSE writeSeq
    /\ call' = NoCall
    /\ outcome' = "resolved"
    /\ UNCHANGED <<cache, loaded, file, tmp, startedEmpty>>

\* writeFileSync or renameSync throws: the promise rejects, the map keeps the
\* new value and the temporary file stays.  The sequence number was taken
\* before writeFileSync ran.
SetFails ==
    /\ At("open") \/ At("write") \/ At("rename")
    /\ writeSeq' = IF call.at = "open" THEN writeSeq + 1 ELSE writeSeq
    /\ call' = NoCall
    /\ outcome' = "rejected"
    /\ UNCHANGED <<cache, loaded, file, tmp, startedEmpty>>

\* The process dies, at any step, and a new one starts.
Crash ==
    /\ cache' = Empty
    /\ loaded' = FALSE
    /\ writeSeq' = 0
    /\ call' = NoCall
    /\ outcome' = "none"
    /\ startedEmpty' = FALSE
    /\ UNCHANGED <<file, tmp>>

Next ==
    \/ \E k \in Keys : BeginGet(k)
    \/ \E k \in Keys, s \in States : BeginSet(k, s)
    \/ Load
    \/ LoadFails
    \/ SetMemory
    \/ OpenTmp
    \/ WriteTmp
    \/ RenameTmp
    \/ SetFails
    \/ Crash

Spec == Init /\ [][Next]_storeVars
----------------------------------------------------------------------------
(* Properties *)

\* The state file is absent or holds one whole map, whatever fails and
\* whenever the process dies: nothing writes this.path in place.
FileNeverTorn == file # Torn

\* A set that resolved leaves the file equal to the map, so it also saves
\* whatever earlier sets of this process failed to save.
ResolvedSetSavesAll ==
    (loaded /\ call = NoCall /\ outcome = "resolved") => file = cache

\* A location disappears from the file only in a process that could not read
\* the file when it started (it starts empty and its first set rewrites the
\* file without the locations it never saw).
Has(content, k) == content \in Snapshots /\ content[k] # NoState
OnlyUnreadStateIsLost ==
    [][(\E k \in Keys : Has(file, k) /\ ~Has(file', k)) => startedEmpty]_storeVars

\* The store is a snapshot store: every step is a start, put, flush or stop of
\* SnapshotStore, or nothing to its caller.
Abstract == INSTANCE SnapshotStore WITH up <- loaded, mem <- cache, disk <- Saved(file)
ImplementsSnapshotStore == Abstract!SnapshotSpec
============================================================================
