----------------------------- MODULE ResultCache -------------------------------
(***************************************************************************)
(* The result cache of an output directory: one JSON file that processes    *)
(* rewrite under a sidecar lock, and the copy each process keeps of it.      *)
(***************************************************************************)
CONSTANTS
    Runs,           \* places a lookup runs in: a coroutine of some process
    Processes,      \* processes that use the output directory
    Nobody          \* no run

ASSUME NobodyIsNoRun == Nobody \notin Runs

VARIABLES
    host,           \* host[r]: the process of run r
    disk,           \* the entries of the file: a function from keys
    loaded,         \* the processes with an entry in _STORES
    memory,         \* memory[p]: the entries process p holds
    cacheLock,      \* the run inside write_cache_entry
    draft           \* what it read: the entries, and whether reading them failed

cacheVars == <<disk, loaded, memory, cacheLock, draft>>

NoEntries == [k \in {} |-> k]
NoDraft == [entries |-> NoEntries, blind |-> FALSE]

CacheInit ==
    /\ disk = NoEntries
    /\ loaded = {} /\ memory = [p \in Processes |-> NoEntries]
    /\ cacheLock = Nobody /\ draft = NoDraft

With(entries, key, entry) ==
    [k \in DOMAIN entries \cup {key} |-> IF k = key THEN entry ELSE entries[k]]

\* The file is read once per process, behind a write in progress.
Load(p) ==
    /\ p \notin loaded => cacheLock = Nobody
    /\ loaded' = loaded \cup {p}
    /\ memory' = [memory EXCEPT ![p] = IF p \in loaded THEN @ ELSE disk]
    /\ UNCHANGED <<disk, cacheLock, draft>>

Held(p) == IF p \in loaded THEN memory[p] ELSE disk

\* write_cache_entry takes the locks and reads the file again; a file it cannot
\* read counts as empty.
OpenCache(r, readable) ==
    /\ cacheLock = Nobody
    /\ cacheLock' = r
    /\ draft' = [entries |-> IF readable THEN disk ELSE NoEntries, blind |-> ~readable]
    /\ UNCHANGED <<disk, loaded, memory>>

\* The file is replaced in one step.
SaveEntry(r, key, entry) ==
    /\ cacheLock = r
    /\ disk' = With(draft.entries, key, entry)
    /\ memory' = [memory EXCEPT ![host[r]] = disk']
    /\ loaded' = loaded \cup {host[r]}
    /\ cacheLock' = Nobody /\ draft' = NoDraft

\* On failure the process keeps what it held before.
SaveFails(r) ==
    /\ cacheLock = r
    /\ cacheLock' = Nobody /\ draft' = NoDraft
    /\ UNCHANGED <<disk, loaded, memory>>

\* The end of a process releases its lock and forgets what it held.
ForgetCache(p) ==
    LET mine == cacheLock \in Runs /\ host[cacheLock] = p
    IN  /\ loaded' = loaded \ {p}
        /\ memory' = [memory EXCEPT ![p] = NoEntries]
        /\ cacheLock' = IF mine THEN Nobody ELSE cacheLock
        /\ draft' = IF mine THEN NoDraft ELSE draft
        /\ UNCHANGED disk
================================================================================
