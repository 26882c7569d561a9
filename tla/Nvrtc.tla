------------------------------- MODULE Nvrtc --------------------------------
(***************************************************************************)
(* NvrtcActor (kernel/nvrtc.rs) and its disk cache (nvrtc_cache.rs).         *)
(* Processes built from different crate versions share the cache directory. *)
(* A compilation is a job: on the actor's thread (Compile), on a blocking   *)
(* thread (CompileAsync), or on a caller's thread without an actor          *)
(* (compile_to_ptx).  Contexts are numbered by the generation in which they *)
(* were installed.  Hashes are taken to be free of collisions.              *)
(***************************************************************************)
EXTENDS Naturals

CONSTANTS Procs,     \* processes that share the cache directory
          Devices,   \* those with a device, so with an NvrtcActor
          Version,   \* the crate version each process is built from
          Wants,     \* per process: the programs it compiles
          MaxJobs,   \* bound on the compilations
          MaxGen     \* bound on the generations of a device

VARIABLES
    tmpFile,   \* per program: what <key>.bin.tmp holds, an entry, Torn or NoFile
    binFile,   \* per program: what <key>.bin holds
    gens,      \* per process: DeviceState.generation
    actor,     \* per process: the context of the running actor, or Down
    modules,   \* per process: the programs in the actor's module map
    memory,    \* per process: the entries in the cache's in-memory map
    jobs,      \* the compilations
    handle     \* per process: the KernelHandle its caller holds, or NoHandle

\* A program is a record with src and opts: the key of the disk cache.
Programs == UNION {Wants[p] : p \in Procs}

vars == <<tmpFile, binFile, gens, actor, modules, memory, jobs, handle>>
files == <<tmpFile, binFile>>
device == <<gens, actor, handle>>

NoFile   == [kind |-> "none"]
Jobs     == 1 .. MaxJobs
Torn     == [kind |-> "torn"]
Down     == 0
Idle     == [step |-> "idle"]
Done     == [step |-> "done"]
NoHandle == [ctx |-> 0]

\* CachedKernel::new stamps the entry with the version of the crate.
Entry(prog, p) == [kind |-> "entry", prog |-> prog, version |-> Version[p]]

\* The directory as earlier processes left it.
Init ==
    /\ tmpFile \in [Programs -> {NoFile, Torn}]
    /\ \E p \in Procs : binFile \in {[k \in Programs |-> NoFile], [k \in Programs |-> Torn],
                                    [k \in Programs |-> Entry(k, p)]}
    /\ gens = [p \in Procs |-> 1]
    /\ actor = [p \in Procs |-> 1]
    /\ modules = [p \in Procs |-> {}]
    /\ memory = [p \in Procs |-> {}]
    /\ jobs = [j \in Jobs |-> Idle]
    /\ handle = [p \in Procs |-> NoHandle]

-----------------------------------------------------------------------------
(* Compilation. *)

At(j, step) == jobs[j].step = step
Running(j)  == jobs[j] \notin {Idle, Done}
\* The job's actor is still the one that runs: it shares its caches.
Attached(j) == actor[jobs[j].proc] = jobs[j].ctx
Goto(j, step) == jobs' = [jobs EXCEPT ![j].step = step]
GotoWith(j, step, entry) == jobs' = [jobs EXCEPT ![j].step = step, ![j].ptx = entry]
End(j) == jobs' = [jobs EXCEPT ![j] = Done]

\* NvrtcActor::handle: a synchronous compilation holds up the mailbox.
ActorBusy(p) == \E j \in Jobs : Running(j) /\ jobs[j].how = "sync" /\ jobs[j].proc = p /\ Attached(j)

StartCompile(j, p, prog, how) ==
    /\ jobs[j] = Idle /\ \A i \in 1 .. j - 1 : jobs[i] # Idle
    /\ IF p \in Devices THEN how \in {"sync", "async"} /\ actor[p] # Down /\ ~ActorBusy(p)
                       ELSE how = "emit"
    /\ jobs' = [jobs EXCEPT ![j] = [step |-> IF how = "sync" THEN "modules" ELSE "cache", proc |-> p,
                                    prog |-> prog, how |-> how, ctx |-> actor[p], ptx |-> NoFile, file |-> "none"]]
    /\ UNCHANGED <<files, device, modules, memory>>

\* Step 1: the module map, keyed by the source alone.
LookInModules(j) ==
    LET p   == jobs[j].proc
        hit == {m \in modules[p] : m.src = jobs[j].prog.src} IN
    /\ At(j, "modules")
    /\ IF Attached(j) /\ hit # {} THEN Goto(j, "mint") ELSE Goto(j, "cache")
    /\ UNCHANGED <<files, device, modules, memory>>

\* Mutant of Readable: the version of an entry is not compared.
ReadableAnyVersion(e, p) == e \notin {NoFile, Torn}

\* get accepts an entry that decodes and carries the reader's version.
Readable(e, p) == e \notin {NoFile, Torn} /\ e.version = Version[p]

\* Step 2: NvrtcCache::get, the in-memory map first, then the file.
Get(j) ==
    LET p      == jobs[j].proc
        prog   == jobs[j].prog
        inMem  == {e \in memory[p] : Attached(j) /\ e.prog = prog}
        onDisk == binFile[prog] IN
    /\ At(j, "cache")
    /\ \/ \E e \in inMem : GotoWith(j, "load", e) /\ UNCHANGED memory
       \/ /\ inMem = {} /\ Readable(onDisk, p)
          /\ GotoWith(j, "load", onDisk)
          /\ memory' = IF Attached(j) THEN [memory EXCEPT ![p] = @ \cup {onDisk}] ELSE memory
       \/ /\ inMem = {} /\ ~Readable(onDisk, p)
          /\ Goto(j, "compile") /\ UNCHANGED memory
    /\ UNCHANGED <<files, device, modules>>

\* Step 3: NVRTC compiles, or reports an error.
Compile(j) ==
    /\ At(j, "compile")
    /\ \/ GotoWith(j, "create", Entry(jobs[j].prog, jobs[j].proc))
       \/ End(j)
    /\ UNCHANGED <<files, device, modules, memory>>

-----------------------------------------------------------------------------
(* NvrtcCache::insert.  A failure of any step is not fatal. *)

\* The name that leads to the file a writer has open: "tmp", "bin" or, once it
\* is unlinked, "none".
Writing(j) == At(j, "write")

\* File::create truncates the temporary file if another writer has made it.
CreateTmp(j) ==
    /\ At(j, "create")
    /\ tmpFile' = [tmpFile EXCEPT ![jobs[j].prog] = Torn]
    /\ jobs' = [jobs EXCEPT ![j].step = "write", ![j].file = "tmp"]
    /\ UNCHANGED <<binFile, device, modules, memory>>

WriteTmp(j) ==
    LET k == jobs[j].prog IN
    /\ At(j, "write")
    /\ tmpFile' = IF jobs[j].file = "tmp" THEN [tmpFile EXCEPT ![k] = jobs[j].ptx] ELSE tmpFile
    /\ binFile' = IF jobs[j].file = "bin" THEN [binFile EXCEPT ![k] = jobs[j].ptx] ELSE binFile
    /\ jobs' = [jobs EXCEPT ![j].step = "rename", ![j].file = "none"]
    /\ UNCHANGED <<device, modules, memory>>

\* The rename publishes whatever the temporary name leads to, also a file that
\* another writer has just truncated; it fails when another writer's rename has
\* taken the name away.
Rename(j) ==
    LET p == jobs[j].proc
        k == jobs[j].prog
        Moved(f) == IF f = "tmp" THEN "bin" ELSE "none" IN
    /\ At(j, "rename")
    /\ IF tmpFile[k] # NoFile
       THEN /\ binFile' = [binFile EXCEPT ![k] = tmpFile[k]]
            /\ tmpFile' = [tmpFile EXCEPT ![k] = NoFile]
            /\ jobs' = [x \in Jobs |-> CASE x = j -> [jobs[j] EXCEPT !.step = "load"]
                                        [] Writing(x) /\ jobs[x].prog = k -> [jobs[x] EXCEPT !.file = Moved(@)]
                                        [] OTHER -> jobs[x]]
            /\ memory' = IF Attached(j)
                         THEN [memory EXCEPT ![p] = {e \in @ : e.prog # k} \cup {jobs[j].ptx}]
                         ELSE memory
       ELSE Goto(j, "unlink") /\ UNCHANGED <<files, memory>>
    /\ UNCHANGED <<device, modules>>

\* The clean-up after a failed rename takes the name away from whoever has made
\* the file again in the meantime.
Unlink(j) ==
    LET k == jobs[j].prog IN
    /\ At(j, "unlink")
    /\ tmpFile' = [tmpFile EXCEPT ![k] = NoFile]
    /\ jobs' = [x \in Jobs |-> CASE x = j -> [jobs[j] EXCEPT !.step = "load"]
                                [] Writing(x) /\ jobs[x].prog = k /\ jobs[x].file = "tmp" ->
                                    [jobs[x] EXCEPT !.file = "none"]
                                [] OTHER -> jobs[x]]
    /\ UNCHANGED <<binFile, device, modules, memory>>

\* A read-only or full file system.
InsertFails(j) ==
    /\ At(j, "create") \/ At(j, "write")
    /\ jobs' = [jobs EXCEPT ![j].step = "load", ![j].file = "none"]
    /\ UNCHANGED <<files, device, modules, memory>>

-----------------------------------------------------------------------------
\* compile_to_ptx returns the bytes; an actor loads them into its context.
Load(j) ==
    LET p == jobs[j].proc IN
    /\ At(j, "load")
    /\ \/ End(j) /\ UNCHANGED modules
       \/ /\ jobs[j].how # "emit"
          /\ Goto(j, "mint")
          /\ modules' = IF jobs[j].how = "sync" /\ Attached(j)
                        THEN [modules EXCEPT ![p] = {m \in @ : m.src # jobs[j].prog.src} \cup {jobs[j].prog}]
                        ELSE modules
    /\ UNCHANGED <<files, device, memory>>

\* The handle takes the generation of this moment, not of the job's context.
\* The caller keeps the new handle or the one it had; load_function may fail.
Mint(j) ==
    LET p == jobs[j].proc IN
    /\ At(j, "mint")
    /\ End(j)
    /\ handle' \in {handle, [handle EXCEPT ![p] = [ctx |-> jobs[j].ctx, gen |-> gens[p]]]}
    /\ UNCHANGED <<files, gens, actor, modules, memory>>

\* Mutant of Current: handle_launch does not look at the generation.
CurrentAlways(p) == TRUE

\* handle_launch's check.
Current(p) == handle[p].gen = gens[p]

\* The handle goes with the message: an accepted launch runs it in the actor's
\* context.
LaunchAccepted(p) == actor[p] # Down /\ ~ActorBusy(p) /\ handle[p] # NoHandle /\ Current(p)

Launch(p) ==
    /\ LaunchAccepted(p)
    /\ handle' = [handle EXCEPT ![p] = NoHandle]
    /\ UNCHANGED <<files, gens, actor, modules, memory, jobs>>

LaunchStale(p) ==
    /\ actor[p] # Down /\ ~ActorBusy(p)
    /\ handle[p] # NoHandle
    /\ ~Current(p)
    /\ handle' = [handle EXCEPT ![p] = NoHandle]   \* GpuRefStale
    /\ UNCHANGED <<files, gens, actor, modules, memory, jobs>>

-----------------------------------------------------------------------------
\* The context is lost: the actor stops with its parent, the generation stays
\* as it is until the parent rebuilds.
LoseContext(p) ==
    /\ p \in Devices /\ actor[p] # Down
    /\ gens[p] < MaxGen
    /\ actor' = [actor EXCEPT ![p] = Down]
    /\ UNCHANGED <<files, gens, handle, modules, memory, jobs>>

\* Init bumps the generation, once for each attempt, and starts a new actor in
\* its new context, with an empty module map and a new NvrtcCache.  Nobody but
\* Mint can tell the bump from the start, and it reads the generation only.
Respawn(p) ==
    /\ actor[p] = Down
    /\ \E g \in gens[p] + 1 .. MaxGen :
          /\ gens' = [gens EXCEPT ![p] = g]
          /\ actor' = [actor EXCEPT ![p] = g]
    /\ modules' = [modules EXCEPT ![p] = {}]
    /\ memory' = [memory EXCEPT ![p] = {}]
    /\ UNCHANGED <<files, handle, jobs>>

\* The process dies and is started again; the directory stays as it is.
Crash(p) ==
    /\ gens' = [gens EXCEPT ![p] = 1]
    /\ actor' = [actor EXCEPT ![p] = 1]
    /\ modules' = [modules EXCEPT ![p] = {}]
    /\ memory' = [memory EXCEPT ![p] = {}]
    /\ jobs' = [j \in Jobs |-> IF Running(j) /\ jobs[j].proc = p THEN Done ELSE jobs[j]]
    /\ handle' = [handle EXCEPT ![p] = NoHandle]
    /\ UNCHANGED files

\* clear_in_memory.
ClearInMemory(p) ==
    /\ memory[p] # {}
    /\ memory' = [memory EXCEPT ![p] = {}]
    /\ UNCHANGED <<files, device, modules, jobs>>

Next ==
    \/ \E j \in Jobs, p \in Procs, how \in {"sync", "async", "emit"} :
        \E prog \in Wants[p] : StartCompile(j, p, prog, how)
    \/ \E j \in Jobs : \/ LookInModules(j) \/ Get(j) \/ Compile(j) \/ CreateTmp(j) \/ WriteTmp(j)
                       \/ Rename(j) \/ Unlink(j) \/ InsertFails(j) \/ Load(j) \/ Mint(j)
    \/ \E p \in Procs : \/ Launch(p) \/ LaunchStale(p) \/ LoseContext(p) \/ Respawn(p)
                        \/ Crash(p) \/ ClearInMemory(p)

Spec == Init /\ [][Next]_vars

-----------------------------------------------------------------------------
\* The code a job loads was compiled for its own source and options by its own
\* version of the crate, however many writers share the temporary file, whichever
\* of them crashes, and whatever they leave in the directory.
LoadedIsOwn ==
    \A j \in Jobs : At(j, "load") => jobs[j].ptx = Entry(jobs[j].prog, jobs[j].proc)

\* A kernel that was minted while its context was the current one is never
\* launched in another context: after a rebuild its launch is refused.
SettledHandles ==
    \A p \in Procs : LaunchAccepted(p) /\ handle[p].gen = handle[p].ctx => handle[p].ctx = actor[p]
=============================================================================
