---------------------------- MODULE PatternProofs ----------------------------
(***************************************************************************)
(* LoadedIsOwn and SettledHandles of the runtime compiler for any processes, *)
(* versions, programs and jobs, StalenessBounded of the parameter server for *)
(* any workers and any max_staleness, PlansAccounted of the plan caches for  *)
(* any requests, capacity and number of launches, OkMeansAll of the          *)
(* orchestrators for any workers, teams and sizes, CacheHonest of the        *)
(* embedding cache and its queries for any texts and capacity, and           *)
(* StagesInOrder of the staged computations for any stages, graphs, limits   *)
(* and channels.                                                             *)
(***************************************************************************)
EXTENDS Nvrtc, ParamServer, PlanCaches, Orchestrators, Rag, StagedRuns, FiniteSetTheorems, SequenceTheorems, TLAPS

-----------------------------------------------------------------------------
(* The runtime compiler. *)

Steps == {"modules", "cache", "compile", "create", "write", "rename", "unlink", "load", "mint"}

\* The entries that carry the version of some process.
Entries == {Entry(k, p) : k \in Programs, p \in Procs}

JobRecords ==
    [step : Steps, proc : Procs, prog : Programs, how : {"sync", "async", "emit"}, ctx : Nat,
     ptx : {NoFile} \cup Entries, file : {"tmp", "bin", "none"}]

\* What a file named after the program k may hold.
Stored(k) == {NoFile, Torn} \cup {Entry(k, p) : p \in Procs}

JobTypes ==
    /\ jobs \in [Jobs -> {Idle, Done} \cup JobRecords]
    /\ gens \in [Procs -> Nat]
    /\ actor \in [Procs -> Nat]

\* No writer stores an entry under another program's name: a file is torn, or
\* it is some version's entry for the program it is named after.
FilesInv ==
    /\ tmpFile \in [Programs -> {NoFile, Torn} \cup Entries]
    /\ binFile \in [Programs -> {NoFile, Torn} \cup Entries]
    /\ \A k \in Programs : tmpFile[k] \in Stored(k) /\ binFile[k] \in Stored(k)

\* An in-memory map holds entries of its own process's version only.
MemoryInv ==
    /\ memory \in [Procs -> SUBSET Entries]
    /\ \A p \in Procs : memory[p] \subseteq {Entry(k, p) : k \in Programs}

\* From the end of the compilation to the load, a job holds its own entry.
PtxInv ==
    \A j \in Jobs : jobs[j].step \in {"create", "write", "rename", "unlink", "load"} =>
        jobs[j].ptx = Entry(jobs[j].prog, jobs[j].proc)

\* A running actor has the context of the current generation.
ActorInv == \A p \in Procs : actor[p] \in {Down, gens[p]}

\* The inductive invariant of the compiler.
CompilerInv == JobTypes /\ FilesInv /\ MemoryInv /\ PtxInv /\ ActorInv

\* A job at a step is neither idle nor done.
LEMMA JobFacts ==
    ASSUME JobTypes, NEW j \in Jobs, jobs[j].step \in Steps
    PROVE  jobs[j] \in JobRecords
  BY DEF JobTypes, Steps, Idle, Done

\* Entries of two processes of the same version are the same, and an entry is
\* neither torn nor missing.
LEMMA EntryFacts ==
    ASSUME NEW k, NEW p
    PROVE  /\ Entry(k, p) \notin {NoFile, Torn}
           /\ Entry(k, p).prog = k
           /\ Entry(k, p).version = Version[p]
           /\ \A q : Version[q] = Version[p] => Entry(k, q) = Entry(k, p)
  BY DEF Entry, NoFile, Torn

\* What get accepts from the file of a program is the reader's own entry.
LEMMA ReadFacts ==
    ASSUME FilesInv, NEW k \in Programs, NEW p \in Procs, Readable(binFile[k], p)
    PROVE  binFile[k] = Entry(k, p)
  <1>1. PICK q \in Procs : binFile[k] = Entry(k, q)
    BY DEF FilesInv, Readable, Stored
  <1> QED
    BY <1>1, EntryFacts DEF Readable

LEMMA CompilerInit == Init => CompilerInv
  <1> SUFFICES ASSUME Init PROVE CompilerInv
    OBVIOUS
  <1>1. JobTypes
    BY DEF Init, JobTypes
  <1>2. FilesInv
    <2>1. PICK p \in Procs : binFile \in {[k \in Programs |-> NoFile], [k \in Programs |-> Torn],
                                          [k \in Programs |-> Entry(k, p)]}
      BY DEF Init
    <2>2. \A k \in Programs : Entry(k, p) \in Entries
      BY DEF Entries
    <2> QED
      BY <2>1, <2>2 DEF Init, FilesInv, Stored
  <1>3. MemoryInv
    BY DEF Init, MemoryInv
  <1>4. PtxInv
    BY DEF Init, PtxInv, Idle
  <1>5. ActorInv
    BY DEF Init, ActorInv
  <1> QED
    BY <1>1, <1>2, <1>3, <1>4, <1>5 DEF CompilerInv

\* A job moves on to a step at which it needs no entry, or has its own.
LEMMA JobMoves ==
    ASSUME JobTypes, PtxInv, NEW j \in Jobs, NEW r \in JobRecords \cup {Idle, Done},
           r.step \in {"create", "write", "rename", "unlink", "load"} => r.ptx = Entry(r.prog, r.proc),
           jobs' = [jobs EXCEPT ![j] = r]
    PROVE  /\ jobs' \in [Jobs -> {Idle, Done} \cup JobRecords]
           /\ PtxInv'
  <1>1. jobs' \in [Jobs -> {Idle, Done} \cup JobRecords]
    BY DEF JobTypes
  <1>2. \A i \in Jobs : jobs'[i] = IF i = j THEN r ELSE jobs[i]
    BY DEF JobTypes
  <1>3. PtxInv'
    BY <1>2 DEF PtxInv, Entry
  <1> QED
    BY <1>1, <1>3

\* Only the step of a job changes, to one at which it needs no entry, or has it.
LEMMA GotoFacts ==
    ASSUME JobTypes, PtxInv, NEW j \in Jobs, jobs[j].step \in Steps, NEW s \in Steps,
           s \in {"create", "write", "rename", "unlink", "load"} =>
                jobs[j].ptx = Entry(jobs[j].prog, jobs[j].proc),
           Goto(j, s)
    PROVE  jobs' \in [Jobs -> {Idle, Done} \cup JobRecords] /\ PtxInv'
  <1> DEFINE r == [jobs[j] EXCEPT !.step = s]
  <1>1. jobs[j] \in JobRecords
    BY JobFacts
  <1>2. /\ r \in JobRecords
        /\ r.step = s /\ r.ptx = jobs[j].ptx /\ r.prog = jobs[j].prog /\ r.proc = jobs[j].proc
    BY <1>1 DEF JobRecords
  <1>3. jobs' = [jobs EXCEPT ![j] = r]
    BY DEF Goto
  <1> HIDE DEF r
  <1> QED
    BY <1>2, <1>3, JobMoves

\* A job goes on with its own entry.
LEMMA GotoWithFacts ==
    ASSUME JobTypes, PtxInv, NEW j \in Jobs, jobs[j].step \in Steps, NEW s \in Steps,
           GotoWith(j, s, Entry(jobs[j].prog, jobs[j].proc))
    PROVE  jobs' \in [Jobs -> {Idle, Done} \cup JobRecords] /\ PtxInv'
  <1> DEFINE e == Entry(jobs[j].prog, jobs[j].proc)
             r == [jobs[j] EXCEPT !.step = s, !.ptx = e]
  <1>1. jobs[j] \in JobRecords
    BY JobFacts
  <1>2. e \in Entries
    BY <1>1 DEF JobRecords, Entries
  <1>3. jobs' = [jobs EXCEPT ![j] = r]
    BY DEF GotoWith
  <1>4. /\ r \in JobRecords
        /\ r.step = s /\ r.ptx = e /\ r.prog = jobs[j].prog /\ r.proc = jobs[j].proc
    <2> HIDE DEF e
    <2> QED
      BY <1>1, <1>2 DEF JobRecords
  <1>5. r.ptx = Entry(r.prog, r.proc)
    BY <1>4
  <1> HIDE DEF r
  <1> QED
    BY <1>3, <1>4, <1>5, JobMoves

\* A job ends.
LEMMA EndFacts ==
    ASSUME JobTypes, PtxInv, NEW j \in Jobs, End(j)
    PROVE  jobs' \in [Jobs -> {Idle, Done} \cup JobRecords] /\ PtxInv'
  <1>1. Done.step \notin {"create", "write", "rename", "unlink", "load"}
    BY DEF Done
  <1> QED
    BY <1>1, JobMoves DEF End

\* Steps that leave the files, the memory maps or the actors as they are.
LEMMA FilesKept == FilesInv /\ UNCHANGED files => FilesInv'
  BY DEF FilesInv, files, Entries, Stored, Entry

LEMMA MemoryKept == MemoryInv /\ UNCHANGED memory => MemoryInv'
  BY DEF MemoryInv, Entries, Entry

LEMMA ActorsKept ==
    ASSUME JobTypes, ActorInv, UNCHANGED <<gens, actor>>
    PROVE  gens' \in [Procs -> Nat] /\ actor' \in [Procs -> Nat] /\ ActorInv'
  BY DEF JobTypes, ActorInv

\* A job starts with no entry.
LEMMA StartStep ==
    ASSUME CompilerInv, NEW j \in Jobs, NEW p \in Procs, NEW prog \in Wants[p],
           NEW how \in {"sync", "async", "emit"}, StartCompile(j, p, prog, how)
    PROVE  CompilerInv'
  <1> USE DEF CompilerInv
  <1> DEFINE r == [step |-> IF how = "sync" THEN "modules" ELSE "cache", proc |-> p,
                   prog |-> prog, how |-> how, ctx |-> actor[p], ptx |-> NoFile, file |-> "none"]
  <1>1. prog \in Programs
    BY DEF Programs
  <1>2. r \in JobRecords
    BY <1>1 DEF JobRecords, JobTypes, Steps
  <1>3. r.step \notin {"create", "write", "rename", "unlink", "load"}
    OBVIOUS
  <1>4. jobs' = [jobs EXCEPT ![j] = r]
    BY DEF StartCompile
  <1>5. UNCHANGED files /\ UNCHANGED memory /\ UNCHANGED <<gens, actor>>
    BY DEF StartCompile, device, files
  <1>6. jobs' \in [Jobs -> {Idle, Done} \cup JobRecords] /\ PtxInv'
    <2> HIDE DEF r
    <2> QED
      BY <1>2, <1>3, <1>4, JobMoves
  <1> QED
    BY <1>5, <1>6, FilesKept, MemoryKept, ActorsKept DEF JobTypes

\* The lookups: what they find is the job's own.
LEMMA LookupStep ==
    ASSUME CompilerInv, NEW j \in Jobs, LookInModules(j) \/ Get(j)
    PROVE  CompilerInv'
  <1> USE DEF CompilerInv
  <1> DEFINE p    == jobs[j].proc
             prog == jobs[j].prog
  <1>1. jobs[j].step \in {"modules", "cache"} /\ jobs[j].step \in Steps
    BY DEF LookInModules, Get, At, Steps
  <1>2. jobs[j] \in JobRecords /\ p \in Procs /\ prog \in Programs
    BY <1>1, JobFacts DEF JobRecords
  <1>3. UNCHANGED files /\ UNCHANGED <<gens, actor>>
    BY DEF LookInModules, Get, device, files
  <1>4. CASE LookInModules(j)
    <2>1. UNCHANGED memory
      BY <1>4 DEF LookInModules
    <2>2. Goto(j, "mint") \/ Goto(j, "cache")
      BY <1>4 DEF LookInModules
    <2>3. jobs' \in [Jobs -> {Idle, Done} \cup JobRecords] /\ PtxInv'
      BY <1>1, <2>2, GotoFacts DEF Steps
    <2> QED
      BY <1>3, <2>1, <2>3, FilesKept, MemoryKept, ActorsKept DEF JobTypes
  <1>5. CASE Get(j)
    <2> DEFINE inMem == {e \in memory[p] : Attached(j) /\ e.prog = prog}
    <2>1. CASE \E e \in inMem : GotoWith(j, "load", e) /\ UNCHANGED memory
      <3>1. PICK e \in inMem : GotoWith(j, "load", e) /\ UNCHANGED memory
        BY <2>1
      <3>2. PICK k \in Programs : e = Entry(k, p)
        BY <1>2, <3>1 DEF MemoryInv
      <3>3. e = Entry(prog, p)
        BY <3>1, <3>2, EntryFacts
      <3>4. jobs' \in [Jobs -> {Idle, Done} \cup JobRecords] /\ PtxInv'
        BY <1>1, <3>1, <3>3, GotoWithFacts DEF Steps
      <3> QED
        BY <1>3, <3>1, <3>4, FilesKept, MemoryKept, ActorsKept DEF JobTypes
    <2>2. CASE /\ Readable(binFile[prog], p)
               /\ GotoWith(j, "load", binFile[prog])
               /\ memory' = IF Attached(j) THEN [memory EXCEPT ![p] = @ \cup {binFile[prog]}] ELSE memory
      <3>1. binFile[prog] = Entry(prog, p)
        BY <1>2, <2>2, ReadFacts
      <3>2. jobs' \in [Jobs -> {Idle, Done} \cup JobRecords] /\ PtxInv'
        BY <1>1, <2>2, <3>1, GotoWithFacts DEF Steps
      <3>3. Entry(prog, p) \in Entries
        BY <1>2 DEF Entries
      <3>4. MemoryInv'
        <4>1. MemoryInv /\ UNCHANGED memory => MemoryInv'
          BY MemoryKept
        <4>2. CASE memory' = [memory EXCEPT ![p] = @ \cup {Entry(prog, p)}]
          <5>1. memory' \in [Procs -> SUBSET Entries]
            BY <1>2, <3>3, <4>2 DEF MemoryInv
          <5>2. ASSUME NEW q \in Procs, NEW e \in memory'[q] PROVE \E k \in Programs : e = Entry(k, q)
            BY <1>2, <4>2, <5>2 DEF MemoryInv
          <5> QED
            BY <5>1, <5>2 DEF MemoryInv, Entries, Entry
        <4> QED
          BY <2>2, <3>1, <4>1, <4>2
      <3> QED
        BY <1>3, <3>2, <3>4, FilesKept, ActorsKept DEF JobTypes
    <2>3. CASE Goto(j, "compile") /\ UNCHANGED memory
      <3>1. jobs' \in [Jobs -> {Idle, Done} \cup JobRecords] /\ PtxInv'
        BY <1>1, <2>3, GotoFacts DEF Steps
      <3> QED
        BY <1>3, <2>3, <3>1, FilesKept, MemoryKept, ActorsKept DEF JobTypes
    <2> QED
      BY <1>5, <2>1, <2>2, <2>3 DEF Get
  <1> QED
    BY <1>4, <1>5

\* The compilation gives the job its own entry; a failure to insert it leaves
\* it with the job.
LEMMA CompileStep ==
    ASSUME CompilerInv, NEW j \in Jobs, Compile(j) \/ InsertFails(j) \/ Load(j)
    PROVE  CompilerInv'
  <1> USE DEF CompilerInv
  <1>1. jobs[j].step \in Steps
    BY DEF Compile, InsertFails, Load, At, Steps
  <1>2. jobs[j] \in JobRecords
    BY <1>1, JobFacts
  <1>3. UNCHANGED files /\ UNCHANGED <<gens, actor>> /\ UNCHANGED memory
    BY DEF Compile, InsertFails, Load, device, files
  <1>4. jobs' \in [Jobs -> {Idle, Done} \cup JobRecords] /\ PtxInv'
    <2>1. CASE Compile(j)
      BY <1>1, <2>1, EndFacts, GotoWithFacts DEF Compile, Steps
    <2>2. CASE InsertFails(j)
      <3> DEFINE r == [jobs[j] EXCEPT !.step = "load", !.file = "none"]
      <3>1. jobs[j].step \in {"create", "write"} /\ jobs' = [jobs EXCEPT ![j] = r]
        BY <2>2 DEF InsertFails, At
      <3>2. jobs[j].ptx = Entry(jobs[j].prog, jobs[j].proc)
        BY <3>1 DEF PtxInv
      <3>3. r \in JobRecords /\ r.ptx = jobs[j].ptx /\ r.prog = jobs[j].prog /\ r.proc = jobs[j].proc
        BY <1>2 DEF JobRecords, Steps
      <3> HIDE DEF r
      <3> QED
        BY <3>1, <3>2, <3>3, JobMoves
    <2>3. CASE Load(j)
      <3>1. End(j) \/ Goto(j, "mint")
        BY <2>3 DEF Load
      <3> QED
        BY <1>1, <3>1, EndFacts, GotoFacts DEF Steps
    <2> QED
      BY <2>1, <2>2, <2>3
  <1> QED
    BY <1>3, <1>4, FilesKept, MemoryKept, ActorsKept DEF JobTypes

\* A writer replaces what a program's file holds by something torn, by nothing,
\* or by an entry of that program.
LEMMA FileWrites ==
    ASSUME NEW f \in [Programs -> {NoFile, Torn} \cup Entries], \A k \in Programs : f[k] \in Stored(k),
           NEW k \in Programs, NEW e \in Stored(k)
    PROVE  /\ [f EXCEPT ![k] = e] \in [Programs -> {NoFile, Torn} \cup Entries]
           /\ \A i \in Programs : [f EXCEPT ![k] = e][i] \in Stored(i)
  <1>1. e \in {NoFile, Torn} \cup Entries
    BY DEF Stored, Entries
  <1> QED
    BY <1>1

\* FilesInv from what the two files hold.
LEMMA FilesFromNew ==
    ASSUME tmpFile' \in [Programs -> {NoFile, Torn} \cup Entries],
           binFile' \in [Programs -> {NoFile, Torn} \cup Entries],
           \A k \in Programs : tmpFile'[k] \in Stored(k) /\ binFile'[k] \in Stored(k)
    PROVE  FilesInv'
  BY DEF FilesInv, Entries, Stored, Entry

\* Opening the temporary file, and writing to the file that is open, wherever
\* renames by other writers have moved it.
LEMMA WriteStep ==
    ASSUME CompilerInv, NEW j \in Jobs, CreateTmp(j) \/ WriteTmp(j)
    PROVE  CompilerInv'
  <1> USE DEF CompilerInv
  <1> DEFINE k == jobs[j].prog
             p == jobs[j].proc
  <1>1. jobs[j].step \in {"create", "write"} /\ jobs[j].step \in Steps
    BY DEF CreateTmp, WriteTmp, At, Steps
  <1>2. jobs[j] \in JobRecords /\ k \in Programs /\ p \in Procs
    BY <1>1, JobFacts DEF JobRecords
  <1>3. jobs[j].ptx = Entry(k, p)
    BY <1>1 DEF PtxInv
  <1>4. UNCHANGED memory /\ UNCHANGED <<gens, actor>>
    BY DEF CreateTmp, WriteTmp, device
  <1>5. jobs' \in [Jobs -> {Idle, Done} \cup JobRecords] /\ PtxInv'
    <2>1. ASSUME NEW s \in Steps, NEW f \in {"tmp", "bin", "none"},
                 jobs' = [jobs EXCEPT ![j].step = s, ![j].file = f]
          PROVE  jobs' \in [Jobs -> {Idle, Done} \cup JobRecords] /\ PtxInv'
      <3> DEFINE r == [jobs[j] EXCEPT !.step = s, !.file = f]
      <3>1. jobs' = [jobs EXCEPT ![j] = r]
        BY <2>1
      <3>2. r \in JobRecords /\ r.ptx = jobs[j].ptx /\ r.prog = k /\ r.proc = p
        BY <1>2 DEF JobRecords
      <3> HIDE DEF r
      <3> QED
        BY <1>3, <3>1, <3>2, JobMoves
    <2>2. CASE CreateTmp(j)
      BY <2>1, <2>2 DEF CreateTmp, Steps
    <2>3. CASE WriteTmp(j)
      BY <2>1, <2>3 DEF WriteTmp, Steps
    <2> QED
      BY <2>2, <2>3
  <1>6. FilesInv'
    <2>1. Torn \in Stored(k) /\ Entry(k, p) \in Stored(k)
      BY <1>2 DEF Stored
    <2>2. tmpFile' = [tmpFile EXCEPT ![k] = Torn] \/ tmpFile' = [tmpFile EXCEPT ![k] = Entry(k, p)]
          \/ tmpFile' = tmpFile
      BY <1>3 DEF CreateTmp, WriteTmp
    <2>3. binFile' = [binFile EXCEPT ![k] = Entry(k, p)] \/ binFile' = binFile
      BY <1>3 DEF CreateTmp, WriteTmp
    <2>4. /\ tmpFile' \in [Programs -> {NoFile, Torn} \cup Entries]
          /\ \A i \in Programs : tmpFile'[i] \in Stored(i)
      BY <1>2, <2>1, <2>2, FileWrites DEF FilesInv
    <2>5. /\ binFile' \in [Programs -> {NoFile, Torn} \cup Entries]
          /\ \A i \in Programs : binFile'[i] \in Stored(i)
      BY <1>2, <2>1, <2>3, FileWrites DEF FilesInv
    <2> QED
      BY <2>4, <2>5, FilesFromNew
  <1> QED
    BY <1>4, <1>5, <1>6, MemoryKept, ActorsKept DEF JobTypes

\* When a name is taken away, the job that does it goes on, and other writers
\* change in nothing but the name that leads to their file.
LEMMA NameMoves ==
    ASSUME JobTypes, PtxInv, NEW j \in Jobs, jobs[j].step \in {"rename", "unlink"},
           NEW f \in [Jobs -> {"tmp", "bin", "none"}],
           jobs' \in [Jobs -> {Idle, Done} \cup JobRecords],
           \A x \in Jobs : \/ x = j /\ jobs'[x] = [jobs[j] EXCEPT !.step = "load"]
                           \/ Writing(x) /\ jobs'[x] = [jobs[x] EXCEPT !.file = f[x]]
                           \/ jobs'[x] = jobs[x]
    PROVE  PtxInv'
  <1> SUFFICES ASSUME NEW x \in Jobs, jobs'[x].step \in {"create", "write", "rename", "unlink", "load"}
               PROVE  jobs'[x].ptx = Entry(jobs'[x].prog, jobs'[x].proc)
    BY DEF PtxInv, Entry
  <1>1. CASE x = j /\ jobs'[x] = [jobs[j] EXCEPT !.step = "load"]
    <2>1. jobs[j] \in JobRecords
      BY JobFacts DEF Steps
    <2>2. jobs'[x].ptx = jobs[j].ptx /\ jobs'[x].prog = jobs[j].prog /\ jobs'[x].proc = jobs[j].proc
      BY <1>1, <2>1 DEF JobRecords
    <2> QED
      BY <2>2 DEF PtxInv
  <1>2. CASE Writing(x) /\ jobs'[x] = [jobs[x] EXCEPT !.file = f[x]]
    <2>1. jobs[x].step = "write" /\ jobs[x] \in JobRecords
      BY <1>2, JobFacts DEF Writing, At, Steps
    <2>2. jobs'[x].ptx = jobs[x].ptx /\ jobs'[x].prog = jobs[x].prog /\ jobs'[x].proc = jobs[x].proc
      BY <1>2, <2>1 DEF JobRecords
    <2> QED
      BY <2>1, <2>2 DEF PtxInv
  <1>3. CASE jobs'[x] = jobs[x]
    BY <1>3 DEF PtxInv
  <1> QED
    BY <1>1, <1>2, <1>3

\* The rename publishes a file under the name of the same program, and the job
\* remembers its own entry, not the one it published.
LEMMA RenameStep ==
    ASSUME CompilerInv, NEW j \in Jobs, Rename(j)
    PROVE  CompilerInv'
  <1> USE DEF CompilerInv
  <1> DEFINE k == jobs[j].prog
             p == jobs[j].proc
  <1>1. jobs[j].step = "rename" /\ jobs[j].step \in Steps
    BY DEF Rename, At, Steps
  <1>2. jobs[j] \in JobRecords /\ k \in Programs /\ p \in Procs
    BY <1>1, JobFacts DEF JobRecords
  <1>3. jobs[j].ptx = Entry(k, p)
    BY <1>1 DEF PtxInv
  <1>4. UNCHANGED <<gens, actor>>
    BY DEF Rename, device
  <1>5. CASE tmpFile[k] # NoFile
    <2>1. FilesInv'
      <3>1. tmpFile[k] \in Stored(k) /\ NoFile \in Stored(k)
        BY <1>2 DEF FilesInv, Stored
      <3>2. binFile' = [binFile EXCEPT ![k] = tmpFile[k]] /\ tmpFile' = [tmpFile EXCEPT ![k] = NoFile]
        BY <1>5 DEF Rename
      <3>3. /\ tmpFile' \in [Programs -> {NoFile, Torn} \cup Entries]
            /\ \A i \in Programs : tmpFile'[i] \in Stored(i)
        BY <1>2, <3>1, <3>2, FileWrites DEF FilesInv
      <3>4. /\ binFile' \in [Programs -> {NoFile, Torn} \cup Entries]
            /\ \A i \in Programs : binFile'[i] \in Stored(i)
        BY <1>2, <3>1, <3>2, FileWrites DEF FilesInv
      <3> QED
        BY <3>3, <3>4, FilesFromNew
    <2>2. jobs' \in [Jobs -> {Idle, Done} \cup JobRecords] /\ PtxInv'
      <3> DEFINE Moved(f) == IF f = "tmp" THEN "bin" ELSE "none"
                 g == [x \in Jobs |-> Moved(jobs[x].file)]
      <3>1. g \in [Jobs -> {"tmp", "bin", "none"}]
        OBVIOUS
      <3>2. jobs' = [x \in Jobs |-> CASE x = j -> [jobs[j] EXCEPT !.step = "load"]
                                     [] Writing(x) /\ jobs[x].prog = k -> [jobs[x] EXCEPT !.file = Moved(@)]
                                     [] OTHER -> jobs[x]]
        BY <1>5 DEF Rename
      <3>3. ~Writing(j)
        BY <1>1 DEF Writing, At
      <3>4. \A x \in Jobs : \/ x = j /\ jobs'[x] = [jobs[j] EXCEPT !.step = "load"]
                            \/ Writing(x) /\ jobs'[x] = [jobs[x] EXCEPT !.file = g[x]]
                            \/ jobs'[x] = jobs[x]
        BY <3>2, <3>3
      <3>5. ASSUME NEW x \in Jobs PROVE jobs'[x] \in {Idle, Done} \cup JobRecords
        <4>1. [jobs[j] EXCEPT !.step = "load"] \in JobRecords
          BY <1>2 DEF JobRecords, Steps
        <4>2. Writing(x) => [jobs[x] EXCEPT !.file = g[x]] \in JobRecords
          <5>1. Writing(x) => jobs[x] \in JobRecords
            BY JobFacts DEF Writing, At, Steps
          <5> HIDE DEF g
          <5> QED
            BY <3>1, <5>1 DEF JobRecords
        <4> HIDE DEF g
        <4> QED
          BY <3>4, <4>1, <4>2 DEF JobTypes
      <3>6. jobs' \in [Jobs -> {Idle, Done} \cup JobRecords]
        BY <3>2, <3>5
      <3> HIDE DEF g
      <3> QED
        BY <1>1, <3>1, <3>4, <3>6, NameMoves
    <2>3. MemoryInv'
      <3>1. Entry(k, p) \in Entries
        BY <1>2 DEF Entries
      <3>2. CASE UNCHANGED memory
        BY <3>2, MemoryKept
      <3>3. CASE memory' = [memory EXCEPT ![p] = {e \in @ : e.prog # k} \cup {Entry(k, p)}]
        <4>1. memory' \in [Procs -> SUBSET Entries]
          BY <1>2, <3>1, <3>3 DEF MemoryInv
        <4>2. ASSUME NEW q \in Procs, NEW e \in memory'[q] PROVE \E i \in Programs : e = Entry(i, q)
          BY <1>2, <3>3, <4>2 DEF MemoryInv
        <4> QED
          BY <4>1, <4>2 DEF MemoryInv, Entries, Entry
      <3> QED
        BY <1>3, <1>5, <3>2, <3>3 DEF Rename
    <2> QED
      BY <1>4, <2>1, <2>2, <2>3, ActorsKept DEF JobTypes
  <1>6. CASE tmpFile[k] = NoFile
    <2>1. Goto(j, "unlink") /\ UNCHANGED files /\ UNCHANGED memory
      BY <1>6 DEF Rename
    <2>2. jobs' \in [Jobs -> {Idle, Done} \cup JobRecords] /\ PtxInv'
      BY <1>1, <1>3, <2>1, GotoFacts DEF Steps
    <2> QED
      BY <1>4, <2>1, <2>2, FilesKept, MemoryKept, ActorsKept DEF JobTypes
  <1> QED
    BY <1>5, <1>6

\* The clean-up after a failed rename.
LEMMA UnlinkStep ==
    ASSUME CompilerInv, NEW j \in Jobs, Unlink(j)
    PROVE  CompilerInv'
  <1> USE DEF CompilerInv
  <1> DEFINE k == jobs[j].prog
             g == [x \in Jobs |-> "none"]
  <1>1. jobs[j].step = "unlink" /\ jobs[j].step \in Steps
    BY DEF Unlink, At, Steps
  <1>2. jobs[j] \in JobRecords /\ k \in Programs
    BY <1>1, JobFacts DEF JobRecords
  <1>3. UNCHANGED <<gens, actor>> /\ UNCHANGED memory /\ binFile' = binFile
    BY DEF Unlink, device
  <1>4. FilesInv'
    <2>1. NoFile \in Stored(k)
      BY DEF Stored
    <2>2. tmpFile' = [tmpFile EXCEPT ![k] = NoFile]
      BY DEF Unlink
    <2>3. /\ tmpFile' \in [Programs -> {NoFile, Torn} \cup Entries]
          /\ \A i \in Programs : tmpFile'[i] \in Stored(i)
      BY <1>2, <2>1, <2>2, FileWrites DEF FilesInv
    <2> QED
      BY <1>3, <2>3, FilesFromNew DEF FilesInv
  <1>5. jobs' \in [Jobs -> {Idle, Done} \cup JobRecords] /\ PtxInv'
    <2>1. g \in [Jobs -> {"tmp", "bin", "none"}]
      OBVIOUS
    <2>2. jobs' = [x \in Jobs |-> CASE x = j -> [jobs[j] EXCEPT !.step = "load"]
                                   [] Writing(x) /\ jobs[x].prog = k /\ jobs[x].file = "tmp" ->
                                       [jobs[x] EXCEPT !.file = "none"]
                                   [] OTHER -> jobs[x]]
      BY DEF Unlink
    <2>3. ~Writing(j)
      BY <1>1 DEF Writing, At
    <2>4. \A x \in Jobs : \/ x = j /\ jobs'[x] = [jobs[j] EXCEPT !.step = "load"]
                          \/ Writing(x) /\ jobs'[x] = [jobs[x] EXCEPT !.file = g[x]]
                          \/ jobs'[x] = jobs[x]
      BY <2>2, <2>3
    <2>5. ASSUME NEW x \in Jobs PROVE jobs'[x] \in {Idle, Done} \cup JobRecords
      <3>1. [jobs[j] EXCEPT !.step = "load"] \in JobRecords
        BY <1>2 DEF JobRecords, Steps
      <3>2. Writing(x) => [jobs[x] EXCEPT !.file = g[x]] \in JobRecords
        <4>1. Writing(x) => jobs[x] \in JobRecords
          BY JobFacts DEF Writing, At, Steps
        <4> HIDE DEF g
        <4> QED
          BY <2>1, <4>1 DEF JobRecords
      <3> HIDE DEF g
      <3> QED
        BY <2>4, <3>1, <3>2 DEF JobTypes
    <2>6. jobs' \in [Jobs -> {Idle, Done} \cup JobRecords]
      BY <2>2, <2>5
    <2> HIDE DEF g
    <2> QED
      BY <1>1, <2>1, <2>4, <2>6, NameMoves
  <1> QED
    BY <1>3, <1>4, <1>5, MemoryKept, ActorsKept DEF JobTypes

\* A handle is made or used up: no file, map or actor changes.
LEMMA HandleStep ==
    ASSUME CompilerInv,
           \/ \E j \in Jobs : Mint(j)
           \/ \E p \in Procs : Launch(p) \/ LaunchStale(p)
    PROVE  CompilerInv'
  <1> USE DEF CompilerInv
  <1>1. UNCHANGED files /\ UNCHANGED memory /\ UNCHANGED <<gens, actor>>
    BY DEF Mint, Launch, LaunchStale, files
  <1>2. jobs' \in [Jobs -> {Idle, Done} \cup JobRecords] /\ PtxInv'
    <2>1. CASE \E j \in Jobs : End(j)
      BY <2>1, EndFacts
    <2>2. CASE UNCHANGED jobs
      BY <2>2 DEF JobTypes, PtxInv, Entry
    <2> QED
      BY <2>1, <2>2 DEF Mint, Launch, LaunchStale
  <1> QED
    BY <1>1, <1>2, FilesKept, MemoryKept, ActorsKept DEF JobTypes

\* A memory map that is emptied.
LEMMA MemoryEmptied ==
    ASSUME MemoryInv, NEW p \in Procs, memory' = [memory EXCEPT ![p] = {}]
    PROVE  MemoryInv'
  <1>1. memory' \in [Procs -> SUBSET Entries]
    BY DEF MemoryInv
  <1>2. ASSUME NEW q \in Procs, NEW e \in memory'[q] PROVE \E i \in Programs : e = Entry(i, q)
    BY <1>2 DEF MemoryInv
  <1> QED
    BY <1>1, <1>2 DEF MemoryInv, Entries, Entry

\* Losing a context takes the actor and leaves the generation; a new actor comes
\* with a new generation.
LEMMA DeviceStep ==
    ASSUME CompilerInv, NEW p \in Procs, LoseContext(p) \/ Respawn(p) \/ Crash(p) \/ ClearInMemory(p)
    PROVE  CompilerInv'
  <1> USE DEF CompilerInv
  <1>1. UNCHANGED files
    BY DEF LoseContext, Respawn, Crash, ClearInMemory, files
  <1>2. MemoryInv'
    <2>1. UNCHANGED memory \/ memory' = [memory EXCEPT ![p] = {}]
      BY DEF LoseContext, Respawn, Crash, ClearInMemory
    <2> QED
      BY <2>1, MemoryKept, MemoryEmptied
  <1>3. jobs' \in [Jobs -> {Idle, Done} \cup JobRecords] /\ PtxInv'
    <2>1. CASE UNCHANGED jobs
      BY <2>1 DEF JobTypes, PtxInv, Entry
    <2>2. CASE jobs' = [j \in Jobs |-> IF Running(j) /\ jobs[j].proc = p THEN Done ELSE jobs[j]]
      <3>1. jobs' \in [Jobs -> {Idle, Done} \cup JobRecords]
        BY <2>2 DEF JobTypes
      <3>2. \A j \in Jobs : jobs'[j] = Done \/ jobs'[j] = jobs[j]
        BY <2>2
      <3>3. Done.step \notin {"create", "write", "rename", "unlink", "load"}
        BY DEF Done
      <3>4. PtxInv'
        BY <3>2, <3>3 DEF PtxInv, Entry
      <3> QED
        BY <3>1, <3>4
    <2> QED
      BY <2>1, <2>2 DEF LoseContext, Respawn, Crash, ClearInMemory
  <1>4. gens' \in [Procs -> Nat] /\ actor' \in [Procs -> Nat] /\ ActorInv'
    <2>1. CASE LoseContext(p)
      BY <2>1 DEF LoseContext, JobTypes, ActorInv, Down
    <2>2. CASE Respawn(p)
      BY <2>2 DEF Respawn, JobTypes, ActorInv, Down
    <2>3. CASE Crash(p)
      BY <2>3 DEF Crash, JobTypes, ActorInv, Down
    <2>4. CASE ClearInMemory(p)
      BY <2>4, ActorsKept DEF ClearInMemory, device
    <2> QED
      BY <2>1, <2>2, <2>3, <2>4
  <1> QED
    BY <1>1, <1>2, <1>3, <1>4, FilesKept DEF JobTypes

LEMMA CompilerInduction == CompilerInv /\ [Next]_vars => CompilerInv'
  <1> SUFFICES ASSUME CompilerInv, [Next]_vars PROVE CompilerInv'
    OBVIOUS
  <1>1. ASSUME NEW j \in Jobs, NEW p \in Procs, NEW how \in {"sync", "async", "emit"},
               NEW prog \in Wants[p], StartCompile(j, p, prog, how)
        PROVE  CompilerInv'
    BY <1>1, StartStep
  <1>2. ASSUME NEW j \in Jobs,
               \/ LookInModules(j) \/ Get(j) \/ Compile(j) \/ CreateTmp(j) \/ WriteTmp(j)
               \/ Rename(j) \/ Unlink(j) \/ InsertFails(j) \/ Load(j) \/ Mint(j)
        PROVE  CompilerInv'
    BY <1>2, LookupStep, CompileStep, WriteStep, RenameStep, UnlinkStep, HandleStep
  <1>3. ASSUME NEW p \in Procs,
               \/ Launch(p) \/ LaunchStale(p) \/ LoseContext(p) \/ Respawn(p)
               \/ Crash(p) \/ ClearInMemory(p)
        PROVE  CompilerInv'
    BY <1>3, HandleStep, DeviceStep
  <1>4. CASE UNCHANGED vars
    <2>1. UNCHANGED files /\ UNCHANGED memory /\ UNCHANGED <<gens, actor>> /\ UNCHANGED jobs
      BY <1>4 DEF vars, files
    <2>2. PtxInv' /\ jobs' \in [Jobs -> {Idle, Done} \cup JobRecords]
      BY <2>1 DEF CompilerInv, JobTypes, PtxInv, Entry
    <2> QED
      BY <2>1, <2>2, FilesKept, MemoryKept, ActorsKept DEF CompilerInv, JobTypes
  <1> QED
    BY <1>1, <1>2, <1>3, <1>4 DEF Next

\* No process loads code compiled for another program, other options or another
\* version of the crate, however many processes share the cache directory and
\* whatever they leave in it.
THEOREM LoadsItsOwn == Spec => []LoadedIsOwn
  <1>1. CompilerInv => LoadedIsOwn
    BY DEF CompilerInv, PtxInv, LoadedIsOwn, At
  <1> QED
    BY CompilerInit, CompilerInduction, <1>1, PTL DEF Spec

\* handle_launch's check of the generation refuses every settled handle of a
\* context that has been replaced, after any number of losses.
THEOREM StaleHandlesRefused == Spec => []SettledHandles
  <1>1. CompilerInv => SettledHandles
    BY DEF CompilerInv, ActorInv, SettledHandles, LaunchAccepted, Current
  <1> QED
    BY CompilerInit, CompilerInduction, <1>1, PTL DEF Spec

-----------------------------------------------------------------------------
(* The parameter server. *)

Pulls  == [type : {"PullWeights"}, worker : PsWorkers]
Pushes == [type : {"PushGradient"}, worker : PsWorkers, base : Nat, version : Nat]
Locals == [state : {"idle", "waiting"}] \cup [state : {"has"}, base : Nat, version : Nat]

TrainTypes ==
    /\ psMailbox \in Seq(Pulls \cup Pushes)
    /\ weights \in Seq(Nat)
    /\ local \in [PsWorkers -> Locals]
    /\ told \in [PsWorkers -> {Refused} \cup [version : Nat, base : Nat]]

\* The version counts the gradients the weights have taken in.
VersionInv == version = Len(weights)

\* The version a gradient is pushed with is that of the weights it was computed
\* from, and the server has been there.
BasedOn(r) == r.base = r.version /\ r.version <= version

LocalInv   == \A w \in PsWorkers : local[w].state = "has" => BasedOn(local[w])
MailboxInv == \A i \in 1 .. Len(psMailbox) : psMailbox[i].type = "PushGradient" => BasedOn(psMailbox[i])

\* The inductive invariant of the parameter server.
TrainInv == TrainTypes /\ VersionInv /\ LocalInv /\ MailboxInv /\ StalenessBounded

\* Sending appends to the mailbox, handling takes its head.
LEMMA QueueFacts ==
    ASSUME NEW S, NEW q \in Seq(S)
    PROVE  /\ \A e \in S : /\ Append(q, e) \in Seq(S)
                           /\ Len(Append(q, e)) = Len(q) + 1
                           /\ \A i \in 1 .. Len(q) + 1 :
                                Append(q, e)[i] = IF i = Len(q) + 1 THEN e ELSE q[i]
           /\ q # <<>> => /\ Head(q) \in S /\ Head(q) = q[1] /\ 1 \in 1 .. Len(q)
                          /\ Tail(q) \in Seq(S)
                          /\ \A i \in 1 .. Len(Tail(q)) : Tail(q)[i] = q[i + 1] /\ i + 1 \in 1 .. Len(q)
  OBVIOUS

LEMMA TrainInit == PsInit => TrainInv
  <1> SUFFICES ASSUME PsInit PROVE TrainInv
    OBVIOUS
  <1>1. psMailbox = <<>> /\ weights = <<>> /\ version = 0 /\ local = [w \in PsWorkers |-> [state |-> "idle"]]
        /\ told = [w \in PsWorkers |-> Refused]
    BY DEF PsInit
  <1>2. [state |-> "idle"] \in Locals
    BY DEF Locals
  <1>3. TrainTypes
    BY <1>1, <1>2 DEF TrainTypes
  <1> QED
    BY <1>1, <1>3 DEF TrainInv, VersionInv, LocalInv, MailboxInv, StalenessBounded

\* A worker sends a message.
LEMMA SendStep ==
    ASSUME TrainInv, NEW w \in PsWorkers, SendPull(w) \/ SendPush(w)
    PROVE  TrainInv'
  <1> USE DEF TrainInv
  <1>1. UNCHANGED <<weights, version, told>>
    BY DEF SendPull, SendPush
  <1>2. CASE SendPull(w)
    <2> DEFINE m == Pull(w)
    <2>1. m \in Pulls \cup Pushes /\ m.type # "PushGradient"
      BY DEF Pull, Pulls
    <2>2. psMailbox' = Append(psMailbox, m) /\ local' = [local EXCEPT ![w] = [state |-> "waiting"]]
      BY <1>2 DEF SendPull
    <2>3. [state |-> "waiting"] \in Locals
      BY DEF Locals
    <2> HIDE DEF m
    <2>4. TrainTypes'
      BY <1>1, <2>1, <2>2, <2>3, QueueFacts DEF TrainTypes
    <2>5. LocalInv'
      BY <1>1, <2>2 DEF LocalInv, TrainTypes, BasedOn
    <2>6. MailboxInv'
      BY <1>1, <2>1, <2>2, QueueFacts DEF MailboxInv, TrainTypes, BasedOn
    <2> QED
      BY <1>1, <2>4, <2>5, <2>6 DEF VersionInv, StalenessBounded
  <1>3. CASE SendPush(w)
    <2> DEFINE m == Push(w, local[w].base, local[w].version)
    <2>1. local[w].state = "has" /\ local[w].base \in Nat /\ local[w].version \in Nat
      BY <1>3 DEF SendPush, TrainTypes, Locals
    <2>2. m \in Pulls \cup Pushes /\ m.base = local[w].base /\ m.version = local[w].version
      BY <2>1 DEF Push, Pushes
    <2>3. psMailbox' = Append(psMailbox, m) /\ local' = local
      BY <1>3 DEF SendPush
    <2> HIDE DEF m
    <2>4. TrainTypes'
      BY <1>1, <2>2, <2>3, QueueFacts DEF TrainTypes
    <2>5. LocalInv'
      BY <1>1, <2>3 DEF LocalInv, BasedOn
    <2>6. BasedOn(m)
      BY <2>1, <2>2 DEF LocalInv, BasedOn
    <2>7. MailboxInv'
      <3>1. PICK k \in Nat : k = Len(psMailbox)
        BY DEF TrainTypes
      <3>2. Len(psMailbox') = k + 1 /\ \A i \in 1 .. k + 1 : psMailbox'[i] = IF i = k + 1 THEN m ELSE psMailbox[i]
        BY <2>2, <2>3, <3>1, QueueFacts DEF TrainTypes
      <3>3. ASSUME NEW i \in 1 .. k + 1, psMailbox'[i].type = "PushGradient" PROVE BasedOn(psMailbox[i])'
        <4>1. PICK old : old = psMailbox[i]
          OBVIOUS
        <4>2. PICK now : now = psMailbox'[i]
          OBVIOUS
        <4>3. BasedOn(now)
          <5>1. CASE i = k + 1
            BY <5>1, <4>2, <3>2, <2>6
          <5>2. CASE i # k + 1
            <6>1. i \in 1 .. Len(psMailbox) /\ now = old
              BY <5>2, <4>1, <4>2, <3>1, <3>2
            <6> QED
              BY <6>1, <4>1, <4>2, <3>3 DEF MailboxInv
          <5> QED
            BY <5>1, <5>2
        <4> QED
          BY <4>2, <4>3, <1>1 DEF BasedOn
      <3> QED
        BY <3>2, <3>3 DEF MailboxInv
    <2> QED
      BY <1>1, <2>4, <2>5, <2>7 DEF VersionInv, StalenessBounded
  <1> QED
    BY <1>2, <1>3

\* The server answers a pull with the weights and the version of the moment.
LEMMA PullStep ==
    ASSUME TrainInv, HandlePull
    PROVE  TrainInv'
  <1> USE DEF TrainInv
  <1> DEFINE w == Head(psMailbox).worker
             h == [state |-> "has", base |-> Len(weights), version |-> version]
  <1>1. /\ psMailbox # <<>> /\ psMailbox' = Tail(psMailbox)
        /\ local' = [local EXCEPT ![w] = h]
    BY DEF HandlePull
  <1>2. UNCHANGED <<weights, version, told>>
    BY DEF HandlePull
  <1>3. Len(weights) \in Nat /\ version \in Nat /\ h \in Locals /\ BasedOn(h)
    BY DEF TrainTypes, VersionInv, Locals, BasedOn
  <1>4. TrainTypes'
    BY <1>1, <1>2, <1>3, QueueFacts DEF TrainTypes
  <1>5. LocalInv'
    <2> HIDE DEF h, w
    <2> QED
      BY <1>1, <1>2, <1>3 DEF LocalInv, TrainTypes, BasedOn
  <1>6. MailboxInv'
    BY <1>1, <1>2, QueueFacts DEF MailboxInv, TrainTypes, BasedOn
  <1> QED
    BY <1>2, <1>4, <1>5, <1>6 DEF VersionInv, StalenessBounded

\* The server applies a gradient, or drops one that is too stale.
LEMMA PushStep ==
    ASSUME TrainInv, HandlePush
    PROVE  TrainInv'
  <1> USE DEF TrainInv
  <1> DEFINE m == Head(psMailbox)
  <1>1. psMailbox # <<>> /\ m.type = "PushGradient" /\ psMailbox' = Tail(psMailbox) /\ local' = local
    BY DEF HandlePush
  <1>2. m \in Pushes /\ BasedOn(m) /\ m.base \in Nat /\ m.version \in Nat
    <2>1. m \in Pulls \cup Pushes /\ m = psMailbox[1] /\ 1 \in 1 .. Len(psMailbox)
      BY <1>1, QueueFacts DEF TrainTypes
    <2>2. m \in Pushes /\ BasedOn(m)
      BY <1>1, <2>1 DEF Pulls, MailboxInv
    <2> QED
      BY <2>2 DEF Pushes
  <1>3. version \in Nat /\ version = Len(weights)
    BY DEF VersionInv, TrainTypes
  <1>w. m.worker \in PsWorkers
    BY <1>2 DEF Pushes
  <1>4. CASE UNCHANGED <<weights, version>> /\ told' = [told EXCEPT ![m.worker] = Refused]
    <2>0. PICK w \in PsWorkers : told' = [told EXCEPT ![w] = Refused]
      BY <1>4, <1>w
    <2>1. TrainTypes'
      BY <1>1, <1>4, <2>0, QueueFacts DEF TrainTypes
    <2>2. LocalInv'
      BY <1>1, <1>4 DEF LocalInv, BasedOn
    <2>3. MailboxInv'
      BY <1>1, <1>4, QueueFacts DEF MailboxInv, TrainTypes, BasedOn
    <2>4. \A v \in PsWorkers : told'[v] # Refused => told'[v] = told[v]
      BY <2>0 DEF TrainTypes
    <2>5. weights' = weights
      BY <1>4
    <2>6. StalenessBounded'
      BY <2>4, <2>5 DEF StalenessBounded
    <2> QED
      BY <1>4, <2>1, <2>2, <2>3, <2>6 DEF VersionInv
  <1>5. CASE /\ ApplyGradient(m.base) /\ ~(Staleness(m.version) > MaxStaleness)
             /\ told' = [told EXCEPT ![m.worker] = [version |-> version', base |-> m.base]]
    <2>1. weights' = Append(weights, m.base) /\ version' = version + 1
      BY <1>5 DEF ApplyGradient
    <2>2. version - m.base <= MaxStaleness
      BY <1>2, <1>3, <1>5, ParamServerAssumption DEF Staleness, BasedOn
    <2>a. PICK w \in PsWorkers, own \in [version : Nat, base : Nat] :
              /\ told' = [told EXCEPT ![w] = own]
              /\ own.version = version + 1 /\ own.base = m.base
      <3>1. version' = version + 1 /\ version + 1 \in Nat
        BY <1>3, <2>1
      <3>2. PICK own : own = [version |-> version + 1, base |-> m.base]
        OBVIOUS
      <3>3. own \in [version : Nat, base : Nat] /\ own.version = version + 1 /\ own.base = m.base
        BY <1>2, <3>1, <3>2
      <3>4. told' = [told EXCEPT ![m.worker] = own]
        BY <1>5, <3>1, <3>2
      <3> QED
        BY <1>w, <3>3, <3>4
    <2> HIDE DEF m
    <2>3. TrainTypes'
      BY <1>1, <1>2, <2>1, <2>a, QueueFacts DEF TrainTypes
    <2>4. VersionInv'
      BY <1>2, <1>3, <2>1, QueueFacts DEF TrainTypes, VersionInv
    <2>5. LocalInv'
      <3>1. \A u \in PsWorkers : local[u].state = "has" => local[u].version \in Nat
        BY DEF TrainTypes, Locals
      <3> QED
        BY <1>1, <1>3, <2>1, <3>1 DEF LocalInv, BasedOn
    <2>6. MailboxInv'
      <3>1. \A i \in 1 .. Len(psMailbox) : psMailbox[i].type = "PushGradient" => psMailbox[i].version \in Nat
        BY DEF TrainTypes, Pulls, Pushes
      <3>2. \A i \in 1 .. Len(psMailbox') : psMailbox'[i] = psMailbox[i + 1] /\ i + 1 \in 1 .. Len(psMailbox)
        BY <1>1, QueueFacts DEF TrainTypes
      <3> QED
        BY <1>3, <2>1, <3>1, <3>2 DEF MailboxInv, BasedOn
    <2>7. StalenessBounded'
      <3>1. DOMAIN weights' = 1 .. Len(weights) + 1 /\ DOMAIN weights = 1 .. Len(weights)
        BY <1>2, <2>1 DEF TrainTypes
      <3>2. \A i \in 1 .. Len(weights) + 1 : weights'[i] = IF i = Len(weights) + 1 THEN m.base ELSE weights[i]
        BY <1>2, <2>1, QueueFacts DEF TrainTypes
      <3>3. (Len(weights) + 1) - 1 = version
        BY <1>3
      <3>4. \A i \in DOMAIN weights' : (i - 1) - weights'[i] <= MaxStaleness
        BY <1>3, <2>2, <3>1, <3>2, <3>3 DEF StalenessBounded
      <3>5. ASSUME NEW v \in PsWorkers, told'[v] # Refused
            PROVE  told'[v].version \in DOMAIN weights' /\ weights'[told'[v].version] = told'[v].base
        <4>1. CASE v = w
          <5>1. told'[v] = own /\ own.version = Len(weights) + 1 /\ Len(weights) \in Nat
            BY <1>3, <2>a, <4>1 DEF TrainTypes
          <5> QED
            BY <2>a, <3>1, <3>2, <5>1
        <4>2. CASE v # w
          <5>1. told'[v] = told[v]
            BY <2>a, <4>2 DEF TrainTypes
          <5>2. told[v].version \in 1 .. Len(weights) /\ weights[told[v].version] = told[v].base
            BY <3>1, <3>5, <5>1 DEF StalenessBounded
          <5>3. Len(weights) \in Nat
            BY <1>3
          <5> QED
            BY <3>1, <3>2, <5>1, <5>2, <5>3
        <4> QED
          BY <4>1, <4>2
      <3> QED
        BY <3>4, <3>5 DEF StalenessBounded
    <2> QED
      BY <2>3, <2>4, <2>5, <2>6, <2>7
  <1> QED
    BY <1>4, <1>5 DEF HandlePush

LEMMA TrainInduction == TrainInv /\ [PsNext]_psVars => TrainInv'
  <1> SUFFICES ASSUME TrainInv, [PsNext]_psVars PROVE TrainInv'
    OBVIOUS
  <1>1. CASE PsNext
    BY <1>1, SendStep, PullStep, PushStep DEF PsNext
  <1>2. CASE UNCHANGED psVars
    BY <1>2 DEF psVars, TrainInv, TrainTypes, VersionInv, LocalInv, MailboxInv, BasedOn,
                StalenessBounded
  <1> QED
    BY <1>1, <1>2

\* AsyncParameterServer's check of the pushed version bounds what a gradient
\* has missed, and its answer names the gradient's place, for any number of
\* workers and any max_staleness.
THEOREM GradientsFresh == PsSpec => []StalenessBounded
  <1>1. TrainInv => StalenessBounded
    BY DEF TrainInv
  <1> QED
    BY TrainInit, TrainInduction, <1>1, PTL DEF PsSpec

-----------------------------------------------------------------------------
(* The plan caches. *)

\* Both libraries' plans, and what a plan under construction or a launch is.
Builds == [rung : Nat \ {0}, plan : Nat, req : PlanRequests, slot : Slots]
Launches == [plan : Nat \ {0}, req : PlanRequests]

PlanTypes ==
    /\ cache \in [Actors -> Seq(Nat)]
    /\ building \in [Actors -> {NoBuild} \cup Builds]
    /\ made \in Seq(PlanRequests)
    /\ uses \in [Slots -> {NoUse} \cup Launches]

\* A plan is in the cache of its own actor, once.
CachedInv ==
    \A a \in Actors : \A i \in 1 .. Len(cache[a]) :
        /\ cache[a][i] \in 1 .. Len(made)
        /\ ActorOf(made[cache[a][i]]) = a
        /\ \A j \in 1 .. Len(cache[a]) : cache[a][i] = cache[a][j] => i = j

\* A plan under construction is nobody's yet and has the rungs made so far; the
\* slot of its launch is kept for it.
BuildInv ==
    \A a \in Actors : building[a] # NoBuild =>
        LET b == building[a] IN
        /\ b.plan \in 1 .. Len(made) /\ made[b.plan] = b.req /\ ActorOf(b.req) = a
        /\ b.rung <= Len(Ladder(b.req.op)) + 1
        /\ ~Cached(b.plan) /\ ~Used(b.plan)
        /\ \A k : <<b.plan, k>> \in objects <=> k \in Undo(b.req.op, b.rung) \ {"ws"}
        /\ uses[b.slot] = NoUse
        /\ \A d \in Actors : building[d] # NoBuild /\ building[d].slot = b.slot => d = a

\* What exists belongs to a plan somebody holds, and is one of its rungs.
ObjectsInv ==
    \A o \in objects :
        /\ o = <<o[1], o[2]>> /\ o[1] \in 1 .. Len(made)
        /\ o[2] \in Owned(made[o[1]].op) \ {"ws"}
        /\ Cached(o[1]) \/ Used(o[1]) \/ InConstruction(o[1])

\* A finished plan that somebody holds has all its objects.
HeldInv ==
    \A p \in 1 .. Len(made) : Cached(p) \/ Used(p) => Objects(p, Owned(made[p].op)) \subseteq objects

\* A launch has a plan for its key.
UsesInv ==
    \A s \in Slots : uses[s] # NoUse =>
        /\ uses[s].plan \in 1 .. Len(made)
        /\ Key(made[uses[s].plan]) = Key(uses[s].req)

PlanInv == PlanTypes /\ CachedInv /\ BuildInv /\ ObjectsInv /\ HeldInv /\ UsesInv

\* The rungs of a ladder, and what has been made before a rung.
LEMMA LadderFacts ==
    ASSUME NEW op
    PROVE  /\ Len(Ladder(op)) \in Nat \ {0}
           /\ Owned(op) = {Ladder(op)[j] : j \in 1 .. Len(Ladder(op))}
           /\ Undo(op, 1) = {}
           /\ Undo(op, Len(Ladder(op)) + 1) = Owned(op)
           /\ \A i \in 1 .. Len(Ladder(op)) : Undo(op, i + 1) = Undo(op, i) \cup {Ladder(op)[i]}
           /\ \A i \in 1 .. Len(Ladder(op)) + 1 : Undo(op, i) \subseteq Owned(op)
<1>1. PICK n \in {1, 6, 7, 8} : Len(Ladder(op)) = n /\ DOMAIN Ladder(op) = 1 .. n
  BY DEF Ladder, ContractLadder, BinaryLadder, TrinaryLadder, PermutationLadder, ReductionLadder, FftLadder
<1> DEFINE L == Ladder(op)
<1>2. Owned(op) = {L[j] : j \in 1 .. n}
  BY <1>1 DEF Owned, Range
<1>3. \A i : Undo(op, i) = {L[j] : j \in 1 .. i - 1}
  BY DEF Undo
<1> HIDE DEF L
<1>4. Undo(op, 1) = {}
  BY <1>3
<1>5. Undo(op, n + 1) = Owned(op)
  <2>1. (n + 1) - 1 = n
    OBVIOUS
  <2> QED
    BY <1>2, <1>3, <2>1
<1>6. ASSUME NEW i \in 1 .. n PROVE Undo(op, i + 1) = Undo(op, i) \cup {L[i]}
  <2>1. 1 .. (i + 1) - 1 = (1 .. i - 1) \cup {i}
    OBVIOUS
  <2> QED
    BY <1>3, <2>1
<1>7. ASSUME NEW i \in 1 .. n + 1 PROVE Undo(op, i) \subseteq Owned(op)
  <2>1. 1 .. i - 1 \subseteq 1 .. n
    OBVIOUS
  <2> QED
    BY <1>2, <1>3, <2>1
<1> QED
  BY <1>1, <1>2, <1>4, <1>5, <1>6, <1>7 DEF L

\* A plan is cached when it is at some place.
LEMMA CachedPlaces ==
    ASSUME NEW f \in [Actors -> Seq(Nat)], NEW p
    PROVE  (\E a \in Actors : p \in Range(f[a])) <=> \E a \in Actors : \E i \in 1 .. Len(f[a]) : f[a][i] = p
<1>1. ASSUME NEW a \in Actors PROVE DOMAIN f[a] = 1 .. Len(f[a])
  OBVIOUS
<1> QED
  BY <1>1 DEF Range

\* Two sequences with the same elements, as often.
Permuted(p, q) ==
    /\ Len(q) = Len(p)
    /\ \A i \in 1 .. Len(q) : \E j \in 1 .. Len(p) : q[i] = p[j]
    /\ \A j \in 1 .. Len(p) : \E i \in 1 .. Len(q) : q[i] = p[j]
    /\ (\A i, j \in 1 .. Len(p) : p[i] = p[j] => i = j) => \A i, j \in 1 .. Len(q) : q[i] = q[j] => i = j

LEMMA MoveToFrontFacts ==
    ASSUME NEW plans \in Seq(Nat), NEW k \in 1 .. Len(plans)
    PROVE  MoveToFront(plans, k) \in Seq(Nat) /\ Permuted(plans, MoveToFront(plans, k))
<1> DEFINE q == MoveToFront(plans, k)
<1> DEFINE n == Len(plans)
<1>1. n \in Nat /\ \A i \in 1 .. n : plans[i] \in Nat
  OBVIOUS
<1> HIDE DEF n
<1>2. q = [i \in 1 .. n |-> IF i = 1 THEN plans[k] ELSE IF i <= k THEN plans[i - 1] ELSE plans[i]]
  BY DEF MoveToFront, n
<1> HIDE DEF q
<1>3. k \in 1 .. n
  BY DEF n
<1>4. \A i \in 1 .. n : q[i] \in Nat
  BY <1>1, <1>2, <1>3
<1>5. q \in Seq(Nat) /\ Len(q) = n
  BY <1>1, <1>2, <1>4
<1>6. ASSUME NEW i \in 1 .. n PROVE \E j \in 1 .. n : q[i] = plans[j]
  BY <1>1, <1>2, <1>3
<1>7. ASSUME NEW j \in 1 .. n PROVE \E i \in 1 .. n : q[i] = plans[j]
  <2>1. CASE j = k
    BY <1>1, <1>2, <1>3, <2>1
  <2>2. CASE j > k
    BY <1>1, <1>2, <1>3, <2>2
  <2>3. CASE j < k
    <3>1. j + 1 \in 1 .. n /\ j + 1 # 1 /\ j + 1 <= k /\ (j + 1) - 1 = j
      BY <1>1, <1>3, <2>3
    <3>2. q[j + 1] = plans[j]
      BY <1>2, <3>1
    <3> QED
      BY <3>1, <3>2
  <2> QED
    BY <1>1, <1>3, <2>1, <2>2, <2>3
<1>8. ASSUME \A i, j \in 1 .. n : plans[i] = plans[j] => i = j,
             NEW i \in 1 .. n, NEW j \in 1 .. n, q[i] = q[j]
      PROVE  i = j
  <2> DEFINE From(x) == IF x = 1 THEN k ELSE IF x <= k THEN x - 1 ELSE x
  <2>1. \A x \in 1 .. n : From(x) \in 1 .. n /\ q[x] = plans[From(x)]
    BY <1>1, <1>2, <1>3
  <2> HIDE DEF From
  <2>2. From(i) = From(j)
    BY <1>8, <2>1
  <2> QED
    BY <1>1, <1>3, <2>2 DEF From
<1>9. Permuted(plans, q)
  BY <1>5, <1>6, <1>7, <1>8 DEF n, Permuted
<1> QED
  BY <1>5, <1>9 DEF q

\* A build has a rung; the slot it will use is not free.
LEMMA BuildFacts ==
    ASSUME PlanTypes, NEW a \in Actors, building[a] # NoBuild
    PROVE  /\ building[a] \in Builds /\ building[a].rung \in Nat \ {0} /\ building[a].plan \in Nat
           /\ building[a].req \in PlanRequests /\ building[a].slot \in Slots
           /\ building[a].rung > 0
           /\ \A s \in Slots : Free(s) => building[a].slot # s
<1>1. /\ building[a] \in Builds /\ building[a].rung \in Nat \ {0} /\ building[a].plan \in Nat
      /\ building[a].req \in PlanRequests /\ building[a].slot \in Slots
  BY DEF PlanTypes, Builds
<1>2. building[a].rung > 0
  BY <1>1
<1> QED
  BY <1>1, <1>2 DEF Free, Reserved

\* Only what is under construction has a rung.
LEMMA Constructing ==
    ASSUME PlanTypes, NEW p
    PROVE  InConstruction(p) <=> \E a \in Actors : building[a] # NoBuild /\ building[a].plan = p
<1>1. ASSUME NEW a \in Actors PROVE building[a].rung > 0 <=> building[a] # NoBuild
  <2>1. CASE building[a] = NoBuild
    BY <2>1 DEF NoBuild
  <2>2. CASE building[a] # NoBuild
    BY <2>2, BuildFacts
  <2> QED
    BY <2>1, <2>2
<1> QED
  BY <1>1 DEF InConstruction

\* What is cached or used was built.
LEMMA KnownPlans ==
    ASSUME PlanTypes, CachedInv, UsesInv, NEW p
    PROVE  /\ Cached(p) => p \in 1 .. Len(made)
           /\ p # 0 /\ Used(p) => p \in 1 .. Len(made)
<1>1. ASSUME Cached(p) PROVE p \in 1 .. Len(made)
  <2>1. cache \in [Actors -> Seq(Nat)]
    BY DEF PlanTypes
  <2>2. PICK a \in Actors : \E i \in 1 .. Len(cache[a]) : cache[a][i] = p
    BY <1>1, <2>1, CachedPlaces DEF Cached
  <2> QED
    BY <2>2 DEF CachedInv
<1>2. ASSUME p # 0, Used(p) PROVE p \in 1 .. Len(made)
  <2>1. PICK t \in Slots : uses[t].plan = p
    BY <1>2 DEF Used
  <2>2. uses[t] # NoUse
    BY <1>2, <2>1 DEF NoUse
  <2> QED
    BY <2>1, <2>2 DEF UsesInv
<1> QED
  BY <1>1, <1>2

LEMMA HitStep ==
    ASSUME PlanInv, NEW r \in PlanRequests, NEW s \in Slots, Hit(r, s)
    PROVE  PlanInv'
<1> DEFINE a == ActorOf(r)
<1>0. PlanTypes /\ CachedInv /\ BuildInv /\ ObjectsInv /\ HeldInv /\ UsesInv
  BY DEF PlanInv
<1>1. a \in Actors
  BY DEF ActorOf, Actors
<1>2. PICK k \in Hits(r) :
        /\ cache' = [cache EXCEPT ![a] = MoveToFront(cache[a], k)]
        /\ uses' = [uses EXCEPT ![s] = [plan |-> cache[a][k], req |-> r]]
  BY DEF Hit
<1>3. Free(s) /\ building' = building /\ made' = made /\ objects' = objects
  BY DEF Hit
<1>4. PICK p : p = cache[a][k]
  OBVIOUS
<1>5. PICK q : q = MoveToFront(cache[a], k)
  OBVIOUS
<1>6. k \in 1 .. Len(cache[a]) /\ Key(made[p]) = Key(r)
  BY <1>2, <1>4 DEF Hits
<1> HIDE DEF a
<1>7. cache[a] \in Seq(Nat) /\ p \in 1 .. Len(made) /\ p \in Nat \ {0}
  BY <1>0, <1>1, <1>4, <1>6 DEF PlanTypes, CachedInv
<1>8. q \in Seq(Nat) /\ Permuted(cache[a], q)
  BY <1>5, <1>6, <1>7, MoveToFrontFacts
<1>9. cache'[a] = q /\ \A d \in Actors : d # a => cache'[d] = cache[d]
  BY <1>0, <1>1, <1>2, <1>5 DEF PlanTypes
<1>10. cache' \in [Actors -> Seq(Nat)]
  BY <1>0, <1>1, <1>2, <1>5, <1>8 DEF PlanTypes
<1>11. uses' = [uses EXCEPT ![s] = [plan |-> p, req |-> r]]
  BY <1>2, <1>4
<1>12. uses' \in [Slots -> {NoUse} \cup Launches]
  BY <1>0, <1>7, <1>11 DEF PlanTypes, Launches
<1>13. PlanTypes'
  BY <1>0, <1>3, <1>10, <1>12 DEF PlanTypes
<1>14. ASSUME NEW x PROVE Cached(x)' <=> Cached(x)
  <2>1. Cached(x)' <=> \E d \in Actors : \E i \in 1 .. Len(cache'[d]) : cache'[d][i] = x
    BY <1>10, CachedPlaces DEF Cached
  <2>2. Cached(x) <=> \E d \in Actors : \E i \in 1 .. Len(cache[d]) : cache[d][i] = x
    BY <1>0, CachedPlaces DEF Cached, PlanTypes
  <2>3. ASSUME NEW d \in Actors, NEW i \in 1 .. Len(cache'[d]), cache'[d][i] = x
        PROVE  \E j \in 1 .. Len(cache[d]) : cache[d][j] = x
    <3>1. CASE d # a
      BY <2>3, <3>1, <1>9
    <3>2. CASE d = a
      BY <2>3, <3>2, <1>8, <1>9 DEF Permuted
    <3> QED
      BY <3>1, <3>2
  <2>4. ASSUME NEW d \in Actors, NEW j \in 1 .. Len(cache[d]), cache[d][j] = x
        PROVE  \E i \in 1 .. Len(cache'[d]) : cache'[d][i] = x
    <3>1. CASE d # a
      BY <2>4, <3>1, <1>9
    <3>2. CASE d = a
      BY <2>4, <3>2, <1>8, <1>9 DEF Permuted
    <3> QED
      BY <3>1, <3>2
  <2> QED
    BY <2>1, <2>2, <2>3, <2>4
<1>15. uses[s] = NoUse /\ uses'[s] = [plan |-> p, req |-> r]
       /\ \A t \in Slots : t # s => uses'[t] = uses[t]
  BY <1>0, <1>3, <1>11 DEF PlanTypes, Free
<1>16. Cached(p)
  BY <1>0, <1>1, <1>4, <1>6, CachedPlaces DEF Cached, PlanTypes
<1>17. ASSUME NEW x \in Nat \ {0} PROVE Used(x)' <=> Used(x) \/ x = p
  <2>1. uses[s].plan = 0 /\ uses'[s].plan = p
    BY <1>15 DEF NoUse
  <2> QED
    BY <2>1, <1>15 DEF Used
<1>18. CachedInv'
  <2> SUFFICES ASSUME NEW d \in Actors, NEW i \in 1 .. Len(cache'[d])
               PROVE  /\ cache'[d][i] \in 1 .. Len(made) /\ ActorOf(made[cache'[d][i]]) = d
                      /\ \A j \in 1 .. Len(cache'[d]) : cache'[d][i] = cache'[d][j] => i = j
    BY <1>3 DEF CachedInv
  <2>1. CASE d # a
    BY <2>1, <1>0, <1>9 DEF CachedInv
  <2>2. CASE d = a
    <3>1. PICK j \in 1 .. Len(cache[a]) : q[i] = cache[a][j]
      BY <2>2, <1>8, <1>9 DEF Permuted
    <3>2. cache[a][j] \in 1 .. Len(made) /\ ActorOf(made[cache[a][j]]) = a
      BY <3>1, <1>0, <1>1 DEF CachedInv
    <3>3. \A x, y \in 1 .. Len(cache[a]) : cache[a][x] = cache[a][y] => x = y
      BY <1>0, <1>1 DEF CachedInv
    <3>4. \A x, y \in 1 .. Len(q) : q[x] = q[y] => x = y
      BY <3>3, <1>8 DEF Permuted
    <3> QED
      BY <2>2, <3>1, <3>2, <3>4, <1>9
  <2> QED
    BY <2>1, <2>2
<1>19. BuildInv'
  <2> SUFFICES ASSUME NEW d \in Actors, building[d] # NoBuild
               PROVE  ~Cached(building[d].plan)' /\ ~Used(building[d].plan)' /\ uses'[building[d].slot] = NoUse
    BY <1>0, <1>3 DEF BuildInv
  <2>1. /\ building[d].plan \in Nat \ {0} /\ building[d].slot \in Slots /\ building[d].slot # s
    BY <1>0, <1>3, BuildFacts DEF BuildInv
  <2>2. ~Cached(building[d].plan) /\ ~Used(building[d].plan) /\ uses[building[d].slot] = NoUse
    BY <1>0 DEF BuildInv
  <2>3. building[d].plan # p
    BY <2>2, <1>16
  <2> QED
    BY <2>1, <2>2, <2>3, <1>3, <1>14, <1>15, <1>17
<1>20. ObjectsInv'
  <2> SUFFICES ASSUME NEW o \in objects
               PROVE  Cached(o[1])' \/ Used(o[1])' \/ InConstruction(o[1])'
    BY <1>0, <1>3 DEF ObjectsInv
  <2>1. o[1] \in Nat \ {0} /\ (Cached(o[1]) \/ Used(o[1]) \/ InConstruction(o[1]))
    BY <1>0 DEF ObjectsInv
  <2>2. InConstruction(o[1]) => InConstruction(o[1])'
    BY <1>3 DEF InConstruction
  <2> QED
    BY <2>1, <2>2, <1>14, <1>17
<1>21. HeldInv'
  <2> SUFFICES ASSUME NEW x \in 1 .. Len(made), Cached(x)' \/ Used(x)'
               PROVE  Objects(x, Owned(made[x].op)) \subseteq objects
    BY <1>3 DEF HeldInv
  <2>1. Cached(x) \/ Used(x)
    BY <1>14, <1>16, <1>17
  <2> QED
    BY <2>1, <1>0 DEF HeldInv
<1>22. UsesInv'
  <2> SUFFICES ASSUME NEW t \in Slots, uses'[t] # NoUse
               PROVE  uses'[t].plan \in 1 .. Len(made) /\ Key(made[uses'[t].plan]) = Key(uses'[t].req)
    BY <1>3 DEF UsesInv
  <2>1. CASE t = s
    BY <2>1, <1>6, <1>7, <1>15
  <2>2. CASE t # s
    BY <2>2, <1>0, <1>15 DEF UsesInv
  <2> QED
    BY <2>1, <2>2
<1> QED
  BY <1>13, <1>18, <1>19, <1>20, <1>21, <1>22 DEF PlanInv

LEMMA MissStep ==
    ASSUME PlanInv, NEW r \in PlanRequests, NEW s \in Slots, Miss(r, s)
    PROVE  PlanInv'
<1> DEFINE a == ActorOf(r)
<1> DEFINE n == Len(made) + 1
<1> DEFINE new == [rung |-> 1, plan |-> n, req |-> r, slot |-> s]
<1>0. PlanTypes /\ CachedInv /\ BuildInv /\ ObjectsInv /\ HeldInv /\ UsesInv
  BY DEF PlanInv
<1>1. a \in Actors /\ building[a] = NoBuild /\ Free(s) /\ uses[s] = NoUse
  BY DEF ActorOf, Actors, Miss, Free
<1>2. /\ made' = Append(made, r) /\ building' = [building EXCEPT ![a] = new]
      /\ cache' = cache /\ objects' = objects /\ uses' = uses
  BY DEF Miss
<1>3. /\ made \in Seq(PlanRequests) /\ Len(made) \in Nat /\ n \in Nat \ {0} /\ n \notin 1 .. Len(made)
      /\ 1 .. n = 1 .. Len(made) \cup {n}
  BY <1>0 DEF PlanTypes
<1>4. /\ made' \in Seq(PlanRequests) /\ Len(made') = n /\ made'[n] = r
      /\ \A x \in 1 .. Len(made) : made'[x] = made[x]
  BY <1>2, <1>3
<1>5. /\ new \in Builds /\ new # NoBuild /\ new.rung = 1 /\ new.plan = n /\ new.req = r /\ new.slot = s
  <2>1. new.rung # NoBuild.rung
    BY DEF NoBuild
  <2> QED
    BY <1>3, <2>1 DEF Builds
<1> HIDE DEF n, new
<1>a. a = ActorOf(r)
  OBVIOUS
<1> HIDE DEF a
<1>6. /\ building' \in [Actors -> {NoBuild} \cup Builds]
      /\ building'[a] = new /\ \A d \in Actors : d # a => building'[d] = building[d]
  BY <1>0, <1>1, <1>2, <1>5 DEF PlanTypes
<1>7. PlanTypes'
  BY <1>0, <1>2, <1>4, <1>6 DEF PlanTypes
<1>8. \A x : (Cached(x)' <=> Cached(x)) /\ (Used(x)' <=> Used(x))
  BY <1>2 DEF Cached, Used
<1>9. ~Cached(n) /\ ~Used(n) /\ \A o \in objects : o[1] # n
  BY <1>0, <1>3, KnownPlans DEF ObjectsInv
<1>10. CachedInv'
  BY <1>0, <1>2, <1>3, <1>4 DEF CachedInv
<1>11. BuildInv'
  <2> SUFFICES ASSUME NEW d \in Actors, building'[d] # NoBuild, NEW b, b = building'[d]
               PROVE  /\ b.plan \in 1 .. n /\ made'[b.plan] = b.req /\ ActorOf(b.req) = d
                      /\ b.rung <= Len(Ladder(b.req.op)) + 1
                      /\ ~Cached(b.plan) /\ ~Used(b.plan)
                      /\ \A k : <<b.plan, k>> \in objects <=> k \in Undo(b.req.op, b.rung) \ {"ws"}
                      /\ uses[b.slot] = NoUse
                      /\ \A e \in Actors : building'[e] # NoBuild /\ building'[e].slot = b.slot => e = d
    BY <1>2, <1>4, <1>8 DEF BuildInv
  <2>1. CASE d = a
    <3>1. b = new
      BY <2>1, <1>6
    <3>2. Len(Ladder(r.op)) \in Nat /\ Undo(r.op, 1) = {}
      BY LadderFacts
    <3>3. \A k : <<n, k>> \notin objects
      BY <1>9
    <3>4. \A e \in Actors : building'[e] # NoBuild /\ building'[e].slot = s => e = a
      BY <1>0, <1>1, <1>6, BuildFacts
    <3>5. 1 <= Len(Ladder(r.op)) + 1 /\ n \in 1 .. n
      BY <3>2, <1>3
    <3> QED
      BY <2>1, <3>1, <3>2, <3>3, <3>4, <3>5, <1>1, <1>3, <1>4, <1>5, <1>9, <1>a
  <2>2. CASE d # a
    <3>1. b = building[d] /\ building[d] # NoBuild
      BY <2>2, <1>6
    <3>2. b.slot # s
      BY <3>1, <1>0, <1>1, BuildFacts
    <3>3. /\ b.plan \in 1 .. Len(made) /\ made[b.plan] = b.req /\ ActorOf(b.req) = d
          /\ b.rung <= Len(Ladder(b.req.op)) + 1
          /\ ~Cached(b.plan) /\ ~Used(b.plan)
          /\ \A k : <<b.plan, k>> \in objects <=> k \in Undo(b.req.op, b.rung) \ {"ws"}
          /\ uses[b.slot] = NoUse
          /\ \A e \in Actors : building[e] # NoBuild /\ building[e].slot = b.slot => e = d
      BY <3>1, <1>0 DEF BuildInv
    <3>4. \A e \in Actors : building'[e] # NoBuild /\ building'[e].slot = b.slot => e = d
      BY <3>2, <3>3, <1>5, <1>6
    <3>5. b.plan \in 1 .. n /\ made'[b.plan] = b.req
      BY <3>3, <1>3, <1>4
    <3> QED
      BY <3>3, <3>4, <3>5
  <2> QED
    BY <2>1, <2>2
<1>12. ObjectsInv'
  <2> SUFFICES ASSUME NEW o \in objects
               PROVE  /\ o = <<o[1], o[2]>> /\ o[1] \in 1 .. n
                      /\ o[2] \in Owned(made'[o[1]].op) \ {"ws"}
                      /\ Cached(o[1]) \/ Used(o[1]) \/ InConstruction(o[1])'
    BY <1>2, <1>4, <1>8 DEF ObjectsInv
  <2>1. /\ o = <<o[1], o[2]>> /\ o[1] \in 1 .. Len(made)
        /\ o[2] \in Owned(made[o[1]].op) \ {"ws"}
        /\ Cached(o[1]) \/ Used(o[1]) \/ InConstruction(o[1])
    BY <1>0 DEF ObjectsInv
  <2>2. InConstruction(o[1]) => InConstruction(o[1])'
    <3> SUFFICES ASSUME InConstruction(o[1]) PROVE InConstruction(o[1])'
      OBVIOUS
    <3>1. PICK d \in Actors : building[d].rung > 0 /\ building[d].plan = o[1]
      BY DEF InConstruction
    <3>2. d # a
      BY <3>1, <1>1 DEF NoBuild
    <3> QED
      BY <3>1, <3>2, <1>2, <1>6 DEF InConstruction
  <2> QED
    BY <2>1, <2>2, <1>3, <1>4
<1>13. HeldInv'
  <2> SUFFICES ASSUME NEW x \in 1 .. n, Cached(x) \/ Used(x)
               PROVE  Objects(x, Owned(made'[x].op)) \subseteq objects
    BY <1>2, <1>4, <1>8 DEF HeldInv
  <2>1. x \in 1 .. Len(made) /\ made'[x] = made[x]
    BY <1>3, <1>4, <1>9
  <2> QED
    BY <2>1, <1>0 DEF HeldInv
<1>14. UsesInv'
  BY <1>0, <1>2, <1>3, <1>4 DEF UsesInv
<1> QED
  BY <1>7, <1>10, <1>11, <1>12, <1>13, <1>14 DEF PlanInv
\* No two plans are built by the same name.
LEMMA BuildsApart ==
    ASSUME PlanInv, NEW a \in Actors, NEW d \in Actors, building[a] # NoBuild, building[d] # NoBuild,
           building[a].plan = building[d].plan
    PROVE  a = d
  BY DEF PlanInv, BuildInv

\* What the rungs in ks of plan p are as objects.
LEMMA ObjectsMember ==
    ASSUME NEW p, NEW ks, NEW x, NEW k
    PROVE  <<x, k>> \in Objects(p, ks) <=> x = p /\ k \in ks \ {"ws"}
  BY DEF Objects

LEMMA ObjectsFacts ==
    ASSUME NEW p, NEW ks
    PROVE  \A o \in Objects(p, ks) : o = <<p, o[2]>> /\ o[2] \in ks \ {"ws"}
  BY DEF Objects

LEMMA CreateStep ==
    ASSUME PlanInv, NEW a \in Actors, CreateObject(a)
    PROVE  PlanInv'
<1>0. PlanTypes /\ CachedInv /\ BuildInv /\ ObjectsInv /\ HeldInv /\ UsesInv
  BY DEF PlanInv
<1>1. PICK b : b = building[a]
  OBVIOUS
<1>2. PICK kind : kind = Ladder(b.req.op)[b.rung]
  OBVIOUS
<1>3. PICK new : new = [b EXCEPT !.rung = b.rung + 1]
  OBVIOUS
<1>4. /\ b.rung > 0 /\ b.rung <= Len(Ladder(b.req.op))
      /\ objects' = objects \cup Objects(b.plan, {kind})
      /\ building' = [building EXCEPT ![a] = new]
      /\ cache' = cache /\ made' = made /\ uses' = uses
  BY <1>1, <1>2, <1>3 DEF CreateObject
<1>5. building[a] # NoBuild
  BY <1>1, <1>4 DEF NoBuild
<1>6. b \in Builds /\ b.rung \in Nat
  BY <1>0, <1>1, <1>5, BuildFacts
<1>7. /\ new \in Builds /\ new # NoBuild /\ new.rung = b.rung + 1 /\ new.plan = b.plan
      /\ new.req = b.req /\ new.slot = b.slot
  <2>1. new \in Builds /\ new.rung = b.rung + 1
    BY <1>3, <1>6 DEF Builds
  <2>2. NoBuild.rung = 0
    BY DEF NoBuild
  <2> QED
    BY <1>3, <1>6, <2>1, <2>2 DEF Builds
<1>8. /\ building' \in [Actors -> {NoBuild} \cup Builds]
      /\ building'[a] = new /\ \A d \in Actors : d # a => building'[d] = building[d]
  BY <1>0, <1>4, <1>7 DEF PlanTypes
<1>9. PlanTypes'
  BY <1>0, <1>4, <1>8 DEF PlanTypes
<1>10. \A x : (Cached(x)' <=> Cached(x)) /\ (Used(x)' <=> Used(x))
  BY <1>4 DEF Cached, Used
<1>11. \A x, k : <<x, k>> \in objects' <=> <<x, k>> \in objects \/ (x = b.plan /\ k = kind /\ k # "ws")
  <2> SUFFICES ASSUME NEW x, NEW k
               PROVE  <<x, k>> \in objects' <=> <<x, k>> \in objects \/ (x = b.plan /\ k = kind /\ k # "ws")
    OBVIOUS
  <2>2. <<x, k>> \in objects' <=> <<x, k>> \in objects \/ <<x, k>> \in Objects(b.plan, {kind})
    BY <1>4
  <2>3. <<x, k>> \in Objects(b.plan, {kind}) <=> x = b.plan /\ k \in {kind} \ {"ws"}
    BY ObjectsMember
  <2> QED
    BY <2>2, <2>3
<1>12. /\ b.plan \in 1 .. Len(made) /\ made[b.plan] = b.req /\ ActorOf(b.req) = a
       /\ ~Cached(b.plan) /\ ~Used(b.plan)
       /\ \A k : <<b.plan, k>> \in objects <=> k \in Undo(b.req.op, b.rung) \ {"ws"}
       /\ uses[b.slot] = NoUse
       /\ \A d \in Actors : building[d] # NoBuild /\ building[d].slot = b.slot => d = a
  BY <1>0, <1>1, <1>5 DEF BuildInv
<1>13. /\ Len(Ladder(b.req.op)) \in Nat /\ kind \in Owned(b.req.op)
       /\ Undo(b.req.op, b.rung + 1) = Undo(b.req.op, b.rung) \cup {kind}
  BY <1>2, <1>4, <1>6, LadderFacts
<1>14. CachedInv'
  BY <1>0, <1>4 DEF CachedInv
<1>15. BuildInv'
  <2> SUFFICES ASSUME NEW d \in Actors, building'[d] # NoBuild, NEW e, e = building'[d]
               PROVE  /\ e.plan \in 1 .. Len(made) /\ made[e.plan] = e.req /\ ActorOf(e.req) = d
                      /\ e.rung <= Len(Ladder(e.req.op)) + 1
                      /\ ~Cached(e.plan) /\ ~Used(e.plan)
                      /\ \A k : <<e.plan, k>> \in objects' <=> k \in Undo(e.req.op, e.rung) \ {"ws"}
                      /\ uses[e.slot] = NoUse
                      /\ \A f \in Actors : building'[f] # NoBuild /\ building'[f].slot = e.slot => f = d
    BY <1>4, <1>10 DEF BuildInv
  <2>1. \A f \in Actors : (building'[f] # NoBuild <=> building[f] # NoBuild)
                          /\ building'[f].slot = building[f].slot /\ building'[f].plan = building[f].plan
    BY <1>1, <1>5, <1>7, <1>8
  <2>2. CASE d = a
    <3>1. \A k : <<b.plan, k>> \in objects' <=> k \in Undo(b.req.op, b.rung + 1) \ {"ws"}
      BY <1>11, <1>12, <1>13
    <3>2. b.rung + 1 <= Len(Ladder(b.req.op)) + 1
      BY <1>4, <1>6, <1>13
    <3> QED
      BY <2>1, <2>2, <3>1, <3>2, <1>1, <1>7, <1>8, <1>12
  <2>3. CASE d # a
    <3>1. e = building[d] /\ building[d] # NoBuild
      BY <2>3, <1>8
    <3>2. e.plan # b.plan
      BY <2>3, <3>1, <1>1, <1>5, BuildsApart
    <3>3. /\ e.plan \in 1 .. Len(made) /\ made[e.plan] = e.req /\ ActorOf(e.req) = d
          /\ e.rung <= Len(Ladder(e.req.op)) + 1
          /\ ~Cached(e.plan) /\ ~Used(e.plan)
          /\ \A k : <<e.plan, k>> \in objects <=> k \in Undo(e.req.op, e.rung) \ {"ws"}
          /\ uses[e.slot] = NoUse
          /\ \A f \in Actors : building[f] # NoBuild /\ building[f].slot = e.slot => f = d
      BY <3>1, <1>0 DEF BuildInv
    <3>4. \A k : <<e.plan, k>> \in objects' <=> <<e.plan, k>> \in objects
      BY <3>2, <1>11
    <3> QED
      BY <3>3, <3>4, <2>1
  <2> QED
    BY <2>2, <2>3
<1>16. ObjectsInv'
  <2> SUFFICES ASSUME NEW o \in objects'
               PROVE  /\ o = <<o[1], o[2]>> /\ o[1] \in 1 .. Len(made)
                      /\ o[2] \in Owned(made[o[1]].op) \ {"ws"}
                      /\ Cached(o[1]) \/ Used(o[1]) \/ InConstruction(o[1])'
    BY <1>4, <1>10 DEF ObjectsInv
  <2>0. ASSUME NEW x, InConstruction(x) \/ x = b.plan PROVE InConstruction(x)'
    <3>1. CASE x = b.plan
      <4>1. building'[a].rung > 0 /\ building'[a].plan = x
        BY <3>1, <1>4, <1>6, <1>7, <1>8
      <4> QED
        BY <4>1 DEF InConstruction
    <3>2. CASE x # b.plan
      <4>1. PICK d \in Actors : building[d].rung > 0 /\ building[d].plan = x
        BY <2>0, <3>2 DEF InConstruction
      <4>2. d # a
        BY <3>2, <4>1, <1>1
      <4> QED
        BY <4>1, <4>2, <1>8 DEF InConstruction
    <3> QED
      BY <3>1, <3>2
  <2>1. CASE o \in objects
    BY <2>0, <2>1, <1>0 DEF ObjectsInv
  <2>2. CASE o \notin objects
    <3>1. o = <<b.plan, o[2]>> /\ o[2] \in {kind} \ {"ws"}
      BY <2>2, <1>4, ObjectsFacts
    <3>2. o[1] = b.plan
      BY <3>1
    <3> QED
      BY <2>0, <3>1, <3>2, <1>12, <1>13
  <2> QED
    BY <2>1, <2>2
<1>17. HeldInv'
  BY <1>0, <1>4, <1>10 DEF HeldInv
<1>18. UsesInv'
  BY <1>0, <1>4 DEF UsesInv
<1> QED
  BY <1>9, <1>14, <1>15, <1>16, <1>17, <1>18 DEF PlanInv

LEMMA FailStep ==
    ASSUME PlanInv, NEW a \in Actors, CreateFails(a)
    PROVE  PlanInv'
<1>0. PlanTypes /\ CachedInv /\ BuildInv /\ ObjectsInv /\ HeldInv /\ UsesInv
  BY DEF PlanInv
<1>1. PICK b : b = building[a]
  OBVIOUS
<1>2. /\ b.rung > 0 /\ objects' = objects \ Objects(b.plan, Undo(b.req.op, b.rung))
      /\ building' = [building EXCEPT ![a] = NoBuild]
      /\ cache' = cache /\ made' = made /\ uses' = uses
  BY <1>1 DEF CreateFails
<1>3. building[a] # NoBuild
  BY <1>1, <1>2 DEF NoBuild
<1>4. /\ building' \in [Actors -> {NoBuild} \cup Builds]
      /\ building'[a] = NoBuild /\ \A d \in Actors : d # a => building'[d] = building[d]
  BY <1>0, <1>2 DEF PlanTypes
<1>5. PlanTypes'
  BY <1>0, <1>2, <1>4 DEF PlanTypes
<1>6. \A x : (Cached(x)' <=> Cached(x)) /\ (Used(x)' <=> Used(x))
  BY <1>2 DEF Cached, Used
<1>7. /\ b.plan \in 1 .. Len(made) /\ ~Cached(b.plan) /\ ~Used(b.plan)
      /\ \A k : <<b.plan, k>> \in objects <=> k \in Undo(b.req.op, b.rung) \ {"ws"}
  BY <1>0, <1>1, <1>3 DEF BuildInv
<1>8. \A x, k : <<x, k>> \in objects' <=> <<x, k>> \in objects /\ x # b.plan
  <2> SUFFICES ASSUME NEW x, NEW k
               PROVE  <<x, k>> \in objects' <=> <<x, k>> \in objects /\ x # b.plan
    OBVIOUS
  <2>2. <<x, k>> \in objects' <=>
            <<x, k>> \in objects /\ <<x, k>> \notin Objects(b.plan, Undo(b.req.op, b.rung))
    BY <1>2
  <2>3. <<x, k>> \in Objects(b.plan, Undo(b.req.op, b.rung))
            <=> x = b.plan /\ k \in Undo(b.req.op, b.rung) \ {"ws"}
    BY ObjectsMember
  <2>4. x = b.plan /\ <<x, k>> \in objects => k \in Undo(b.req.op, b.rung) \ {"ws"}
    BY <1>7
  <2> QED
    BY <2>2, <2>3, <2>4
<1>9. CachedInv'
  BY <1>0, <1>2 DEF CachedInv
<1>10. BuildInv'
  <2> SUFFICES ASSUME NEW d \in Actors, building'[d] # NoBuild, NEW e, e = building'[d]
               PROVE  /\ e.plan \in 1 .. Len(made) /\ made[e.plan] = e.req /\ ActorOf(e.req) = d
                      /\ e.rung <= Len(Ladder(e.req.op)) + 1
                      /\ ~Cached(e.plan) /\ ~Used(e.plan)
                      /\ \A k : <<e.plan, k>> \in objects' <=> k \in Undo(e.req.op, e.rung) \ {"ws"}
                      /\ uses[e.slot] = NoUse
                      /\ \A f \in Actors : building'[f] # NoBuild /\ building'[f].slot = e.slot => f = d
    BY <1>2, <1>6 DEF BuildInv
  <2>1. d # a /\ e = building[d] /\ building[d] # NoBuild
    BY <1>4
  <2>2. e.plan # b.plan
    BY <2>1, <1>1, <1>3, BuildsApart
  <2>3. /\ e.plan \in 1 .. Len(made) /\ made[e.plan] = e.req /\ ActorOf(e.req) = d
        /\ e.rung <= Len(Ladder(e.req.op)) + 1
        /\ ~Cached(e.plan) /\ ~Used(e.plan)
        /\ \A k : <<e.plan, k>> \in objects <=> k \in Undo(e.req.op, e.rung) \ {"ws"}
        /\ uses[e.slot] = NoUse
        /\ \A f \in Actors : building[f] # NoBuild /\ building[f].slot = e.slot => f = d
    BY <2>1, <1>0 DEF BuildInv
  <2>4. \A k : <<e.plan, k>> \in objects' <=> <<e.plan, k>> \in objects
    BY <2>2, <1>8
  <2>5. \A f \in Actors : building'[f] # NoBuild /\ building'[f].slot = e.slot => f = d
    BY <2>3, <1>4
  <2> QED
    BY <2>3, <2>4, <2>5
<1>11. ObjectsInv'
  <2> SUFFICES ASSUME NEW o \in objects'
               PROVE  /\ o = <<o[1], o[2]>> /\ o[1] \in 1 .. Len(made)
                      /\ o[2] \in Owned(made[o[1]].op) \ {"ws"}
                      /\ Cached(o[1]) \/ Used(o[1]) \/ InConstruction(o[1])'
    BY <1>2, <1>6 DEF ObjectsInv
  <2>1. o \in objects
    BY <1>2
  <2>2. /\ o = <<o[1], o[2]>> /\ o[1] \in 1 .. Len(made) /\ o[2] \in Owned(made[o[1]].op) \ {"ws"}
        /\ Cached(o[1]) \/ Used(o[1]) \/ InConstruction(o[1])
    BY <2>1, <1>0 DEF ObjectsInv
  <2>3. o[1] # b.plan
    BY <2>2, <1>8
  <2>4. InConstruction(o[1]) => InConstruction(o[1])'
    <3> SUFFICES ASSUME InConstruction(o[1]) PROVE InConstruction(o[1])'
      OBVIOUS
    <3>1. PICK d \in Actors : building[d].rung > 0 /\ building[d].plan = o[1]
      BY DEF InConstruction
    <3>2. d # a
      BY <3>1, <2>3, <1>1
    <3>3. building'[d].rung > 0 /\ building'[d].plan = o[1]
      BY <3>1, <3>2, <1>4
    <3>4. PICK x : x = o[1]
      OBVIOUS
    <3>5. InConstruction(x)'
      BY <3>3, <3>4 DEF InConstruction
    <3> QED
      BY <3>4, <3>5
  <2> QED
    BY <2>2, <2>4
<1>12. HeldInv'
  <2> SUFFICES ASSUME NEW x \in 1 .. Len(made), Cached(x) \/ Used(x)
               PROVE  Objects(x, Owned(made[x].op)) \subseteq objects'
    BY <1>2, <1>6 DEF HeldInv
  <2>1. x # b.plan /\ Objects(x, Owned(made[x].op)) \subseteq objects
    BY <1>0, <1>7 DEF HeldInv
  <2>2. \A o \in Objects(x, Owned(made[x].op)) : o = <<x, o[2]>>
    BY ObjectsFacts
  <2> QED
    BY <2>1, <2>2, <1>8
<1>13. UsesInv'
  BY <1>0, <1>2 DEF UsesInv
<1> QED
  BY <1>5, <1>9, <1>10, <1>11, <1>12, <1>13 DEF PlanInv

\* An element before a sequence.
LEMMA ConsFacts ==
    ASSUME NEW rest \in Seq(Nat), NEW p \in Nat
    PROVE  /\ <<p>> \o rest \in Seq(Nat) /\ Len(<<p>> \o rest) = Len(rest) + 1
           /\ (<<p>> \o rest)[1] = p
           /\ \A i \in 2 .. Len(rest) + 1 : (<<p>> \o rest)[i] = rest[i - 1]
<1>1. PICK one : one = <<p>>
  OBVIOUS
<1>2. one \in Seq(Nat) /\ Len(one) = 1 /\ one[1] = p
  BY <1>1
<1>3. /\ one \o rest \in Seq(Nat) /\ Len(one \o rest) = Len(one) + Len(rest)
      /\ \A i \in 1 .. Len(one) + Len(rest) :
           (one \o rest)[i] = IF i <= Len(one) THEN one[i] ELSE rest[i - Len(one)]
  BY <1>2, ConcatProperties
<1>4. PICK q : q = one \o rest
  OBVIOUS
<1>5. /\ q \in Seq(Nat) /\ Len(q) = 1 + Len(rest)
      /\ \A i \in 1 .. 1 + Len(rest) : q[i] = IF i <= 1 THEN one[i] ELSE rest[i - 1]
  BY <1>2, <1>3, <1>4
<1>6. q[1] = p /\ \A i \in 2 .. Len(rest) + 1 : q[i] = rest[i - 1]
  BY <1>2, <1>5
<1> QED
  BY <1>1, <1>4, <1>5, <1>6

LEMMA InsertStep ==
    ASSUME PlanInv, NEW a \in Actors, Insert(a)
    PROVE  PlanInv'
<1>0. PlanTypes /\ CachedInv /\ BuildInv /\ ObjectsInv /\ HeldInv /\ UsesInv
  BY DEF PlanInv
<1>1. PICK b : b = building[a]
  OBVIOUS
<1>2. PICK plans : plans = cache[a]
  OBVIOUS
<1>3. PICK full \in BOOLEAN : full <=> Len(plans) >= Cap
  OBVIOUS
<1>4. PICK e : e = Last(plans)
  OBVIOUS
<1>r. PICK rest : rest = IF full THEN Front(plans) ELSE plans
  OBVIOUS
<1>5. PICK q : q = <<b.plan>> \o rest
  OBVIOUS
<1>6. PICK use : use = [plan |-> b.plan, req |-> b.req]
  OBVIOUS
<1>7. /\ b.rung > 0 /\ b.rung > Len(Ladder(b.req.op))
      /\ cache' = [cache EXCEPT ![a] = q]
      /\ objects' = objects \ (IF full THEN Drop(e, Used(e)) ELSE {})
      /\ uses' = [uses EXCEPT ![b.slot] = use]
      /\ building' = [building EXCEPT ![a] = NoBuild] /\ made' = made
  BY <1>1, <1>2, <1>3, <1>4, <1>5, <1>6, <1>r DEF Insert
<1>8. building[a] # NoBuild
  BY <1>1, <1>7 DEF NoBuild
<1>9. b \in Builds /\ b.rung \in Nat /\ b.plan \in Nat /\ b.req \in PlanRequests /\ b.slot \in Slots
  BY <1>0, <1>1, <1>8, BuildFacts
<1>10. /\ b.plan \in 1 .. Len(made) /\ made[b.plan] = b.req /\ ActorOf(b.req) = a
       /\ b.rung <= Len(Ladder(b.req.op)) + 1
       /\ ~Cached(b.plan) /\ ~Used(b.plan)
       /\ \A k : <<b.plan, k>> \in objects <=> k \in Undo(b.req.op, b.rung) \ {"ws"}
       /\ uses[b.slot] = NoUse
       /\ \A d \in Actors : building[d] # NoBuild /\ building[d].slot = b.slot => d = a
  BY <1>0, <1>1, <1>8 DEF BuildInv
<1>11. \A k : <<b.plan, k>> \in objects <=> k \in Owned(b.req.op) \ {"ws"}
  <2>1. Len(Ladder(b.req.op)) \in Nat /\ Undo(b.req.op, Len(Ladder(b.req.op)) + 1) = Owned(b.req.op)
    BY LadderFacts
  <2>2. b.rung = Len(Ladder(b.req.op)) + 1
    BY <2>1, <1>7, <1>9, <1>10
  <2> QED
    BY <2>1, <2>2, <1>10
<1>12. /\ plans \in Seq(Nat) /\ Len(plans) \in Nat /\ (full => Len(plans) > 0)
       /\ \A i \in 1 .. Len(plans) : plans[i] \in 1 .. Len(made) /\ ActorOf(made[plans[i]]) = a
       /\ \A i, j \in 1 .. Len(plans) : plans[i] = plans[j] => i = j
  <2>1. plans \in Seq(Nat) /\ Len(plans) \in Nat
    BY <1>0, <1>2 DEF PlanTypes
  <2>2. full => Len(plans) > 0
    BY <2>1, <1>3, PlanCachesAssumption
  <2>3. /\ \A i \in 1 .. Len(plans) : plans[i] \in 1 .. Len(made) /\ ActorOf(made[plans[i]]) = a
        /\ \A i, j \in 1 .. Len(plans) : plans[i] = plans[j] => i = j
    BY <1>0, <1>2 DEF CachedInv
  <2> QED
    BY <2>1, <2>2, <2>3
<1>13. PICK n : n = IF full THEN Len(plans) - 1 ELSE Len(plans)
  OBVIOUS
<1>14. /\ n \in Nat /\ n <= Len(plans) /\ q \in Seq(Nat) /\ Len(q) = n + 1
       /\ q[1] = b.plan /\ \A i \in 2 .. n + 1 : q[i] = plans[i - 1]
  <2>1. n \in Nat /\ n <= Len(plans)
    BY <1>12, <1>13
  <2>2. rest \in Seq(Nat) /\ Len(rest) = n /\ \A i \in 1 .. n : rest[i] = plans[i]
    <3>1. CASE full
      BY <1>r, <1>12, <1>13, <3>1 DEF Front
    <3>2. CASE ~full
      BY <1>r, <1>12, <1>13, <3>2
    <3> QED
      BY <3>1, <3>2
  <2>3. PICK p \in Nat : p = b.plan
    BY <1>9
  <2>4. /\ q \in Seq(Nat) /\ Len(q) = Len(rest) + 1 /\ q[1] = p
        /\ \A i \in 2 .. Len(rest) + 1 : q[i] = rest[i - 1]
    BY <2>2, <2>3, <1>5, ConsFacts
  <2>5. ASSUME NEW i \in 2 .. n + 1 PROVE q[i] = plans[i - 1]
    <3>1. i - 1 \in 1 .. n
      BY <2>1
    <3> QED
      BY <2>2, <2>4, <3>1
  <2> QED
    BY <2>1, <2>2, <2>3, <2>4, <2>5
<1>15. full => e = plans[n + 1] /\ n + 1 = Len(plans) /\ n + 1 \in 1 .. Len(plans)
  BY <1>4, <1>12, <1>13 DEF Last
<1>16. /\ cache' \in [Actors -> Seq(Nat)]
       /\ cache'[a] = q /\ \A d \in Actors : d # a => cache'[d] = cache[d]
  BY <1>0, <1>7, <1>14 DEF PlanTypes
<1>17. /\ uses' \in [Slots -> {NoUse} \cup Launches]
       /\ uses'[b.slot] = use /\ \A t \in Slots : t # b.slot => uses'[t] = uses[t]
  <2>1. use \in Launches
    BY <1>6, <1>9, <1>10 DEF Launches
  <2> QED
    BY <2>1, <1>0, <1>7, <1>9 DEF PlanTypes
<1>18. /\ building' \in [Actors -> {NoBuild} \cup Builds]
       /\ building'[a] = NoBuild /\ \A d \in Actors : d # a => building'[d] = building[d]
  BY <1>0, <1>7 DEF PlanTypes
<1>19. PlanTypes'
  BY <1>0, <1>7, <1>16, <1>17, <1>18 DEF PlanTypes
<1>20. ASSUME NEW x PROVE Cached(x)' <=> x = b.plan \/ (Cached(x) /\ ~(full /\ x = e))
  <2>1. Cached(x)' <=> \E d \in Actors : \E i \in 1 .. Len(cache'[d]) : cache'[d][i] = x
    BY <1>16, CachedPlaces DEF Cached
  <2>2. Cached(x) <=> \E d \in Actors : \E i \in 1 .. Len(cache[d]) : cache[d][i] = x
    BY <1>0, CachedPlaces DEF Cached, PlanTypes
  <2>3. ASSUME Cached(x)', x # b.plan PROVE Cached(x) /\ ~(full /\ x = e)
    <3>1. PICK d \in Actors : \E i \in 1 .. Len(cache'[d]) : cache'[d][i] = x
      BY <2>1, <2>3
    <3>2. PICK i \in 1 .. Len(cache'[d]) : cache'[d][i] = x
      BY <3>1
    <3>3. CASE d = a
      <4>1. i \in 1 .. n + 1 /\ q[i] = x /\ i # 1
        BY <2>3, <3>2, <3>3, <1>14, <1>16
      <4>2. i \in 2 .. n + 1 /\ i - 1 \in 1 .. n /\ i - 1 \in 1 .. Len(plans) /\ i - 1 # n + 1
        BY <4>1, <1>12, <1>14
      <4>3. plans[i - 1] = x
        BY <4>1, <4>2, <1>14
      <4>4. Cached(x)
        BY <2>2, <4>2, <4>3, <1>2
      <4>5. ~(full /\ x = e)
        BY <4>2, <4>3, <1>12, <1>15
      <4> QED
        BY <4>4, <4>5
    <3>4. CASE d # a
      <4>1. i \in 1 .. Len(cache[d]) /\ cache[d][i] = x
        BY <3>2, <3>4, <1>16
      <4>2. Cached(x) /\ ActorOf(made[x]) = d
        BY <4>1, <2>2, <1>0 DEF CachedInv
      <4>3. full => ActorOf(made[e]) = a
        BY <1>12, <1>15
      <4> QED
        BY <3>4, <4>2, <4>3
    <3> QED
      BY <3>3, <3>4
  <2>4. ASSUME x = b.plan PROVE Cached(x)'
    <3>1. 1 \in 1 .. Len(q) /\ q[1] = x
      BY <2>4, <1>14
    <3> QED
      BY <2>1, <3>1, <1>16
  <2>5. ASSUME Cached(x), ~(full /\ x = e) PROVE Cached(x)'
    <3>1. PICK d \in Actors : \E i \in 1 .. Len(cache[d]) : cache[d][i] = x
      BY <2>2, <2>5
    <3>2. PICK i \in 1 .. Len(cache[d]) : cache[d][i] = x
      BY <3>1
    <3>3. CASE d = a
      <4>1. i \in 1 .. Len(plans) /\ plans[i] = x
        BY <3>2, <3>3, <1>2
      <4>2. i <= n
        BY <2>5, <4>1, <1>12, <1>13, <1>14, <1>15
      <4>3. i + 1 \in 2 .. n + 1 /\ i + 1 \in 1 .. Len(q) /\ (i + 1) - 1 = i
        BY <4>1, <4>2, <1>12, <1>14
      <4>4. q[i + 1] = x
        BY <4>1, <4>3, <1>14
      <4> QED
        BY <2>1, <4>3, <4>4, <1>16
    <3>4. CASE d # a
      BY <2>1, <3>2, <3>4, <1>16
    <3> QED
      BY <3>3, <3>4
  <2> QED
    BY <2>3, <2>4, <2>5
<1>21. ASSUME NEW x \in Nat \ {0} PROVE Used(x)' <=> Used(x) \/ x = b.plan
  <2>1. uses[b.slot].plan = 0 /\ uses'[b.slot].plan = b.plan
    BY <1>6, <1>10, <1>17 DEF NoUse
  <2> QED
    BY <2>1, <1>9, <1>17 DEF Used
<1>c. \A j \in 1 .. Len(plans) : Cached(plans[j]) /\ plans[j] # b.plan
  <2> SUFFICES ASSUME NEW j \in 1 .. Len(plans) PROVE Cached(plans[j])
    BY <1>10
  <2>1. cache \in [Actors -> Seq(Nat)]
    BY <1>0 DEF PlanTypes
  <2>2. PICK x : x = plans[j]
    OBVIOUS
  <2>3. \E d \in Actors : \E i \in 1 .. Len(cache[d]) : cache[d][i] = x
    BY <2>2, <1>2
  <2>4. Cached(x)
    BY <2>1, <2>3, CachedPlaces DEF Cached
  <2> QED
    BY <2>2, <2>4
<1>22. full => Cached(e) /\ e # b.plan
  BY <1>15, <1>c
<1>23. PICK gone \in BOOLEAN : gone <=> full /\ ~Used(e)
  OBVIOUS
<1>24. ASSUME NEW x, NEW k PROVE <<x, k>> \in objects' <=> <<x, k>> \in objects /\ ~(gone /\ x = e)
  <2>1. CASE gone
    <3>1. <<x, k>> \in objects' <=> <<x, k>> \in objects /\ <<x, k>> \notin Objects(e, Owned(made[e].op))
      BY <2>1, <1>7, <1>23 DEF Drop
    <3>2. <<x, k>> \in Objects(e, Owned(made[e].op)) <=> x = e /\ k \in Owned(made[e].op) \ {"ws"}
      BY ObjectsMember
    <3>3. <<x, k>> \in objects => k \in Owned(made[x].op) \ {"ws"}
      BY <1>0 DEF ObjectsInv
    <3> QED
      BY <2>1, <3>1, <3>2, <3>3
  <2>2. CASE ~gone
    BY <2>2, <1>7, <1>23 DEF Drop
  <2> QED
    BY <2>1, <2>2
<1>25. CachedInv'
  <2> SUFFICES ASSUME NEW d \in Actors, NEW i \in 1 .. Len(cache'[d])
               PROVE  /\ cache'[d][i] \in 1 .. Len(made) /\ ActorOf(made[cache'[d][i]]) = d
                      /\ \A j \in 1 .. Len(cache'[d]) : cache'[d][i] = cache'[d][j] => i = j
    BY <1>7 DEF CachedInv
  <2>1. CASE d # a
    BY <2>1, <1>0, <1>16 DEF CachedInv
  <2>2. CASE d = a
    <3>1. \A j \in 2 .. n + 1 : j - 1 \in 1 .. Len(plans) /\ q[j] = plans[j - 1]
      BY <1>12, <1>14
    <3>2. \A j \in 1 .. Len(plans) : plans[j] # b.plan
      BY <1>c
    <3>3. \A j \in 1 .. n + 1 : j # 1 => j \in 2 .. n + 1
      BY <1>14
    <3>4. i \in 1 .. n + 1 /\ Len(cache'[d]) = n + 1 /\ cache'[d] = q
      BY <2>2, <1>14, <1>16
    <3>5. q[i] \in 1 .. Len(made) /\ ActorOf(made[q[i]]) = a
      <4>1. CASE i = 1
        BY <4>1, <1>10, <1>14
      <4>2. CASE i # 1
        <5>1. i - 1 \in 1 .. Len(plans) /\ q[i] = plans[i - 1]
          BY <4>2, <3>1, <3>3, <3>4
        <5> QED
          BY <5>1, <1>12
      <4> QED
        BY <4>1, <4>2
    <3>6. ASSUME NEW j \in 1 .. n + 1, q[i] = q[j] PROVE i = j
      <4>1. CASE i = 1 \/ j = 1
        BY <4>1, <3>1, <3>2, <3>3, <3>4, <3>6, <1>14
      <4>2. CASE i # 1 /\ j # 1
        <5>1. plans[i - 1] = plans[j - 1] /\ i - 1 \in 1 .. Len(plans) /\ j - 1 \in 1 .. Len(plans)
          BY <4>2, <3>1, <3>3, <3>4, <3>6
        <5>2. i - 1 = j - 1
          BY <5>1, <1>12
        <5> QED
          BY <5>2, <3>4, <1>14
      <4> QED
        BY <4>1, <4>2
    <3> QED
      BY <2>2, <3>4, <3>5, <3>6
  <2> QED
    BY <2>1, <2>2
<1>26. BuildInv'
  <2> SUFFICES ASSUME NEW d \in Actors, building'[d] # NoBuild, NEW c, c = building'[d]
               PROVE  /\ c.plan \in 1 .. Len(made) /\ made[c.plan] = c.req /\ ActorOf(c.req) = d
                      /\ c.rung <= Len(Ladder(c.req.op)) + 1
                      /\ ~Cached(c.plan)' /\ ~Used(c.plan)'
                      /\ \A k : <<c.plan, k>> \in objects' <=> k \in Undo(c.req.op, c.rung) \ {"ws"}
                      /\ uses'[c.slot] = NoUse
                      /\ \A f \in Actors : building'[f] # NoBuild /\ building'[f].slot = c.slot => f = d
    BY <1>7 DEF BuildInv
  <2>1. d # a /\ c = building[d] /\ building[d] # NoBuild
    BY <1>18
  <2>2. c.plan # b.plan
    BY <2>1, <1>1, <1>8, BuildsApart
  <2>3. /\ c.plan \in 1 .. Len(made) /\ made[c.plan] = c.req /\ ActorOf(c.req) = d
        /\ c.rung <= Len(Ladder(c.req.op)) + 1
        /\ ~Cached(c.plan) /\ ~Used(c.plan)
        /\ \A k : <<c.plan, k>> \in objects <=> k \in Undo(c.req.op, c.rung) \ {"ws"}
        /\ uses[c.slot] = NoUse
        /\ \A f \in Actors : building[f] # NoBuild /\ building[f].slot = c.slot => f = d
    BY <2>1, <1>0 DEF BuildInv
  <2>4. c.plan \in Nat \ {0} /\ c.slot \in Slots /\ c.slot # b.slot
    BY <2>1, <2>3, <1>0, <1>1, <1>8, <1>10, BuildFacts
  <2>5. ~Cached(c.plan)' /\ ~Used(c.plan)'
    BY <2>2, <2>3, <2>4, <1>20, <1>21
  <2>6. \A k : <<c.plan, k>> \in objects' <=> <<c.plan, k>> \in objects
    BY <2>3, <1>22, <1>23, <1>24
  <2>7. uses'[c.slot] = NoUse
    BY <2>3, <2>4, <1>17
  <2>8. \A f \in Actors : building'[f] # NoBuild /\ building'[f].slot = c.slot => f = d
    BY <2>3, <1>18
  <2> QED
    BY <2>3, <2>5, <2>6, <2>7, <2>8
<1>27. ObjectsInv'
  <2> SUFFICES ASSUME NEW o \in objects'
               PROVE  /\ o = <<o[1], o[2]>> /\ o[1] \in 1 .. Len(made)
                      /\ o[2] \in Owned(made[o[1]].op) \ {"ws"}
                      /\ Cached(o[1])' \/ Used(o[1])' \/ InConstruction(o[1])'
    BY <1>7 DEF ObjectsInv
  <2>1. PICK x : x = o[1]
    OBVIOUS
  <2>2. o \in objects
    BY <1>7
  <2>3. /\ o = <<x, o[2]>> /\ x \in 1 .. Len(made) /\ o[2] \in Owned(made[x].op) \ {"ws"}
        /\ Cached(x) \/ Used(x) \/ InConstruction(x)
    BY <2>1, <2>2, <1>0 DEF ObjectsInv
  <2>4. ~(gone /\ x = e) /\ x \in Nat \ {0}
    BY <2>3, <1>24
  <2>5. ASSUME InConstruction(x), x # b.plan PROVE InConstruction(x)'
    <3>1. PICK d \in Actors : building[d].rung > 0 /\ building[d].plan = x
      BY <2>5 DEF InConstruction
    <3>2. d # a
      BY <3>1, <2>5, <1>1
    <3> QED
      BY <3>1, <3>2, <1>18 DEF InConstruction
  <2>6. Cached(x)' \/ Used(x)' \/ InConstruction(x)'
    BY <2>3, <2>4, <2>5, <1>20, <1>21, <1>23
  <2> QED
    BY <2>1, <2>3, <2>6
<1>28. HeldInv'
  <2> SUFFICES ASSUME NEW x \in 1 .. Len(made), Cached(x)' \/ Used(x)'
               PROVE  Objects(x, Owned(made[x].op)) \subseteq objects'
    BY <1>7 DEF HeldInv
  <2>1. ~(gone /\ x = e)
    BY <1>20, <1>21, <1>22, <1>23
  <2>2. Objects(x, Owned(made[x].op)) \subseteq objects
    <3>1. CASE x = b.plan
      <4>1. \A o \in Objects(x, Owned(made[x].op)) : o = <<x, o[2]>> /\ o[2] \in Owned(made[x].op) \ {"ws"}
        BY ObjectsFacts
      <4> QED
        BY <3>1, <4>1, <1>10, <1>11
    <3>2. CASE x # b.plan
      BY <3>2, <1>0, <1>20, <1>21 DEF HeldInv
    <3> QED
      BY <3>1, <3>2
  <2>3. \A o \in Objects(x, Owned(made[x].op)) : o = <<x, o[2]>>
    BY ObjectsFacts
  <2> QED
    BY <2>1, <2>2, <2>3, <1>24
<1>29. UsesInv'
  <2> SUFFICES ASSUME NEW t \in Slots, uses'[t] # NoUse
               PROVE  uses'[t].plan \in 1 .. Len(made) /\ Key(made[uses'[t].plan]) = Key(uses'[t].req)
    BY <1>7 DEF UsesInv
  <2>1. CASE t = b.slot
    BY <2>1, <1>6, <1>10, <1>17
  <2>2. CASE t # b.slot
    BY <2>2, <1>0, <1>17 DEF UsesInv
  <2> QED
    BY <2>1, <2>2
<1> QED
  BY <1>19, <1>25, <1>26, <1>27, <1>28, <1>29 DEF PlanInv

LEMMA FinishStep ==
    ASSUME PlanInv, NEW s \in Slots, Finish(s)
    PROVE  PlanInv'
<1>0. PlanTypes /\ CachedInv /\ BuildInv /\ ObjectsInv /\ HeldInv /\ UsesInv
  BY DEF PlanInv
<1>1. PICK p : p = uses[s].plan
  OBVIOUS
<1>2. PICK still \in BOOLEAN : still <=> Cached(p) \/ \E t \in Slots \ {s} : uses[t].plan = p
  OBVIOUS
<1>3. /\ uses[s] # NoUse /\ uses' = [uses EXCEPT ![s] = NoUse]
      /\ objects' = objects \ Drop(p, still)
      /\ cache' = cache /\ building' = building /\ made' = made
  <2>1. objects' = objects \ Drop(p, Cached(p) \/ \E t \in Slots \ {s} : uses[t].plan = p)
    BY <1>1 DEF Finish
  <2>2. objects' = objects \ Drop(p, still)
    BY <2>1, <1>2 DEF Drop
  <2> QED
    BY <2>2 DEF Finish
<1>4. p \in 1 .. Len(made) /\ p \in Nat \ {0} /\ Used(p)
  BY <1>0, <1>1, <1>3 DEF UsesInv, PlanTypes, Used
<1>5. /\ uses' \in [Slots -> {NoUse} \cup Launches]
      /\ uses'[s] = NoUse /\ \A t \in Slots : t # s => uses'[t] = uses[t]
  BY <1>0, <1>3 DEF PlanTypes
<1>6. PlanTypes'
  BY <1>0, <1>3, <1>5 DEF PlanTypes
<1>7. \A x : (Cached(x)' <=> Cached(x)) /\ (InConstruction(x)' <=> InConstruction(x))
  BY <1>3 DEF Cached, InConstruction
<1>8. ASSUME NEW x \in Nat \ {0} PROVE Used(x)' <=> \E t \in Slots \ {s} : uses[t].plan = x
  <2>1. uses'[s].plan # x
    BY <1>5 DEF NoUse
  <2> QED
    BY <2>1, <1>5 DEF Used
<1>9. ASSUME NEW x \in Nat \ {0} PROVE (Used(x)' => Used(x)) /\ (x # p /\ Used(x) => Used(x)')
  BY <1>1, <1>8 DEF Used
<1>10. still <=> Cached(p) \/ Used(p)'
  BY <1>2, <1>4, <1>8
<1>11. ASSUME NEW x, NEW k PROVE <<x, k>> \in objects' <=> <<x, k>> \in objects /\ (still \/ x # p)
  <2>1. CASE ~still
    <3>1. <<x, k>> \in objects' <=> <<x, k>> \in objects /\ <<x, k>> \notin Objects(p, Owned(made[p].op))
      BY <2>1, <1>3 DEF Drop
    <3>2. <<x, k>> \in Objects(p, Owned(made[p].op)) <=> x = p /\ k \in Owned(made[p].op) \ {"ws"}
      BY ObjectsMember
    <3>3. <<x, k>> \in objects => k \in Owned(made[x].op) \ {"ws"}
      BY <1>0 DEF ObjectsInv
    <3> QED
      BY <2>1, <3>1, <3>2, <3>3
  <2>2. CASE still
    BY <2>2, <1>3 DEF Drop
  <2> QED
    BY <2>1, <2>2
<1>12. CachedInv'
  BY <1>0, <1>3 DEF CachedInv
<1>13. BuildInv'
  <2> SUFFICES ASSUME NEW d \in Actors, building[d] # NoBuild, NEW c, c = building[d]
               PROVE  /\ ~Cached(c.plan) /\ ~Used(c.plan)'
                      /\ \A k : <<c.plan, k>> \in objects' <=> <<c.plan, k>> \in objects
                      /\ uses'[c.slot] = NoUse
    BY <1>0, <1>3, <1>7 DEF BuildInv
  <2>1. c.plan \in Nat \ {0} /\ ~Cached(c.plan) /\ ~Used(c.plan) /\ uses[c.slot] = NoUse
    BY <1>0 DEF BuildInv
  <2>2. c.slot \in Slots
    BY <1>0, BuildFacts
  <2>3. c.plan # p
    BY <2>1, <1>4
  <2> QED
    BY <2>1, <2>2, <2>3, <1>5, <1>9, <1>11
<1>14. ObjectsInv'
  <2> SUFFICES ASSUME NEW o \in objects'
               PROVE  /\ o = <<o[1], o[2]>> /\ o[1] \in 1 .. Len(made)
                      /\ o[2] \in Owned(made[o[1]].op) \ {"ws"}
                      /\ Cached(o[1]) \/ Used(o[1])' \/ InConstruction(o[1])
    BY <1>3, <1>7 DEF ObjectsInv
  <2>1. PICK x : x = o[1]
    OBVIOUS
  <2>2. o \in objects
    BY <1>3
  <2>3. /\ o = <<x, o[2]>> /\ x \in 1 .. Len(made) /\ o[2] \in Owned(made[x].op) \ {"ws"}
        /\ Cached(x) \/ Used(x) \/ InConstruction(x)
    BY <2>1, <2>2, <1>0 DEF ObjectsInv
  <2>4. (still \/ x # p) /\ x \in Nat \ {0}
    BY <2>3, <1>11
  <2>5. Cached(x) \/ Used(x)' \/ InConstruction(x)
    BY <2>3, <2>4, <1>9, <1>10
  <2> QED
    BY <2>1, <2>3, <2>5
<1>15. HeldInv'
  <2> SUFFICES ASSUME NEW x \in 1 .. Len(made), Cached(x) \/ Used(x)'
               PROVE  Objects(x, Owned(made[x].op)) \subseteq objects'
    BY <1>3, <1>7 DEF HeldInv
  <2>1. (still \/ x # p) /\ (Cached(x) \/ Used(x))
    BY <1>9, <1>10
  <2>2. Objects(x, Owned(made[x].op)) \subseteq objects
    BY <2>1, <1>0 DEF HeldInv
  <2>3. \A o \in Objects(x, Owned(made[x].op)) : o = <<x, o[2]>>
    BY ObjectsFacts
  <2> QED
    BY <2>1, <2>2, <2>3, <1>11
<1>16. UsesInv'
  BY <1>0, <1>3, <1>5 DEF UsesInv
<1> QED
  BY <1>6, <1>12, <1>13, <1>14, <1>15, <1>16 DEF PlanInv

LEMMA PlanInitially == PlanInit => PlanInv
<1> SUFFICES ASSUME PlanInit PROVE PlanInv
  OBVIOUS
<1>1. \A a \in Actors : cache[a] = <<>> /\ building[a] = NoBuild
  BY DEF PlanInit
<1>2. \A s \in Slots : uses[s] = NoUse
  BY DEF PlanInit
<1>3. <<>> \in Seq(Nat) /\ <<>> \in Seq(PlanRequests) /\ Len(<<>>) = 0
  OBVIOUS
<1>4. PlanTypes
  BY <1>3 DEF PlanInit, PlanTypes
<1>5. CachedInv
  BY <1>1, <1>3 DEF CachedInv
<1>6. BuildInv
  BY <1>1 DEF BuildInv
<1>7. ObjectsInv
  BY DEF PlanInit, ObjectsInv
<1>8. HeldInv
  BY <1>3 DEF PlanInit, HeldInv
<1>9. UsesInv
  BY <1>2 DEF UsesInv
<1> QED
  BY <1>4, <1>5, <1>6, <1>7, <1>8, <1>9 DEF PlanInv

LEMMA PlanInduction == PlanInv /\ [PlanNext]_planVars => PlanInv'
<1> SUFFICES ASSUME PlanInv, [PlanNext]_planVars PROVE PlanInv'
  OBVIOUS
<1>1. ASSUME NEW r \in PlanRequests, NEW s \in Slots, Hit(r, s) \/ Miss(r, s) PROVE PlanInv'
  BY <1>1, HitStep, MissStep
<1>2. ASSUME NEW a \in Actors, CreateObject(a) \/ CreateFails(a) \/ Insert(a) PROVE PlanInv'
  BY <1>2, CreateStep, FailStep, InsertStep
<1>3. ASSUME NEW s \in Slots, Finish(s) PROVE PlanInv'
  BY <1>3, FinishStep
<1>4. ASSUME UNCHANGED planVars PROVE PlanInv'
  <2>1. cache' = cache /\ building' = building /\ made' = made /\ objects' = objects /\ uses' = uses
    BY <1>4 DEF planVars
  <2>2. \A x : /\ Cached(x)' <=> Cached(x)
               /\ Used(x)' <=> Used(x)
               /\ InConstruction(x)' <=> InConstruction(x)
    BY <2>1 DEF Cached, Used, InConstruction
  <2>3. PlanTypes' /\ CachedInv' /\ UsesInv'
    BY <2>1 DEF PlanInv, PlanTypes, CachedInv, UsesInv
  <2>4. BuildInv'
    BY <2>1, <2>2 DEF PlanInv, BuildInv
  <2>5. ObjectsInv' /\ HeldInv'
    BY <2>1, <2>2 DEF PlanInv, ObjectsInv, HeldInv
  <2> QED
    BY <2>3, <2>4, <2>5 DEF PlanInv
<1> QED
  BY <1>1, <1>2, <1>3, <1>4 DEF PlanNext

\* A key names the operation, the shape and the operators of its request; only
\* the two FFT operations share a kind.
LEMMA KeyTells ==
    ASSUME NEW m \in PlanRequests, NEW r \in PlanRequests, Key(m) = Key(r)
    PROVE  m.shape = r.shape /\ m.operator = r.operator /\ (ActorOf(r) = "tensor" => m.op = r.op)
<1> DEFINE Kind(x) == CASE x.op = "contract"    -> "Contract"
                        [] x.op = "binary"      -> "ElementwiseBinary"
                        [] x.op = "trinary"     -> "ElementwiseTrinary"
                        [] x.op = "permutation" -> "Permutation"
                        [] x.op = "reduction"   -> "Reduce"
                        [] OTHER                -> "Fft"
<1> DEFINE Tag(x) == IF x.op \in {"fft_exec", "fft_many"} THEN <<x.operator, x.layout>> ELSE x.operator
<1>1. m.op \in Operations /\ r.op \in Operations
  BY PlanCachesAssumption
<1>2. ASSUME NEW x \in PlanRequests, x.op \in Operations
      PROVE  Key(x).op_kind = Kind(x) /\ Key(x).modes_extents = x.shape /\ Key(x).tag = Tag(x)
  BY <1>2 DEF Key, Operations, PlanKey, ContractKey, BinaryKey, TrinaryKey, PermutationKey, ReductionKey, FftKey
<1>3. Kind(m) = Kind(r) /\ m.shape = r.shape /\ Tag(m) = Tag(r)
  <2> HIDE DEF Kind, Tag
  <2> QED
    BY <1>1, <1>2
<1>4. ActorOf(r) = "tensor" => m.op = r.op
  BY <1>1, <1>3 DEF Operations, ActorOf
<1>5. m.op \in {"fft_exec", "fft_many"} <=> r.op \in {"fft_exec", "fft_many"}
  BY <1>1, <1>3 DEF Operations
<1>6. m.operator = r.operator
  BY <1>3, <1>5
<1> QED
  BY <1>3, <1>4, <1>6

LEMMA PlansFollow == PlanInv => PlansAccounted
<1> SUFFICES ASSUME PlanInv PROVE PlansAccounted
  OBVIOUS
<1>0. PlanTypes /\ CachedInv /\ BuildInv /\ ObjectsInv /\ HeldInv /\ UsesInv
  BY DEF PlanInv
<1>1. made \in Seq(PlanRequests) /\ DOMAIN made = 1 .. Len(made)
  BY <1>0 DEF PlanTypes
<1>2. \A p \in DOMAIN made : Cached(p) \/ Used(p) => Objects(p, Owned(made[p].op)) \subseteq objects
  BY <1>0, <1>1 DEF HeldInv
<1>3. \A o \in objects : Cached(o[1]) \/ Used(o[1]) \/ InConstruction(o[1])
  BY <1>0 DEF ObjectsInv
<1>4. ASSUME NEW s \in Slots, uses[s] # NoUse, NEW r, r = uses[s].req, NEW m, m = made[uses[s].plan]
      PROVE  m.shape = r.shape /\ m.operator = r.operator /\ (ActorOf(r) = "tensor" => m.op = r.op)
  <2>1. uses[s] \in Launches
    BY <1>0, <1>4 DEF PlanTypes
  <2>2. r \in PlanRequests
    BY <2>1, <1>4 DEF Launches
  <2>3. uses[s].plan \in 1 .. Len(made) /\ Key(m) = Key(r)
    BY <1>0, <1>4 DEF UsesInv
  <2>4. m \in PlanRequests
    BY <2>3, <1>1, <1>4
  <2> QED
    BY <2>2, <2>3, <2>4, KeyTells
<1> QED
  BY <1>2, <1>3, <1>4 DEF PlansAccounted

\* Whatever construction step fails, whatever is evicted and however launches
\* overlap: the objects of TensorActor and FftActor are exactly those of plans
\* that the cache, a launch or a construction holds, a held plan has all of
\* them, and a launch runs a plan made for its own operation, shape and operators.
THEOREM PlansAccountedFor == PlanSpec => []PlansAccounted
  BY PlanInitially, PlanInduction, PlansFollow, PTL DEF PlanSpec

-----------------------------------------------------------------------------
(* The orchestrators. *)

\* What an ask or a request has been answered with.
Replies == {"none", "ok", "err", "dropped"}

Asks == [to : Workers, part : SUBSET Nat, got : Replies]

CallRecords ==
    [state : {"sent", "waiting", "done"}, kind : Collectors \cup Forwarders, size : Nat,
     asked : Seq(Asks), next : Nat \ {0}, answer : Replies]

\* The state that only decides whom a request goes to.
Routed ==
    /\ team \in Teams /\ replicas \in Teams
    /\ current \in Workers /\ cursor \in Nat /\ counters \in [Workers -> Nat]

TeamTypes ==
    /\ calls \in [Calls -> {NoCall} \cup CallRecords]
    /\ inbox \in [Workers -> Seq(Calls \X Nat)]
    /\ up \subseteq Workers
    /\ Routed

\* The asks are the ones a request of this kind and size calls for.
Fit(kind, size, asked, t) ==
    /\ kind \in {"data", "tensor"} =>
        /\ \A s \in 0 .. size - 1 : \E i \in 1 .. Len(asked) : s \in asked[i].part
        /\ \A i \in 1 .. Len(asked) : asked[i].part \subseteq 0 .. size - 1
        /\ \A i, j \in 1 .. Len(asked) : i # j => asked[i].part \cap asked[j].part = {}
    /\ kind = "pipeline" =>
        /\ Len(asked) <= Len(t)
        /\ \A i \in 1 .. Len(asked) : asked[i].to = t[i]
    /\ kind = "moe" =>
        /\ Len(asked) = Chosen(Len(t))
        /\ \A i, j \in 1 .. Len(asked) : asked[i].to = asked[j].to => i = j

Shape(call, t) == Fit(call.kind, call.size, call.asked, t)

\* What a request has been through: before its handler ran nothing was asked; a
\* loop that waits for answer next has had Ok from every ask before it, and a
\* pipeline asks a stage only once the one before it has answered; Ok means the
\* whole shape was asked and answered.
CallOk(call, t) ==
    /\ call.state = "sent" => call.asked = <<>> /\ call.next = 1
    /\ call.state = "waiting" =>
        /\ call.next \in 1 .. Len(call.asked) /\ \A i \in 1 .. call.next - 1 : call.asked[i].got = "ok"
        /\ Shape(call, t)
        /\ call.kind \in Forwarders => Len(call.asked) = 1
        /\ call.kind = "pipeline" => call.next = Len(call.asked)
    /\ call.state = "done" /\ call.answer # "ok" => call.asked = <<>>
    /\ call.state = "done" /\ call.answer = "ok" =>
        /\ \A i \in 1 .. Len(call.asked) : call.asked[i].got = "ok"
        /\ Shape(call, t)
        /\ call.kind = "pipeline" => Len(call.asked) = Len(t)

\* A message in a worker's mailbox is the unanswered ask that it stands for, or
\* its request is over and nobody waits for it.
MessageOk(w, m) ==
    /\ calls[m[1]] # NoCall /\ calls[m[1]].state # "sent"
    /\ calls[m[1]].state = "waiting" => m[2] <= Len(calls[m[1]].asked)
    /\ m[2] \in 1 .. Len(calls[m[1]].asked) => calls[m[1]].asked[m[2]].to = w /\ calls[m[1]].asked[m[2]].got = "none"

\* ... and no ask is in a mailbox twice.
MessagesOk ==
    \A w \in Workers : \A k \in 1 .. Len(inbox[w]) :
        /\ MessageOk(w, inbox[w][k])
        /\ \A l \in 1 .. Len(inbox[w]) : inbox[w][k] = inbox[w][l] => k = l

\* The router asks at least one of its experts and at most all.
LEMMA ChosenFacts ==
    ASSUME NEW n \in Nat \ {0}
    PROVE  Chosen(n) \in 1 .. n
  BY OrchestratorsAssumption DEF Chosen

\* A sequence without repetition has as many elements as places.
LEMMA InjectiveCount ==
    ASSUME NEW S, NEW n \in Nat, NEW t \in [1 .. n -> S], \A i, j \in 1 .. n : t[i] = t[j] => i = j
    PROVE  IsFiniteSet(Range(t)) /\ Cardinality(Range(t)) = n
<1>1. t \in Bijection(1 .. n, Range(t))
  <2>1. DOMAIN t = 1 .. n /\ t \in [1 .. n -> Range(t)]
    BY DEF Range
  <2>2. t \in Injection(1 .. n, Range(t))
    BY <2>1 DEF Injection, IsInjective
  <2>3. t \in Surjection(1 .. n, Range(t))
    BY <2>1 DEF Surjection, Range
  <2> QED
    BY <2>2, <2>3 DEF Bijection
<1>2. ExistsBijection(1 .. n, Range(t))
  BY <1>1 DEF ExistsBijection
<1> QED
  BY <1>2, FS_CountingElements, FS_NatBijection

\* split_batch gives each sample to one replica.
LEMMA SplitFacts ==
    ASSUME NEW n \in Nat \ {0}, NEW size \in Nat
    PROVE  /\ \A s \in 0 .. size - 1 : \E i \in 1 .. n : s \in SplitBatch(i, n, size)
           /\ \A i \in 1 .. n : SplitBatch(i, n, size) \subseteq 0 .. size - 1
           /\ \A i, j \in 1 .. n : i # j => SplitBatch(i, n, size) \cap SplitBatch(j, n, size) = {}
<1>1. ASSUME NEW s \in 0 .. size - 1 PROVE \E i \in 1 .. n : s \in SplitBatch(i, n, size)
  <2>1. s % n \in 0 .. n - 1
    OBVIOUS
  <2>2. PICK r \in 0 .. n - 1 : r = s % n
    BY <2>1
  <2>3. r + 1 \in 1 .. n /\ (r + 1) - 1 = r
    OBVIOUS
  <2>4. s \in SplitBatch(r + 1, n, size)
    BY <2>2, <2>3 DEF SplitBatch
  <2> QED
    BY <2>3, <2>4
<1>2. ASSUME NEW i \in 1 .. n, NEW j \in 1 .. n, NEW s, s \in SplitBatch(i, n, size), s \in SplitBatch(j, n, size)
      PROVE  i = j
  <2>1. i - 1 = j - 1
    BY <1>2 DEF SplitBatch
  <2> QED
    BY <2>1
<1> QED
  BY <1>1, <1>2 DEF SplitBatch

\* How chunks of equal size divide the input.
LEMMA Division ==
    ASSUME NEW a \in Nat, NEW n \in Nat \ {0}
    PROVE  \E q \in Nat : q = a \div n /\ n * q <= a /\ a < n * q + n
<1>1. PICK q \in Nat : q = a \div n
  OBVIOUS
<1>2. n * q <= a /\ a < n * q + n
  BY <1>1
<1> QED
  BY <1>1, <1>2

\* The chunks of the input are disjoint and leave nothing out.
LEMMA ChunkFacts ==
    ASSUME NEW n \in Nat \ {0}, NEW size \in Nat
    PROVE  /\ \A s \in 0 .. size - 1 : \E i \in 1 .. n : s \in Chunk(i, n, size)
           /\ \A i \in 1 .. n : Chunk(i, n, size) \subseteq 0 .. size - 1
           /\ \A i, j \in 1 .. n : i # j => Chunk(i, n, size) \cap Chunk(j, n, size) = {}
<1>1. PICK len : len = (size + n - 1) \div n
  OBVIOUS
<1>2. \A i : Chunk(i, n, size) = {s \in 0 .. size - 1 : (i - 1) * len <= s /\ s < i * len}
  BY <1>1 DEF Chunk
<1>3. len \in Nat /\ size <= n * len
  <2>1. PICK a \in Nat : a = size + n - 1
    OBVIOUS
  <2>2. PICK q \in Nat : q = a \div n /\ n * q <= a /\ a < n * q + n
    BY Division
  <2> QED
    BY <1>1, <2>1, <2>2
<1>4. ASSUME NEW s \in 0 .. size - 1 PROVE \E i \in 1 .. n : s \in Chunk(i, n, size)
  <2>1. len \in Nat \ {0}
    BY <1>3
  <2>2. PICK q \in Nat : q * len <= s /\ s < q * len + len
    <3>1. PICK q \in Nat : q = s \div len /\ len * q <= s /\ s < len * q + len
      BY <2>1, Division
    <3>2. q * len = len * q
      BY <2>1
    <3>3. q * len <= s /\ s < q * len + len
      BY <3>1, <3>2
    <3> QED
      BY <3>3
  <2>3. q < n
    <3> SUFFICES ASSUME q >= n PROVE FALSE
      OBVIOUS
    <3>1. q * len >= n * len
      BY <2>1
    <3> QED
      BY <3>1, <2>1, <2>2, <1>3
  <2>4. q + 1 \in 1 .. n /\ (q + 1) - 1 = q /\ (q + 1) * len = q * len + len
    BY <2>1, <2>3
  <2>5. s \in Chunk(q + 1, n, size)
    BY <1>2, <2>2, <2>4
  <2> QED
    BY <2>4, <2>5
<1>5. ASSUME NEW i \in 1 .. n, NEW j \in 1 .. n, i < j PROVE Chunk(i, n, size) \cap Chunk(j, n, size) = {}
  <2>1. i * len <= (j - 1) * len
    BY <1>3, <1>5
  <2> QED
    BY <1>2, <1>3, <2>1
<1>6. \A i \in 1 .. n : Chunk(i, n, size) \subseteq 0 .. size - 1
  BY <1>2
<1> QED
  BY <1>4, <1>5, <1>6

CallsOk == \A c \in Calls : calls[c] # NoCall => CallOk(calls[c], team)

\* The inductive invariant.
TeamInv == TeamTypes /\ CallsOk /\ MessagesOk

\* A request in a state of its own is a record of the invariant's kind.
LEMMA CallFacts ==
    ASSUME TeamInv, NEW c \in Calls, calls[c].state \in {"sent", "waiting", "done"}
    PROVE  calls[c] # NoCall /\ calls[c] \in CallRecords /\ CallOk(calls[c], team)
<1>1. calls[c] # NoCall
  <2>1. NoCall.state = "none"
    BY DEF NoCall
  <2> QED
    BY <2>1
<1> QED
  BY <1>1 DEF TeamInv, TeamTypes, CallsOk

\* Answering a request forgets its asks unless the answer is Ok.
LEMMA AnsweredFacts ==
    ASSUME NEW call \in CallRecords, NEW r \in Replies, NEW new, new = Answered(call, r)
    PROVE  /\ new \in CallRecords /\ new.state = "done" /\ new.answer = r /\ new.next = 1
           /\ new.kind = call.kind /\ new.size = call.size
           /\ new.asked = IF r = "ok" THEN call.asked ELSE <<>>
<1>1. <<>> \in Seq(Asks)
  OBVIOUS
<1>2. PICK asked \in Seq(Asks) : asked = IF r = "ok" THEN call.asked ELSE <<>>
  BY <1>1 DEF CallRecords
<1>3. new = [call EXCEPT !.state = "done", !.answer = r, !.next = 1, !.asked = asked]
  BY <1>2 DEF Answered
<1>4. /\ new \in CallRecords /\ new.state = "done" /\ new.answer = r /\ new.next = 1
      /\ new.kind = call.kind /\ new.size = call.size /\ new.asked = asked
  <2>1. new = [state |-> "done", kind |-> call.kind, size |-> call.size, asked |-> asked, next |-> 1, answer |-> r]
    BY <1>3 DEF CallRecords
  <2>2. call.kind \in Collectors \cup Forwarders /\ call.size \in Nat
    BY DEF CallRecords
  <2> QED
    BY <2>1, <2>2 DEF CallRecords
<1> QED
  BY <1>2, <1>4

\* What a step may do to a call whose messages stay where they are.
Quiet(old, new) ==
    \/ old = NoCall
    \/ old.state = "sent"
    \/ /\ new.state # "sent"
       /\ new.state = "waiting" => old.state = "waiting" /\ Len(old.asked) <= Len(new.asked)
       /\ \A i \in 1 .. Len(new.asked) :
            i <= Len(old.asked) /\ new.asked[i].to = old.asked[i].to /\ new.asked[i].got = old.asked[i].got

\* A step that changes one call and no mailbox.
LEMMA OneCall ==
    ASSUME TeamInv, NEW c \in Calls, NEW new \in CallRecords,
           calls' = [calls EXCEPT ![c] = new], inbox' = inbox, up' = up, team' = team, Routed',
           CallOk(new, team), Quiet(calls[c], new)
    PROVE  TeamInv'
<1>0. TeamTypes /\ CallsOk /\ MessagesOk
  BY DEF TeamInv
<1>1. /\ calls' \in [Calls -> {NoCall} \cup CallRecords]
      /\ calls'[c] = new /\ \A d \in Calls : d # c => calls'[d] = calls[d]
  BY <1>0 DEF TeamTypes
<1>2. TeamTypes'
  BY <1>0, <1>1 DEF TeamTypes
<1>3. CallsOk'
  BY <1>0, <1>1 DEF CallsOk
<1>4. new # NoCall
  BY DEF CallRecords, NoCall
<1>5. MessagesOk'
  <2> SUFFICES ASSUME NEW w \in Workers, NEW k \in 1 .. Len(inbox[w])
               PROVE  MessageOk(w, inbox[w][k])'
    BY <1>0 DEF MessagesOk
  <2>1. PICK m \in Calls \X Nat : m = inbox[w][k]
    BY <1>0 DEF TeamTypes
  <2>2. m[1] \in Calls /\ m[2] \in Nat /\ MessageOk(w, m)
    BY <2>1, <1>0 DEF MessagesOk
  <2>3. MessageOk(w, m)'
    <3>1. CASE m[1] # c
      BY <3>1, <2>2, <1>1 DEF MessageOk
    <3>2. CASE m[1] = c
      <4>1. calls[c] # NoCall /\ calls[c].state # "sent"
        BY <3>2, <2>2 DEF MessageOk
      <4>2. /\ new.state # "sent"
            /\ new.state = "waiting" => calls[c].state = "waiting" /\ Len(calls[c].asked) <= Len(new.asked)
            /\ \A i \in 1 .. Len(new.asked) :
                 /\ i <= Len(calls[c].asked)
                 /\ new.asked[i].to = calls[c].asked[i].to /\ new.asked[i].got = calls[c].asked[i].got
        BY <4>1 DEF Quiet
      <4>3. Len(new.asked) \in Nat /\ Len(calls[c].asked) \in Nat
        BY <4>1, <1>0 DEF TeamTypes, CallRecords
      <4>4. new.state = "waiting" => m[2] <= Len(new.asked)
        BY <3>2, <2>2, <4>2, <4>3 DEF MessageOk
      <4>5. m[2] \in 1 .. Len(new.asked) => new.asked[m[2]].to = w /\ new.asked[m[2]].got = "none"
        BY <3>2, <2>2, <4>2, <4>3 DEF MessageOk
      <4> QED
        BY <3>2, <4>2, <4>4, <4>5, <1>1, <1>4 DEF MessageOk
    <3> QED
      BY <3>1, <3>2
  <2> QED
    BY <2>1, <2>3
<1> QED
  BY <1>2, <1>3, <1>5 DEF TeamInv

\* A new request has asked nothing.
LEMMA SubmitStep ==
    ASSUME TeamInv, NEW c \in Calls, NEW kind \in Collectors \cup Forwarders, NEW size \in Sizes,
           Submit(c, kind, size)
    PROVE  TeamInv'
<1>1. PICK new : new = [state |-> "sent", kind |-> kind, size |-> size,
                        asked |-> <<>>, next |-> 1, answer |-> "none"]
  OBVIOUS
<1>2. /\ calls[c] = NoCall /\ calls' = [calls EXCEPT ![c] = new]
      /\ inbox' = inbox /\ up' = up /\ team' = team
  BY <1>1 DEF Submit, routing
<1>3. Routed'
  BY DEF Submit, routing, Routed, TeamInv, TeamTypes
<1>4. <<>> \in Seq(Asks)
  OBVIOUS
<1>5. new \in CallRecords
  BY <1>1, <1>4, OrchestratorsAssumption DEF CallRecords, Replies
<1>6. CallOk(new, team)
  BY <1>1 DEF CallOk
<1>7. Quiet(calls[c], new)
  BY <1>2 DEF Quiet
<1> QED
  BY <1>2, <1>3, <1>5, <1>6, <1>7, OneCall

\* Answering: with Ok only what is finished.
LEMMA RefuseStep ==
    ASSUME TeamInv, NEW c \in Calls, NEW r \in Replies, Refuse(c, r), up' = up, team' = team, Routed',
           calls[c].state \in {"sent", "waiting", "done"},
           r = "ok" => /\ Shape(calls[c], team)
                       /\ \A i \in 1 .. Len(calls[c].asked) : calls[c].asked[i].got = "ok"
                       /\ calls[c].kind = "pipeline" => Len(calls[c].asked) = Len(team)
    PROVE  TeamInv'
<1>1. PICK call : call = calls[c]
  OBVIOUS
<1>2. call \in CallRecords /\ call # NoCall /\ CallOk(call, team)
  BY <1>1, CallFacts
<1>3. PICK new : new = Answered(call, r)
  OBVIOUS
<1>4. calls' = [calls EXCEPT ![c] = new] /\ inbox' = inbox
  BY <1>1, <1>3 DEF Refuse
<1>5. /\ new \in CallRecords /\ new.state = "done" /\ new.answer = r /\ new.next = 1
      /\ new.kind = call.kind /\ new.size = call.size
      /\ new.asked = IF r = "ok" THEN call.asked ELSE <<>>
  BY <1>2, <1>3, AnsweredFacts
<1>6. CallOk(new, team)
  <2>1. CASE r = "ok"
    <3>1. Shape(new, team)
      BY <2>1, <1>1, <1>5 DEF Shape
    <3> QED
      BY <2>1, <3>1, <1>1, <1>5 DEF CallOk
  <2>2. CASE r # "ok"
    BY <2>2, <1>5 DEF CallOk
  <2> QED
    BY <2>1, <2>2
<1>7. Quiet(call, new)
  <2>1. CASE r = "ok"
    <3>1. Len(call.asked) \in Nat /\ new.asked = call.asked
      BY <2>1, <1>2, <1>5 DEF CallRecords
    <3> QED
      BY <3>1, <1>5 DEF Quiet
  <2>2. CASE r # "ok"
    <3>1. new.asked = <<>> /\ Len(<<>>) = 0
      BY <2>2, <1>5
    <3> QED
      BY <3>1, <1>5 DEF Quiet
  <2> QED
    BY <2>1, <2>2
<1> QED
  BY <1>1, <1>4, <1>5, <1>6, <1>7, OneCall

\* New asks to different workers: the mailboxes get what the call waits for.
LEMMA TellStep ==
    ASSUME TeamInv, NEW c \in Calls, calls[c].state \in {"sent", "waiting"},
           NEW asks \in Seq(Asks), \A i, j \in 1 .. Len(asks) : asks[i].to = asks[j].to => i = j,
           NEW new \in CallRecords, calls' = [calls EXCEPT ![c] = new],
           inbox' = Delivered(c, Len(calls[c].asked), asks), up' = up, team' = team, Routed',
           CallOk(new, team),
           \/ new.state = "done" /\ new.asked = <<>>
           \/ /\ new.state = "waiting" /\ Len(new.asked) = Len(calls[c].asked) + Len(asks)
              /\ \A i \in 1 .. Len(calls[c].asked) : new.asked[i] = calls[c].asked[i]
              /\ \A i \in 1 .. Len(asks) :
                    /\ new.asked[Len(calls[c].asked) + i].to = asks[i].to
                    /\ asks[i].to \in up => new.asked[Len(calls[c].asked) + i].got = "none"
    PROVE  TeamInv'
<1>0. TeamTypes /\ CallsOk /\ MessagesOk
  BY DEF TeamInv
<1>1. /\ calls' \in [Calls -> {NoCall} \cup CallRecords]
      /\ calls'[c] = new /\ \A d \in Calls : d # c => calls'[d] = calls[d]
  BY <1>0 DEF TeamTypes
<1>2. calls[c] # NoCall /\ calls[c] \in CallRecords /\ CallOk(calls[c], team)
  BY CallFacts
<1>3. PICK n \in Nat : n = Len(calls[c].asked)
  BY <1>2 DEF CallRecords
<1>4. Len(asks) \in Nat /\ DOMAIN asks = 1 .. Len(asks)
  OBVIOUS
<1>5. ASSUME NEW w \in Workers
      PROVE  \/ inbox'[w] = inbox[w]
             \/ \E i \in 1 .. Len(asks) : w \in up /\ asks[i].to = w /\ inbox'[w] = Append(inbox[w], <<c, n + i>>)
  <2> DEFINE Mine == {i \in DOMAIN asks : asks[i].to = w}
  <2>1. inbox'[w] = IF w \in up /\ Mine # {} THEN Append(inbox[w], <<c, n + CHOOSE i \in Mine : TRUE>>) ELSE inbox[w]
    BY <1>3 DEF Delivered
  <2>2. Mine # {} => (CHOOSE i \in Mine : TRUE) \in Mine
    <3> HIDE DEF Mine
    <3> QED
      OBVIOUS
  <2>3. PICK i : i = CHOOSE x \in Mine : TRUE
    OBVIOUS
  <2>4. Mine # {} => i \in 1 .. Len(asks) /\ asks[i].to = w
    BY <2>2, <2>3, <1>4
  <2> HIDE DEF Mine
  <2> QED
    BY <2>1, <2>3, <2>4
<1>6. inbox' \in [Workers -> Seq(Calls \X Nat)]
  <2>1. inbox' = [w \in Workers |-> inbox'[w]]
    BY DEF Delivered
  <2>2. ASSUME NEW w \in Workers PROVE inbox'[w] \in Seq(Calls \X Nat)
    <3>1. inbox[w] \in Seq(Calls \X Nat)
      BY <1>0 DEF TeamTypes
    <3>2. CASE inbox'[w] = inbox[w]
      BY <3>1, <3>2
    <3>3. ASSUME NEW i \in 1 .. Len(asks), inbox'[w] = Append(inbox[w], <<c, n + i>>)
          PROVE  inbox'[w] \in Seq(Calls \X Nat)
      <4>0. n + i \in Nat
        BY <1>3, <1>4
      <4>1. PICK m \in Calls \X Nat : m = <<c, n + i>>
        BY <4>0
      <4>2. inbox'[w] = Append(inbox[w], m)
        BY <3>3, <4>1
      <4>3. Append(inbox[w], m) \in Seq(Calls \X Nat)
        <5>1. PICK S : S = Calls \X Nat
          OBVIOUS
        <5>2. inbox[w] \in Seq(S) /\ m \in S
          BY <3>1, <4>1, <5>1
        <5>3. Append(inbox[w], m) \in Seq(S)
          BY <5>2, AppendProperties
        <5> QED
          BY <5>1, <5>3
      <4> QED
        BY <4>2, <4>3
    <3> QED
      BY <3>2, <3>3, <1>5
  <2> QED
    BY <2>1, <2>2
<1>7. TeamTypes'
  BY <1>0, <1>1, <1>6 DEF TeamTypes
<1>8. CallsOk'
  BY <1>0, <1>1 DEF CallsOk
<1>9. new # NoCall
  BY DEF CallRecords, NoCall
<1>10. Len(new.asked) \in Nat
  BY DEF CallRecords
\* The messages that were there.
<1>11. ASSUME NEW w \in Workers, NEW k \in 1 .. Len(inbox[w]), NEW m, m = inbox[w][k]
       PROVE  MessageOk(w, m)' /\ (m[1] = c => m[2] <= n)
  <2>1. m \in Calls \X Nat /\ MessageOk(w, m)
    BY <1>0, <1>11 DEF TeamTypes, MessagesOk
  <2>2. CASE m[1] # c
    <3>1. m[1] \in Calls
      BY <2>1
    <3> QED
      BY <2>1, <2>2, <3>1, <1>1 DEF MessageOk
  <2>3. CASE m[1] = c
    <3>1. calls[c].state = "waiting" /\ m[2] <= n /\ m[2] \in Nat
      BY <2>1, <2>3, <1>3 DEF MessageOk
    <3>2. CASE new.asked = <<>> /\ new.state = "done"
      <4>1. m[2] \notin 1 .. Len(new.asked)
        BY <3>1, <3>2
      <4> QED
        BY <2>3, <3>1, <3>2, <4>1, <1>1, <1>9 DEF MessageOk
    <3>3. CASE /\ new.state = "waiting" /\ Len(new.asked) = n + Len(asks)
               /\ \A i \in 1 .. n : new.asked[i] = calls[c].asked[i]
      <4>1. m[2] <= Len(new.asked)
        BY <3>1, <3>3, <1>4
      <4>2. m[2] \in 1 .. Len(new.asked) => new.asked[m[2]].to = w /\ new.asked[m[2]].got = "none"
        BY <2>1, <2>3, <3>1, <3>3, <1>3 DEF MessageOk
      <4> QED
        BY <2>3, <3>1, <3>3, <4>1, <4>2, <1>1, <1>9 DEF MessageOk
    <3> QED
      BY <3>1, <3>2, <3>3, <1>3
  <2> QED
    BY <2>1, <2>2, <2>3
\* The one that came.
<1>12. ASSUME NEW w \in up, NEW i \in 1 .. Len(asks), asks[i].to = w, NEW m, m = <<c, n + i>>
       PROVE  MessageOk(w, m)'
  <2>1. m[1] = c /\ m[2] = n + i /\ n + i > n
    BY <1>3, <1>12
  <2>2. CASE new.asked = <<>> /\ new.state = "done"
    <3>1. m[2] \notin 1 .. Len(new.asked)
      BY <2>1, <2>2
    <3> QED
      BY <2>1, <2>2, <3>1, <1>1, <1>9 DEF MessageOk
  <2>3. CASE /\ new.state = "waiting" /\ Len(new.asked) = n + Len(asks)
             /\ new.asked[n + i].to = asks[i].to /\ (asks[i].to \in up => new.asked[n + i].got = "none")
    <3>1. m[2] <= Len(new.asked)
      BY <2>1, <2>3, <1>3, <1>4
    <3> QED
      BY <2>1, <2>3, <3>1, <1>1, <1>9, <1>12 DEF MessageOk
  <2> QED
    BY <2>2, <2>3, <1>3
<1>13. MessagesOk'
  <2> SUFFICES ASSUME NEW w \in Workers, NEW k \in 1 .. Len(inbox'[w]), NEW l \in 1 .. Len(inbox'[w])
               PROVE  MessageOk(w, inbox[w][k])' /\ (inbox'[w][k] = inbox'[w][l] => k = l)
    BY DEF MessagesOk
  <2>1. CASE inbox'[w] = inbox[w]
    <3>1. PICK m : m = inbox[w][k]
      OBVIOUS
    <3>2. MessageOk(w, m)'
      BY <2>1, <3>1, <1>11
    <3>3. inbox[w][k] = inbox[w][l] => k = l
      BY <2>1, <1>0 DEF MessagesOk
    <3> QED
      BY <2>1, <3>1, <3>2, <3>3
  <2>2. CASE inbox'[w] # inbox[w]
    <3>1. PICK i \in 1 .. Len(asks) : w \in up /\ asks[i].to = w /\ inbox'[w] = Append(inbox[w], <<c, n + i>>)
      BY <2>2, <1>5
    <3>2. PICK box \in Seq(Calls \X Nat) : box = inbox[w]
      BY <1>0 DEF TeamTypes
    <3>3. PICK last : last = <<c, n + i>>
      OBVIOUS
    <3>4. inbox'[w] = Append(box, last) /\ last[1] = c /\ last[2] = n + i /\ n + i > n
      BY <3>1, <3>2, <3>3, <1>3
    <3>5. \A x \in 1 .. Len(box) + 1 : inbox'[w][x] = IF x <= Len(box) THEN box[x] ELSE last
      BY <3>2, <3>4
    <3>6. Len(inbox'[w]) = Len(box) + 1 /\ Len(box) \in Nat
      BY <3>2, <3>4
    <3>7. \A x \in 1 .. Len(box) : box[x][1] = c => box[x][2] <= n
      BY <3>2, <1>11
    <3>8. \A x \in 1 .. Len(box) : box[x] # last
      <4> SUFFICES ASSUME NEW x \in 1 .. Len(box), box[x] = last PROVE FALSE
        OBVIOUS
      <4>1. n + i <= n
        BY <3>4, <3>7
      <4> QED
        BY <3>4, <4>1, <1>3
    <3>9. \A x, y \in 1 .. Len(box) : box[x] = box[y] => x = y
      BY <3>2, <1>0 DEF MessagesOk
    <3>10. ASSUME inbox'[w][k] = inbox'[w][l] PROVE k = l
      <4>1. k \in 1 .. Len(box) + 1 /\ l \in 1 .. Len(box) + 1
        BY <3>6
      <4>2. /\ k <= Len(box) => k \in 1 .. Len(box) /\ inbox'[w][k] = box[k]
            /\ ~(k <= Len(box)) => k = Len(box) + 1 /\ inbox'[w][k] = last
        BY <4>1, <3>5, <3>6
      <4>3. /\ l <= Len(box) => l \in 1 .. Len(box) /\ inbox'[w][l] = box[l]
            /\ ~(l <= Len(box)) => l = Len(box) + 1 /\ inbox'[w][l] = last
        BY <4>1, <3>5, <3>6
      <4> QED
        BY <3>10, <4>2, <4>3, <3>8, <3>9
    <3>11. MessageOk(w, last)'
      BY <3>1, <3>3, <1>12
    <3>12. PICK m : m = inbox'[w][k]
      OBVIOUS
    <3>13. MessageOk(w, m)'
      <4>1. CASE k <= Len(box)
        <5>1. k \in 1 .. Len(inbox[w]) /\ m = inbox[w][k]
          BY <4>1, <3>2, <3>5, <3>6, <3>12
        <5> QED
          BY <5>1, <1>11
      <4>2. CASE ~(k <= Len(box))
        BY <4>2, <3>5, <3>6, <3>11, <3>12
      <4> QED
        BY <4>1, <4>2
    <3> QED
      BY <3>10, <3>12, <3>13
  <2> QED
    BY <2>1, <2>2
<1> QED
  BY <1>7, <1>8, <1>13 DEF TeamInv

\* The shape does not depend on the answers.
LEMMA SameFit ==
    ASSUME NEW kind, NEW size, NEW t, NEW a, NEW b, Len(b) = Len(a),
           \A i \in 1 .. Len(a) : b[i].to = a[i].to /\ b[i].part = a[i].part,
           Fit(kind, size, a, t)
    PROVE  Fit(kind, size, b, t)
<1>1. ASSUME kind \in {"data", "tensor"}
      PROVE  /\ \A s \in 0 .. size - 1 : \E i \in 1 .. Len(b) : s \in b[i].part
             /\ \A i \in 1 .. Len(b) : b[i].part \subseteq 0 .. size - 1
             /\ \A i, j \in 1 .. Len(b) : i # j => b[i].part \cap b[j].part = {}
  BY <1>1 DEF Fit
<1>2. ASSUME kind = "pipeline" PROVE Len(b) <= Len(t) /\ \A i \in 1 .. Len(b) : b[i].to = t[i]
  BY <1>2 DEF Fit
<1>3. ASSUME kind = "moe" PROVE Len(b) = Chosen(Len(t)) /\ \A i, j \in 1 .. Len(b) : b[i].to = b[j].to => i = j
  BY <1>3 DEF Fit
<1> QED
  BY <1>1, <1>2, <1>3 DEF Fit

\* The call after the asks went out.
Extended(call, asks, new) ==
    /\ new.state = "waiting" /\ new.next = call.next
    /\ Len(new.asked) = Len(call.asked) + Len(asks)
    /\ \A i \in 1 .. Len(call.asked) : new.asked[i] = call.asked[i]
    /\ \A i \in 1 .. Len(asks) :
        /\ new.asked[Len(call.asked) + i].to = asks[i].to
        /\ new.asked[Len(call.asked) + i].part = asks[i].part
        /\ asks[i].to \in up => new.asked[Len(call.asked) + i].got = "none"

\* Telling the workers extends the call, or ends it when the worker of a forwarder
\* has stopped.
LEMMA ToldFacts ==
    ASSUME NEW call \in CallRecords, NEW asks \in Seq(Asks), \A i \in 1 .. Len(asks) : asks[i].got = "none",
           NEW new, new = Told(call, asks)
    PROVE  /\ new \in CallRecords /\ new.kind = call.kind /\ new.size = call.size
           /\ \/ new.state = "done" /\ new.answer # "ok" /\ new.asked = <<>> /\ call.kind \in Forwarders
              \/ Extended(call, asks, new)
<1>1. PICK closed : closed = [i \in DOMAIN asks |-> IF asks[i].to \in up THEN asks[i]
                                                    ELSE [asks[i] EXCEPT !.got = "dropped"]]
  OBVIOUS
<1>2. Len(asks) \in Nat /\ DOMAIN asks = 1 .. Len(asks) /\ \A i \in 1 .. Len(asks) : asks[i] \in Asks
  OBVIOUS
<1>3. ASSUME NEW i \in 1 .. Len(asks)
      PROVE  /\ closed[i] \in Asks /\ closed[i].to = asks[i].to /\ closed[i].part = asks[i].part
             /\ asks[i].to \in up => closed[i].got = "none"
  <2>1. CASE asks[i].to \in up
    BY <2>1, <1>1, <1>2
  <2>2. CASE asks[i].to \notin up
    <3>1. closed[i] = [asks[i] EXCEPT !.got = "dropped"]
      BY <2>2, <1>1, <1>2
    <3>2. asks[i] \in Asks
      BY <1>2
    <3> QED
      BY <2>2, <3>1, <3>2 DEF Asks, Replies
  <2> QED
    BY <2>1, <2>2
<1>4. closed \in Seq(Asks) /\ Len(closed) = Len(asks)
  <2>1. closed \in [1 .. Len(asks) -> Asks]
    BY <1>1, <1>2, <1>3
  <2> QED
    BY <2>1, <1>2
<1>5. PICK all : all = call.asked \o closed
  OBVIOUS
<1>6. call.asked \in Seq(Asks) /\ Len(call.asked) \in Nat
  BY DEF CallRecords
<1>7. /\ all \in Seq(Asks) /\ Len(all) = Len(call.asked) + Len(closed)
      /\ \A i \in 1 .. Len(call.asked) + Len(closed) :
            all[i] = IF i <= Len(call.asked) THEN call.asked[i] ELSE closed[i - Len(call.asked)]
  <2>1. PICK S : S = Asks
    OBVIOUS
  <2>2. PICK old \in Seq(S) : old = call.asked
    BY <2>1, <1>6
  <2>3. closed \in Seq(S)
    BY <2>1, <1>4
  <2>4. /\ old \o closed \in Seq(S) /\ Len(old \o closed) = Len(old) + Len(closed)
        /\ \A i \in 1 .. Len(old) + Len(closed) :
              (old \o closed)[i] = IF i <= Len(old) THEN old[i] ELSE closed[i - Len(old)]
    BY <2>2, <2>3, ConcatProperties
  <2>5. old \o closed = all
    BY <2>2, <1>5
  <2> QED
    BY <2>1, <2>2, <2>4, <2>5
<1>8. PICK sent : sent = [call EXCEPT !.state = "waiting", !.asked = all]
  OBVIOUS
<1>9. /\ sent \in CallRecords /\ sent.state = "waiting" /\ sent.asked = all /\ sent.next = call.next
      /\ sent.kind = call.kind /\ sent.size = call.size
  BY <1>7, <1>8 DEF CallRecords
<1>10. new = IF call.kind \in Forwarders /\ closed[1].got = "dropped" THEN Answered(sent, "dropped") ELSE sent
  BY <1>1, <1>5, <1>8 DEF Told
<1>11. CASE call.kind \in Forwarders /\ closed[1].got = "dropped"
  <2>1. new = Answered(sent, "dropped") /\ "dropped" \in Replies /\ "dropped" # "ok"
    BY <1>10, <1>11 DEF Replies
  <2>2. /\ new \in CallRecords /\ new.state = "done" /\ new.answer = "dropped"
        /\ new.kind = sent.kind /\ new.size = sent.size /\ new.asked = <<>>
    BY <2>1, <1>9, AnsweredFacts
  <2> QED
    BY <2>1, <2>2, <1>9, <1>11
<1>12. CASE ~(call.kind \in Forwarders /\ closed[1].got = "dropped")
  <2>1. new = sent
    BY <1>10, <1>12
  <2>2. \A i \in 1 .. Len(call.asked) : all[i] = call.asked[i]
    <3>1. PICK k \in Nat : k = Len(closed)
      BY <1>2, <1>4
    <3>2. \A i \in 1 .. Len(call.asked) : i \in 1 .. Len(call.asked) + k /\ i <= Len(call.asked)
      BY <1>6
    <3> QED
      BY <3>1, <3>2, <1>7
  <2>3. ASSUME NEW i \in 1 .. Len(asks) PROVE all[Len(call.asked) + i] = closed[i]
    <3>1. PICK k : k = Len(call.asked) + i
      OBVIOUS
    <3>2. k \in 1 .. Len(call.asked) + Len(closed) /\ ~(k <= Len(call.asked)) /\ k - Len(call.asked) = i
      BY <3>1, <1>2, <1>4, <1>6
    <3> QED
      BY <3>1, <3>2, <1>7
  <2>4. Extended(call, asks, new)
    BY <2>1, <2>2, <2>3, <1>3, <1>4, <1>7, <1>9 DEF Extended
  <2> QED
    BY <2>1, <2>4, <1>9
<1> QED
  BY <1>11, <1>12

\* The first asks of a call.
LEMMA TellFirst ==
    ASSUME TeamInv, NEW c \in Calls, calls[c].state = "sent", NEW asks \in Seq(Asks), Tell(c, asks),
           Len(asks) > 0, \A i \in 1 .. Len(asks) : asks[i].got = "none",
           \A i, j \in 1 .. Len(asks) : asks[i].to = asks[j].to => i = j,
           calls[c].kind \in Forwarders \cup {"pipeline"} => Len(asks) = 1,
           Fit(calls[c].kind, calls[c].size, asks, team),
           up' = up, team' = team, Routed'
    PROVE  TeamInv'
<1>1. PICK call : call = calls[c]
  OBVIOUS
<1>2. call \in CallRecords /\ call # NoCall /\ CallOk(call, team)
  BY <1>1, CallFacts
<1>3. call.asked = <<>> /\ call.next = 1 /\ Len(call.asked) = 0
  BY <1>1, <1>2 DEF CallOk
<1>4. PICK new : new = Told(call, asks)
  OBVIOUS
<1>5. calls' = [calls EXCEPT ![c] = new] /\ inbox' = Delivered(c, Len(calls[c].asked), asks)
  BY <1>1, <1>4 DEF Tell
<1>6. /\ new \in CallRecords /\ new.kind = call.kind /\ new.size = call.size
      /\ \/ new.state = "done" /\ new.answer # "ok" /\ new.asked = <<>> /\ call.kind \in Forwarders
         \/ Extended(call, asks, new)
  BY <1>2, <1>4, ToldFacts
<1>7. CASE new.state = "done" /\ new.answer # "ok" /\ new.asked = <<>>
  <2>1. CallOk(new, team)
    BY <1>7 DEF CallOk
  <2> QED
    BY <2>1, <1>5, <1>6, <1>7, TellStep
<1>8. CASE Extended(call, asks, new)
  <2>1. Len(asks) \in Nat /\ Len(asks) > 0
    OBVIOUS
  <2>2. \A i \in 1 .. Len(asks) : 0 + i = i
    BY <2>1
  <2>3. /\ new.state = "waiting" /\ new.next = 1 /\ Len(new.asked) = Len(asks)
        /\ \A i \in 1 .. Len(asks) : new.asked[i].to = asks[i].to /\ new.asked[i].part = asks[i].part
    BY <1>3, <1>8, <2>1, <2>2 DEF Extended
  <2>4. Shape(new, team)
    <3>1. PICK asked : asked = new.asked
      OBVIOUS
    <3>2. Fit(call.kind, call.size, asked, team)
      BY <2>3, <3>1, <1>1, SameFit
    <3> QED
      BY <3>1, <3>2, <1>6 DEF Shape
  <2>5. CallOk(new, team)
    <3>1. new.next \in 1 .. Len(new.asked) /\ 1 .. new.next - 1 = {}
      BY <2>1, <2>3
    <3>2. new.kind \in Forwarders \cup {"pipeline"} => Len(new.asked) = 1
      BY <2>3, <1>1, <1>6
    <3> QED
      BY <2>3, <2>4, <3>1, <3>2 DEF CallOk
  <2>6. /\ Len(new.asked) = Len(calls[c].asked) + Len(asks)
        /\ \A i \in 1 .. Len(calls[c].asked) : new.asked[i] = calls[c].asked[i]
        /\ \A i \in 1 .. Len(asks) :
              /\ new.asked[Len(calls[c].asked) + i].to = asks[i].to
              /\ asks[i].to \in up => new.asked[Len(calls[c].asked) + i].got = "none"
    BY <1>1, <1>8 DEF Extended
  <2> QED
    BY <2>3, <2>5, <2>6, <1>5, <1>6, TellStep
<1> QED
  BY <1>6, <1>7, <1>8

\* What the assumption says of a team.
LEMMA TeamFacts ==
    ASSUME NEW t \in Teams
    PROVE  /\ t \in Seq(Workers) /\ Len(t) \in Nat /\ t \in [1 .. Len(t) -> Workers]
           /\ \A i, j \in 1 .. Len(t) : t[i] = t[j] => i = j
           /\ (t = <<>> <=> Len(t) = 0)
<1>1. t \in Seq(Workers) /\ IsInjective(t)
  BY OrchestratorsAssumption
<1>2. Len(t) \in Nat /\ t \in [1 .. Len(t) -> Workers] /\ DOMAIN t = 1 .. Len(t)
  BY <1>1
<1>3. \A i, j \in 1 .. Len(t) : t[i] = t[j] => i = j
  BY <1>1, <1>2 DEF IsInjective
<1>4. t = <<>> <=> Len(t) = 0
  BY <1>1
<1> QED
  BY <1>1, <1>2, <1>3, <1>4

\* The asks to the workers x, each for its part.
AsksTo(n, x, y) == [i \in 1 .. n |-> Asking(x[i], y[i])]

LEMMA AsksFacts ==
    ASSUME NEW n \in Nat, NEW x \in [1 .. n -> Workers], NEW y \in [1 .. n -> SUBSET Nat],
           NEW asks, asks = AsksTo(n, x, y)
    PROVE  /\ asks \in Seq(Asks) /\ Len(asks) = n
           /\ \A i \in 1 .. n : asks[i].to = x[i] /\ asks[i].part = y[i] /\ asks[i].got = "none"
<1>1. ASSUME NEW i \in 1 .. n
      PROVE  asks[i] \in Asks /\ asks[i].to = x[i] /\ asks[i].part = y[i] /\ asks[i].got = "none"
  <2>1. asks[i] = [to |-> x[i], part |-> y[i], got |-> "none"]
    BY DEF Asking, AsksTo
  <2>2. x[i] \in Workers /\ y[i] \in SUBSET Nat
    OBVIOUS
  <2> QED
    BY <2>1, <2>2 DEF Asks, Replies
<1>2. asks \in [1 .. n -> Asks]
  BY <1>1 DEF AsksTo
<1>3. asks \in Seq(Asks) /\ Len(asks) = n
  BY <1>2
<1> QED
  BY <1>1, <1>3

\* The asks are one ask, to the worker w.
OneTo(asks, w) == Len(asks) = 1 /\ asks[1].to = w /\ asks[1].got = "none"

LEMMA OneAsk ==
    ASSUME NEW w \in Workers, NEW part \in SUBSET Nat, NEW a, a = Asking(w, part), NEW asks, asks = <<a>>
    PROVE  asks \in Seq(Asks) /\ OneTo(asks, w)
<1>1. a = [to |-> w, part |-> part, got |-> "none"]
  BY DEF Asking
<1>2. a \in Asks /\ a.to = w /\ a.got = "none"
  BY <1>1 DEF Asks, Replies
<1> QED
  BY <1>2 DEF OneTo

\* What the handlers of a trainer have in common.
LEMMA ShareStep ==
    ASSUME TeamInv, NEW c \in Calls, NEW t \in Teams, t # <<>>, NEW y \in [1 .. Len(t) -> SUBSET Nat],
           calls[c].state = "sent", calls[c].kind \in {"data", "tensor"},
           \A s \in 0 .. calls[c].size - 1 : \E i \in 1 .. Len(t) : s \in y[i],
           \A i \in 1 .. Len(t) : y[i] \subseteq 0 .. calls[c].size - 1,
           \A i, j \in 1 .. Len(t) : i # j => y[i] \cap y[j] = {},
           Tell(c, [i \in 1 .. Len(t) |-> Asking(t[i], y[i])]), up' = up, team' = team, Routed'
    PROVE  TeamInv'
<1>1. PICK n \in Nat : n = Len(t)
  BY TeamFacts
<1>2. n > 0 /\ t \in [1 .. n -> Workers] /\ \A i, j \in 1 .. n : t[i] = t[j] => i = j
  <2>1. /\ t \in [1 .. Len(t) -> Workers] /\ (t = <<>> <=> Len(t) = 0)
        /\ \A i, j \in 1 .. Len(t) : t[i] = t[j] => i = j
    BY TeamFacts
  <2> QED
    BY <2>1, <1>1
<1>3. PICK asks : asks = AsksTo(n, t, y)
  OBVIOUS
<1>4. /\ asks \in Seq(Asks) /\ Len(asks) = n
      /\ \A i \in 1 .. n : asks[i].to = t[i] /\ asks[i].part = y[i] /\ asks[i].got = "none"
  <2>1. y \in [1 .. n -> SUBSET Nat]
    BY <1>1
  <2> QED
    BY <2>1, <1>2, <1>3, AsksFacts
<1>5. \A i, j \in 1 .. Len(asks) : asks[i].to = asks[j].to => i = j
  BY <1>2, <1>4
<1>6. Fit(calls[c].kind, calls[c].size, asks, team)
  <2>1. \A s \in 0 .. calls[c].size - 1 : \E i \in 1 .. Len(asks) : s \in asks[i].part
    BY <1>1, <1>4
  <2>2. \A i \in 1 .. Len(asks) : asks[i].part \subseteq 0 .. calls[c].size - 1
    BY <1>1, <1>4
  <2>3. \A i, j \in 1 .. Len(asks) : i # j => asks[i].part \cap asks[j].part = {}
    BY <1>1, <1>4
  <2> QED
    BY <2>1, <2>2, <2>3 DEF Fit
<1>7. calls[c].kind \notin Forwarders \cup {"pipeline"}
  BY DEF Forwarders
<1>8. Tell(c, asks)
  BY <1>1, <1>3 DEF AsksTo
<1> QED
  BY <1>2, <1>4, <1>5, <1>6, <1>7, <1>8, TellFirst

\* DataParallelTrainer: each sample goes to one replica.
LEMMA DataHandler ==
    ASSUME TeamInv, NEW c \in Calls, DataStep(c)
    PROVE  TeamInv'
<1>1. /\ calls[c].state = "sent" /\ calls[c].kind = "data" /\ up' = up /\ team' = team /\ Routed'
      /\ replicas \in Teams
  BY DEF DataStep, Handling, routing, Routed, TeamInv, TeamTypes
<1>2. calls[c].size \in Nat
  BY <1>1, CallFacts DEF CallRecords
<1>3. Len(replicas) \in Nat /\ (replicas = <<>> <=> Len(replicas) = 0)
  BY <1>1, TeamFacts
<1>4. CASE Len(replicas) = 0
  <2>1. Refuse(c, "err") /\ "err" \in Replies /\ "err" # "ok"
    BY <1>4 DEF DataStep, Replies
  <2> QED
    BY <2>1, <1>1, RefuseStep
<1>5. CASE Len(replicas) # 0
  <2>1. PICK n \in Nat \ {0} : n = Len(replicas)
    BY <1>3, <1>5
  <2>2. PICK t \in Teams : t = replicas /\ t # <<>>
    BY <1>1, <1>3, <1>5
  <2>3. PICK y : y = [i \in 1 .. n |-> SplitBatch(i, n, calls[c].size)]
    OBVIOUS
  <2>4. /\ \A s \in 0 .. calls[c].size - 1 : \E i \in 1 .. n : s \in SplitBatch(i, n, calls[c].size)
        /\ \A i \in 1 .. n : SplitBatch(i, n, calls[c].size) \subseteq 0 .. calls[c].size - 1
        /\ \A i, j \in 1 .. n : i # j => SplitBatch(i, n, calls[c].size) \cap SplitBatch(j, n, calls[c].size) = {}
    BY <1>2, SplitFacts
  <2>5. 0 .. calls[c].size - 1 \subseteq Nat
    BY <1>2
  <2>6. /\ y \in [1 .. n -> SUBSET Nat]
        /\ \A s \in 0 .. calls[c].size - 1 : \E i \in 1 .. n : s \in y[i]
        /\ \A i \in 1 .. n : y[i] \subseteq 0 .. calls[c].size - 1
        /\ \A i, j \in 1 .. n : i # j => y[i] \cap y[j] = {}
    BY <2>3, <2>4, <2>5
  <2>7. Tell(c, [i \in 1 .. n |-> Asking(t[i], y[i])])
    <3>1. Tell(c, [i \in 1 .. n |-> Asking(replicas[i], SplitBatch(i, n, calls[c].size))])
      BY <2>1, <1>5 DEF DataStep
    <3>2. [i \in 1 .. n |-> Asking(replicas[i], SplitBatch(i, n, calls[c].size))]
            = [i \in 1 .. n |-> Asking(t[i], y[i])]
      BY <2>2, <2>3
    <3> QED
      BY <3>1, <3>2
  <2> QED
    BY <2>1, <2>2, <2>6, <2>7, <1>1, ShareStep
<1> QED
  BY <1>4, <1>5

\* TensorParallelTrainer: the chunks cover the input.
LEMMA TensorHandler ==
    ASSUME TeamInv, NEW c \in Calls, TensorStep(c)
    PROVE  TeamInv'
<1>1. /\ calls[c].state = "sent" /\ calls[c].kind = "tensor" /\ up' = up /\ team' = team /\ Routed'
      /\ team \in Teams
  BY DEF TensorStep, Handling, routing, Routed, TeamInv, TeamTypes
<1>2. calls[c].size \in Nat
  BY <1>1, CallFacts DEF CallRecords
<1>3. Len(team) \in Nat /\ (team = <<>> <=> Len(team) = 0)
  BY <1>1, TeamFacts
<1>4. CASE Len(team) = 0
  <2>1. Refuse(c, "err") /\ "err" \in Replies /\ "err" # "ok"
    BY <1>4 DEF TensorStep, Replies
  <2> QED
    BY <2>1, <1>1, RefuseStep
<1>5. CASE Len(team) # 0
  <2>1. PICK n \in Nat \ {0} : n = Len(team)
    BY <1>3, <1>5
  <2>2. PICK t \in Teams : t = team /\ t # <<>>
    BY <1>1, <1>3, <1>5
  <2>3. PICK y : y = [i \in 1 .. n |-> Chunk(i, n, calls[c].size)]
    OBVIOUS
  <2>4. /\ \A s \in 0 .. calls[c].size - 1 : \E i \in 1 .. n : s \in Chunk(i, n, calls[c].size)
        /\ \A i \in 1 .. n : Chunk(i, n, calls[c].size) \subseteq 0 .. calls[c].size - 1
        /\ \A i, j \in 1 .. n : i # j => Chunk(i, n, calls[c].size) \cap Chunk(j, n, calls[c].size) = {}
    BY <1>2, ChunkFacts
  <2>5. 0 .. calls[c].size - 1 \subseteq Nat
    BY <1>2
  <2>6. /\ y \in [1 .. n -> SUBSET Nat]
        /\ \A s \in 0 .. calls[c].size - 1 : \E i \in 1 .. n : s \in y[i]
        /\ \A i \in 1 .. n : y[i] \subseteq 0 .. calls[c].size - 1
        /\ \A i, j \in 1 .. n : i # j => y[i] \cap y[j] = {}
    BY <2>3, <2>4, <2>5
  <2>7. Tell(c, [i \in 1 .. n |-> Asking(t[i], y[i])])
    <3>1. Tell(c, [i \in 1 .. n |-> Asking(team[i], Chunk(i, n, calls[c].size))])
      BY <2>1, <1>5 DEF TensorStep
    <3>2. [i \in 1 .. n |-> Asking(team[i], Chunk(i, n, calls[c].size))]
            = [i \in 1 .. n |-> Asking(t[i], y[i])]
      BY <2>2, <2>3
    <3> QED
      BY <3>1, <3>2
  <2> QED
    BY <2>1, <2>2, <2>6, <2>7, <1>1, ShareStep
<1> QED
  BY <1>4, <1>5

\* PipelineParallelTrainer: the first stage is asked first.
LEMMA PipelineHandler ==
    ASSUME TeamInv, NEW c \in Calls, PipelineStep(c)
    PROVE  TeamInv'
<1>1. /\ calls[c].state = "sent" /\ calls[c].kind = "pipeline" /\ up' = up /\ team' = team /\ Routed'
      /\ team \in Teams
  BY DEF PipelineStep, Handling, routing, Routed, TeamInv, TeamTypes
<1>2. CASE team = <<>>
  <2>1. Refuse(c, "err") /\ "err" \in Replies /\ "err" # "ok"
    BY <1>2 DEF PipelineStep, Replies
  <2> QED
    BY <2>1, <1>1, RefuseStep
<1>3. CASE team # <<>>
  <2>1. /\ team \in Seq(Workers) /\ Len(team) \in Nat /\ Len(team) # 0
    BY <1>1, <1>3, TeamFacts
  <2>2. PICK w \in Workers : w = team[1]
    BY <2>1
  <2>3. PICK asks : asks = <<Asking(w, {1})>>
    OBVIOUS
  <2>4. asks \in Seq(Asks) /\ Len(asks) = 1 /\ asks[1].to = w /\ asks[1].got = "none"
    <3>0. {1} \subseteq Nat
      OBVIOUS
    <3>1. PICK part \in SUBSET Nat : part = {1}
      BY <3>0, Zenon
    <3>2. PICK a : a = Asking(w, part)
      OBVIOUS
    <3>3. asks = <<a>>
      BY <2>3, <3>1, <3>2
    <3>4. asks \in Seq(Asks) /\ OneTo(asks, w)
      BY <3>2, <3>3, OneAsk
    <3> QED
      BY <3>4 DEF OneTo
  <2>5. Tell(c, asks)
    BY <2>2, <2>3, <1>3 DEF PipelineStep
  <2>6. Fit(calls[c].kind, calls[c].size, asks, team)
    BY <2>1, <2>2, <2>4, <1>1 DEF Fit
  <2>7. \A i \in 1 .. Len(asks) : i = 1
    BY <2>4
  <2>8. /\ \A i \in 1 .. Len(asks) : asks[i].got = "none"
        /\ \A i, j \in 1 .. Len(asks) : asks[i].to = asks[j].to => i = j
    BY <2>4, <2>7
  <2> QED
    <3>1. Len(asks) > 0
      BY <2>4
    <3> QED
      BY <2>4, <2>5, <2>6, <2>8, <3>1, <1>1, TellFirst
<1> QED
  BY <1>2, <1>3

\* The router asks as many different experts as it chose.
LEMMA MoeHandler ==
    ASSUME TeamInv, NEW c \in Calls, MoeRun(c)
    PROVE  TeamInv'
<1>1. /\ calls[c].state = "sent" /\ calls[c].kind = "moe" /\ up' = up /\ team' = team /\ Routed'
      /\ team \in Teams
  BY DEF MoeRun, Handling, routing, Routed, TeamInv, TeamTypes
<1>2. ASSUME NEW r \in {"err", "dropped"}, Refuse(c, r) PROVE TeamInv'
  BY <1>1, <1>2, RefuseStep DEF Replies
<1>3. PICK n \in Nat : n = Len(team)
  BY <1>1, TeamFacts
<1>4. ASSUME n > 0, NEW order \in SetToSeqs(Range(team)),
             Tell(c, [i \in 1 .. Chosen(n) |-> Asking(order[i], 0 .. calls[c].size - 1)])
      PROVE  TeamInv'
  <2>1. Range(team) \subseteq Workers /\ Cardinality(Range(team)) = n
    <3>1. team \in [1 .. n -> Workers] /\ \A i, j \in 1 .. n : team[i] = team[j] => i = j
      <4>1. team \in [1 .. Len(team) -> Workers] /\ \A i, j \in 1 .. Len(team) : team[i] = team[j] => i = j
        BY <1>1, TeamFacts
      <4> QED
        BY <4>1, <1>3
    <3>2. Cardinality(Range(team)) = n
      BY <3>1, InjectiveCount
    <3> QED
      BY <3>1, <3>2 DEF Range
  <2>2. order \in [1 .. n -> Workers] /\ \A i, j \in 1 .. n : i # j => order[i] # order[j]
    BY <2>1, <1>4 DEF SetToSeqs
  <2>3. PICK m \in 1 .. n : m = Chosen(n)
    BY <1>3, <1>4, ChosenFacts
  <2>4. PICK x \in [1 .. m -> Workers] : \A i \in 1 .. m : x[i] = order[i]
    <3>1. [i \in 1 .. m |-> order[i]] \in [1 .. m -> Workers]
      BY <2>2, <2>3
    <3> QED
      BY <3>1
  <2>5. calls[c].size \in Nat
    BY <1>1, CallFacts DEF CallRecords
  <2>6. PICK y \in [1 .. m -> SUBSET Nat] : \A i \in 1 .. m : y[i] = 0 .. calls[c].size - 1
    <3>1. 0 .. calls[c].size - 1 \in SUBSET Nat
      BY <2>5
    <3>2. [i \in 1 .. m |-> 0 .. calls[c].size - 1] \in [1 .. m -> SUBSET Nat]
      BY <3>1
    <3> QED
      BY <3>2
  <2>7. PICK asks : asks = AsksTo(m, x, y)
    OBVIOUS
  <2>8. Tell(c, asks)
    <3>1. asks = [i \in 1 .. Chosen(n) |-> Asking(order[i], 0 .. calls[c].size - 1)]
      BY <2>3, <2>4, <2>6, <2>7 DEF AsksTo
    <3> QED
      BY <3>1, <1>4
  <2>9. /\ asks \in Seq(Asks) /\ Len(asks) = m /\ m > 0
        /\ \A i \in 1 .. m : asks[i].to = x[i] /\ asks[i].part = y[i] /\ asks[i].got = "none"
    <3>1. m \in Nat /\ m > 0
      BY <1>3, <2>3
    <3> QED
      BY <3>1, <2>4, <2>6, <2>7, AsksFacts
  <2>10. \A i, j \in 1 .. m : asks[i].to = asks[j].to => i = j
    <3>1. \A i \in 1 .. m : i \in 1 .. n
      BY <1>3, <2>3
    <3> QED
      BY <3>1, <2>2, <2>4, <2>9
  <2>11. Fit(calls[c].kind, calls[c].size, asks, team)
    BY <2>3, <2>9, <2>10, <1>1, <1>3 DEF Fit
  <2>12. calls[c].kind \notin Forwarders \cup {"pipeline"}
    BY <1>1 DEF Forwarders
  <2> QED
    BY <2>8, <2>9, <2>10, <2>11, <2>12, <1>1, TellFirst
<1>5. \/ Refuse(c, "err")
      \/ Refuse(c, "dropped")
      \/ /\ n > 0
         /\ \E order \in SetToSeqs(Range(team)) :
               Tell(c, [i \in 1 .. Chosen(n) |-> Asking(order[i], 0 .. calls[c].size - 1)])
  BY <1>3 DEF MoeRun
<1> QED
  BY <1>2, <1>4, <1>5

\* A forwarder tells one worker.
LEMMA ForwardStep ==
    ASSUME TeamInv, NEW c \in Calls, calls[c].state = "sent", calls[c].kind \in Forwarders,
           NEW w \in Workers, Tell(c, <<Asking(w, {1})>>), up' = up, team' = team, Routed'
    PROVE  TeamInv'
<1>1. PICK asks : asks = <<Asking(w, {1})>>
  OBVIOUS
<1>2. asks \in Seq(Asks) /\ Len(asks) = 1 /\ asks[1].to = w /\ asks[1].got = "none"
  <2>1. PICK part \in SUBSET Nat : part = {1}
    OBVIOUS
  <2>2. PICK a : a = Asking(w, part)
    OBVIOUS
  <2>3. asks = <<a>>
    BY <1>1, <2>1, <2>2
  <2>4. asks \in Seq(Asks) /\ OneTo(asks, w)
    BY <2>2, <2>3, OneAsk
  <2> QED
    BY <2>4 DEF OneTo
<1>3. \A i \in 1 .. Len(asks) : i = 1
  BY <1>2
<1>4. /\ \A i \in 1 .. Len(asks) : asks[i].got = "none"
      /\ \A i, j \in 1 .. Len(asks) : asks[i].to = asks[j].to => i = j
  BY <1>2, <1>3
<1>5. Fit(calls[c].kind, calls[c].size, asks, team)
  BY DEF Fit, Forwarders
<1>6. Tell(c, asks)
  BY <1>1
<1>7. Len(asks) > 0
  BY <1>2
<1> QED
  BY <1>2, <1>4, <1>5, <1>6, <1>7, TellFirst

\* ModelHotSwapServer forwards to the current backend.
LEMMA PredictHandler ==
    ASSUME TeamInv, NEW c \in Calls, Predict(c)
    PROVE  TeamInv'
<1>1. /\ calls[c].state = "sent" /\ calls[c].kind = "hot_swap" /\ up' = up /\ team' = team /\ Routed'
      /\ current \in Workers /\ Tell(c, <<Asking(current, {1})>>)
  BY DEF Predict, Handling, routing, Routed, TeamInv, TeamTypes
<1>2. PICK w \in Workers : w = current
  BY <1>1
<1>3. calls[c].kind \in Forwarders
  BY <1>1 DEF Forwarders
<1> QED
  BY <1>1, <1>2, <1>3, ForwardStep

\* A set of numbers has a smallest.
LEMMA Smallest ==
    ASSUME NEW T, T \subseteq Nat, T # {}
    PROVE  \E v \in T : \A x \in T : v <= x
<1>1. PICK R : R = OpToRel(<, Nat)
  OBVIOUS
<1>2. IsWellFoundedOn(R, Nat)
  BY <1>1, NatLessThanWellFounded
<1>3. PICK v \in T : \A x \in T : ~(<<x, v>> \in R)
  BY <1>2, WFMin
<1>4. \A x \in Nat : <<x, v>> \in R <=> x < v
  BY <1>1 DEF OpToRel
<1>5. ASSUME NEW x \in T PROVE v <= x
  <2>1. x \in Nat /\ v \in Nat
    OBVIOUS
  <2>2. ~(x < v)
    BY <2>1, <1>3, <1>4
  <2> QED
    BY <2>1, <2>2
<1> QED
  BY <1>5

\* Some member of the team has the smallest load, the first of those is chosen.
LEMMA LeastLoadedFacts ==
    ASSUME team \in Teams, team # <<>>, counters \in [Workers -> Nat]
    PROVE  LeastLoaded \in 1 .. Len(team)
<1>1. PICK n \in Nat : n = Len(team) /\ n > 0 /\ team \in [1 .. n -> Workers] /\ DOMAIN team = 1 .. n
  <2>1. Len(team) \in Nat /\ team \in [1 .. Len(team) -> Workers] /\ (team = <<>> <=> Len(team) = 0)
    BY TeamFacts
  <2>2. Len(team) > 0
    BY <2>1
  <2> QED
    BY <2>1, <2>2
<1>2. \A i \in 1 .. n : counters[team[i]] \in Nat
  BY <1>1
<1>3. PICK v \in {counters[team[i]] : i \in 1 .. n} : \A x \in {counters[team[i]] : i \in 1 .. n} : v <= x
  <2> DEFINE T == {counters[team[i]] : i \in 1 .. n}
  <2>1. T \subseteq Nat
    BY <1>2
  <2>2. counters[team[1]] \in T
    BY <1>1
  <2> HIDE DEF T
  <2>3. \E v \in T : \A x \in T : v <= x
    BY <2>1, <2>2, Smallest
  <2> QED
    BY <2>3 DEF T
<1>4. v \in Nat /\ \A i \in 1 .. n : v <= counters[team[i]]
  BY <1>2, <1>3
<1>5. PICK i \in {j \in 1 .. n : counters[team[j]] = v} :
          \A j \in {j \in 1 .. n : counters[team[j]] = v} : i <= j
  <2> DEFINE T == {j \in 1 .. n : counters[team[j]] = v}
  <2>1. T \subseteq Nat /\ T # {}
    BY <1>1, <1>3
  <2> HIDE DEF T
  <2>2. \E i \in T : \A j \in T : i <= j
    BY <2>1, Smallest
  <2> QED
    BY <2>2 DEF T
<1>6. i \in DOMAIN team /\ \A j \in DOMAIN team :
          counters[team[i]] < counters[team[j]] \/ (counters[team[i]] = counters[team[j]] /\ i <= j)
  BY <1>1, <1>2, <1>4, <1>5
<1>7. LeastLoaded \in DOMAIN team
  BY <1>6 DEF LeastLoaded
<1> QED
  BY <1>1, <1>7

\* ModelReplicaPool forwards to the replica it picked.
LEMMA PoolHandler ==
    ASSUME TeamInv, NEW c \in Calls, NEW kind \in {"round_robin", "least_loaded"}, PoolSubmit(c, kind)
    PROVE  TeamInv'
<1>1. /\ calls[c].state = "sent" /\ calls[c].kind = kind /\ kind \in Forwarders
      /\ up' = up /\ team' = team /\ replicas' = replicas /\ current' = current
      /\ team \in Teams /\ replicas \in Teams /\ current \in Workers
      /\ cursor \in Nat /\ counters \in [Workers -> Nat]
  BY DEF PoolSubmit, Handling, Forwarders, Routed, TeamInv, TeamTypes
<1>2. CASE team = <<>>
  <2>1. Refuse(c, "err") /\ "err" \in Replies /\ "err" # "ok" /\ cursor' = cursor /\ counters' = counters
    BY <1>2 DEF PoolSubmit, Replies
  <2>2. Routed'
    BY <1>1, <2>1 DEF Routed
  <2> QED
    BY <2>1, <2>2, <1>1, RefuseStep
<1>3. CASE team # <<>>
  <2>1. PICK i : i = IF kind = "round_robin" THEN (cursor % Len(team)) + 1 ELSE LeastLoaded
    OBVIOUS
  <2>2. /\ Tell(c, <<Asking(team[i], {1})>>)
        /\ cursor' = IF kind = "round_robin" THEN cursor + 1 ELSE cursor
        /\ counters' = [counters EXCEPT ![team[i]] = @ + 1]
    BY <2>1, <1>3 DEF PoolSubmit
  <2>3. Len(team) \in Nat \ {0} /\ team \in Seq(Workers)
    BY <1>1, <1>3, TeamFacts
  <2>4. i \in 1 .. Len(team)
    <3>1. CASE kind = "round_robin"
      <4>1. cursor % Len(team) \in 0 .. Len(team) - 1
        BY <1>1, <2>3
      <4> QED
        BY <2>1, <2>3, <3>1, <4>1
    <3>2. CASE kind # "round_robin"
      BY <2>1, <3>2, <1>1, <1>3, LeastLoadedFacts
    <3> QED
      BY <3>1, <3>2
  <2>5. PICK w \in Workers : w = team[i]
    BY <2>3, <2>4
  <2>6. counters' = [counters EXCEPT ![w] = counters[w] + 1] /\ cursor' \in Nat
    BY <2>2, <2>5, <1>1
  <2>7. Routed'
    BY <2>6, <1>1 DEF Routed
  <2> QED
    BY <2>2, <2>5, <2>7, <1>1, ForwardStep
<1> QED
  BY <1>2, <1>3

-----------------------------------------------------------------------------

\* A collector that hears a failure answers with it and waits no longer.
LEMMA FailureHandler ==
    ASSUME TeamInv, NEW c \in Calls, CollectFailure(c)
    PROVE  TeamInv'
<1>1. /\ calls[c].state = "waiting" /\ Refuse(c, "err") /\ up' = up /\ team' = team /\ Routed'
  BY DEF CollectFailure, Collecting, routing, Routed, TeamInv, TeamTypes
<1>2. "err" \in Replies /\ "err" # "ok"
  BY DEF Replies
<1> QED
  BY <1>1, <1>2, RefuseStep

\* A collector that hears Ok waits for the next answer, asks the next stage, or
\* answers Ok because this was the last.
LEMMA OkHandler ==
    ASSUME TeamInv, NEW c \in Calls, CollectOk(c)
    PROVE  TeamInv'
<1>1. PICK call : call = calls[c]
  OBVIOUS
<1>2. /\ call.state = "waiting" /\ call.kind \in Collectors /\ call.asked[call.next].got = "ok"
      /\ up' = up /\ team' = team /\ Routed' /\ team \in Teams
  BY <1>1 DEF CollectOk, Collecting, Awaited, routing, Routed, TeamInv, TeamTypes
<1>3. call \in CallRecords /\ call # NoCall /\ CallOk(call, team)
  BY <1>1, <1>2, CallFacts
<1>4. /\ call.next \in 1 .. Len(call.asked) /\ \A i \in 1 .. call.next - 1 : call.asked[i].got = "ok"
      /\ Shape(call, team) /\ (call.kind = "pipeline" => call.next = Len(call.asked))
      /\ call.asked \in Seq(Asks) /\ Len(call.asked) \in Nat /\ call.next \in Nat \ {0}
      /\ call.kind \notin Forwarders
  BY <1>2, <1>3 DEF CallOk, CallRecords, Collectors, Forwarders
<1>5. \A i \in 1 .. call.next : call.asked[i].got = "ok"
  BY <1>2, <1>4
<1>6. ASSUME call.next < Len(call.asked), calls' = [calls EXCEPT ![c].next = @ + 1], inbox' = inbox
      PROVE  TeamInv'
  <2>1. PICK new : new = [call EXCEPT !.next = call.next + 1]
    OBVIOUS
  <2>2. calls' = [calls EXCEPT ![c] = new]
    BY <2>1, <1>1, <1>6
  <2>3. /\ new \in CallRecords /\ new.next = call.next + 1 /\ new.state = call.state /\ new.kind = call.kind
        /\ new.size = call.size /\ new.asked = call.asked
    BY <2>1, <1>3 DEF CallRecords
  <2>4. Shape(new, team)
    BY <2>3, <1>4 DEF Shape
  <2>5. new.next \in 1 .. Len(new.asked) /\ new.next - 1 = call.next
    BY <2>3, <1>4, <1>6
  <2>6. CallOk(new, team)
    <3>1. new.kind # "pipeline"
      BY <2>3, <1>4, <1>6
    <3>2. new.kind \notin Forwarders /\ new.state = "waiting"
      BY <2>3, <1>2, <1>4
    <3> QED
      BY <2>3, <2>4, <2>5, <3>1, <3>2, <1>5 DEF CallOk
  <2>7. Quiet(call, new)
    BY <2>3, <1>2, <1>4 DEF Quiet
  <2> QED
    BY <2>2, <2>3, <2>6, <2>7, <1>1, <1>2, <1>6, OneCall
<1>7. ASSUME call.next = Len(call.asked), call.kind = "pipeline" => call.next = Len(team),
             \E r \in Outcomes(call) : Refuse(c, r)
      PROVE  TeamInv'
  <2>1. PICK r \in Outcomes(call) : Refuse(c, r)
    BY <1>7
  <2>2. r \in Replies /\ Refuse(c, r)
    BY <2>1 DEF Outcomes, Replies
  <2>3. /\ Shape(calls[c], team)
        /\ \A i \in 1 .. Len(calls[c].asked) : calls[c].asked[i].got = "ok"
        /\ calls[c].kind = "pipeline" => Len(calls[c].asked) = Len(team)
    BY <1>1, <1>4, <1>5, <1>7
  <2> QED
    BY <2>2, <2>3, <1>1, <1>2, RefuseStep
<1>8. ASSUME call.kind = "pipeline", call.next < Len(team), NEW asks, asks = <<Asking(team[call.next + 1], {call.next + 1})>>,
             calls' = [calls EXCEPT ![c] = [Told(call, asks) EXCEPT !.next = @ + 1]],
             inbox' = Delivered(c, call.next, asks)
      PROVE  TeamInv'
  <2>1. PICK n \in Nat : n = Len(call.asked) /\ call.next = n /\ n > 0 /\ n < Len(team) /\ Len(team) \in Nat
    BY <1>2, <1>4, <1>8, TeamFacts
  <2>2. PICK w \in Workers : w = team[n + 1]
    BY <2>1, <1>2, TeamFacts
  <2>3. asks \in Seq(Asks) /\ Len(asks) = 1 /\ asks[1].to = w /\ asks[1].got = "none"
    <3>0. n + 1 \in Nat
      BY <2>1
    <3>a. {n + 1} \subseteq Nat
      BY <3>0
    <3>1. PICK part \in SUBSET Nat : part = {n + 1}
      BY <3>a, Zenon
    <3>b. asks = <<Asking(team[call.next + 1], {call.next + 1})>>
      BY <1>8
    <3>c. team[call.next + 1] = w /\ {call.next + 1} = part
      BY <2>1, <2>2, <3>1
    <3>2. PICK a : a = Asking(w, part)
      OBVIOUS
    <3>3. asks = <<a>>
      BY <3>b, <3>c, <3>2, Zenon
    <3>4. asks \in Seq(Asks) /\ OneTo(asks, w)
      BY <3>2, <3>3, OneAsk
    <3> QED
      BY <3>4 DEF OneTo
  <2>4. PICK sent : sent = Told(call, asks)
    OBVIOUS
  <2>5. /\ sent \in CallRecords /\ sent.kind = call.kind /\ sent.size = call.size /\ Extended(call, asks, sent)
    <3>1. \A i \in 1 .. Len(asks) : asks[i].got = "none"
      BY <2>3
    <3> QED
      BY <2>3, <2>4, <3>1, <1>3, <1>4, ToldFacts
  <2>6. PICK new : new = [sent EXCEPT !.next = n + 1]
    OBVIOUS
  <2>7. /\ sent.next = n /\ sent.state = "waiting" /\ Len(sent.asked) = n + 1
        /\ \A i \in 1 .. n : sent.asked[i] = call.asked[i]
        /\ sent.asked[n + 1].to = w /\ (w \in up => sent.asked[n + 1].got = "none")
    BY <2>1, <2>3, <2>5 DEF Extended
  <2>8. /\ new \in CallRecords /\ new.next = n + 1 /\ new.state = "waiting" /\ new.kind = "pipeline"
        /\ new.size = call.size /\ new.asked = sent.asked
    <3>1. PICK k \in Nat \ {0} : k = n + 1
      BY <2>1
    <3>2. sent \in CallRecords /\ new = [sent EXCEPT !.next = k]
      BY <3>1, <2>5, <2>6
    <3>3. /\ new \in CallRecords /\ new.next = k /\ new.state = sent.state /\ new.kind = sent.kind
          /\ new.size = sent.size /\ new.asked = sent.asked
      BY <3>2 DEF CallRecords
    <3>4. sent.state = "waiting" /\ sent.kind = "pipeline" /\ sent.size = call.size
      BY <2>5, <2>7, <1>8
    <3> QED
      BY <3>1, <3>3, <3>4
  <2>9. calls' = [calls EXCEPT ![c] = new] /\ inbox' = Delivered(c, Len(calls[c].asked), asks)
    BY <2>1, <2>4, <2>6, <2>7, <1>1, <1>8
  <2>10. Shape(new, team)
    <3>1. \A i \in 1 .. n : call.asked[i].to = team[i]
      BY <2>1, <1>4, <1>8 DEF Shape, Fit
    <3>2. \A i \in 1 .. n + 1 : sent.asked[i].to = team[i]
      BY <3>1, <2>1, <2>2, <2>7
    <3> QED
      BY <3>2, <2>1, <2>7, <2>8 DEF Shape, Fit
  <2>11. CallOk(new, team)
    <3>1. \A i \in 1 .. n : new.asked[i].got = "ok"
      BY <2>1, <2>7, <2>8, <1>5
    <3>2. new.next \in 1 .. Len(new.asked) /\ new.next - 1 = n /\ new.next = Len(new.asked)
      BY <2>1, <2>7, <2>8
    <3>3. new.kind \notin Forwarders
      BY <2>8 DEF Forwarders
    <3> QED
      BY <2>8, <2>10, <3>1, <3>2, <3>3 DEF CallOk
  <2>12. /\ Len(new.asked) = Len(calls[c].asked) + Len(asks)
         /\ \A i \in 1 .. Len(calls[c].asked) : new.asked[i] = calls[c].asked[i]
         /\ \A i \in 1 .. Len(asks) :
               /\ new.asked[Len(calls[c].asked) + i].to = asks[i].to
               /\ asks[i].to \in up => new.asked[Len(calls[c].asked) + i].got = "none"
    BY <2>1, <2>3, <2>7, <2>8, <1>1
  <2>13. \A i, j \in 1 .. Len(asks) : asks[i].to = asks[j].to => i = j
    BY <2>3
  <2> QED
    BY <2>3, <2>8, <2>9, <2>11, <2>12, <2>13, <1>1, <1>2, TellStep
<1>9. \/ call.next < Len(call.asked) /\ calls' = [calls EXCEPT ![c].next = @ + 1] /\ inbox' = inbox
      \/ call.next = Len(call.asked) /\ (call.kind = "pipeline" => call.next = Len(team))
         /\ \E r \in Outcomes(call) : Refuse(c, r)
      \/ \E asks : /\ call.kind = "pipeline" /\ call.next < Len(team)
                   /\ asks = <<Asking(team[call.next + 1], {call.next + 1})>>
                   /\ calls' = [calls EXCEPT ![c] = [Told(call, asks) EXCEPT !.next = @ + 1]]
                   /\ inbox' = Delivered(c, call.next, asks)
  BY <1>1 DEF CollectOk
<1> QED
  BY <1>6, <1>7, <1>8, <1>9

\* Nothing but the routing changes.
LEMMA RouteStep ==
    ASSUME TeamInv, calls' = calls, inbox' = inbox, up' = up, team' = team, Routed'
    PROVE  TeamInv'
<1>0. TeamTypes /\ CallsOk /\ MessagesOk
  BY DEF TeamInv
<1>1. TeamTypes'
  BY <1>0 DEF TeamTypes
<1>2. CallsOk'
  BY <1>0 DEF CallsOk
<1>3. \A w, m : MessageOk(w, m)' <=> MessageOk(w, m)
  BY DEF MessageOk
<1>4. MessagesOk'
  BY <1>0, <1>3 DEF MessagesOk
<1> QED
  BY <1>1, <1>2, <1>4 DEF TeamInv

\* An answer to ask i leaves the other asks alone.
Heard(old, i, new) ==
    /\ new.state # "sent"
    /\ new.state = "waiting" => old.state = "waiting" /\ Len(old.asked) <= Len(new.asked)
    /\ \A j \in 1 .. Len(new.asked) :
        /\ j <= Len(old.asked)
        /\ j # i => new.asked[j].to = old.asked[j].to /\ new.asked[j].got = old.asked[j].got

\* A message leaves the mailbox and changes its own ask at most.
LEMMA ConsumeStep ==
    ASSUME TeamInv, NEW w \in Workers, Len(inbox[w]) > 0, NEW m, m = inbox[w][1],
           NEW new \in CallRecords, CallOk(new, team), Heard(calls[m[1]], m[2], new),
           calls' = [calls EXCEPT ![m[1]] = new], inbox' = [inbox EXCEPT ![w] = Tail(inbox[w])],
           up' = up, team' = team, Routed'
    PROVE  TeamInv'
<1>0. TeamTypes /\ CallsOk /\ MessagesOk
  BY DEF TeamInv
<1>1. inbox[w] \in Seq(Calls \X Nat) /\ Len(inbox[w]) \in Nat /\ 1 \in 1 .. Len(inbox[w])
  BY <1>0 DEF TeamTypes
<1>2. m \in Calls \X Nat /\ MessageOk(w, m)
  BY <1>0, <1>1 DEF MessagesOk
<1>3. PICK c \in Calls : c = m[1]
  BY <1>2
<1>4. PICK i \in Nat : i = m[2]
  BY <1>2
<1>5. m = <<c, i>> /\ calls[c] # NoCall /\ calls[c] \in CallRecords /\ Len(calls[c].asked) \in Nat
  <2>1. m = <<c, i>>
    BY <1>2, <1>3, <1>4
  <2>2. calls[c] # NoCall
    BY <1>2, <1>3 DEF MessageOk
  <2>3. calls[c] \in CallRecords
    BY <2>2, <1>0 DEF TeamTypes
  <2> QED
    BY <2>1, <2>2, <2>3 DEF CallRecords
<1>6. /\ calls' \in [Calls -> {NoCall} \cup CallRecords]
      /\ calls'[c] = new /\ \A d \in Calls : d # c => calls'[d] = calls[d]
  BY <1>0, <1>3 DEF TeamTypes
<1>7. PICK rest : rest = Tail(inbox[w])
  OBVIOUS
<1>8. /\ rest \in Seq(Calls \X Nat) /\ Len(rest) = Len(inbox[w]) - 1
      /\ \A k \in 1 .. Len(rest) : k + 1 \in 1 .. Len(inbox[w]) /\ rest[k] = inbox[w][k + 1]
  <2>1. PICK S : S = Calls \X Nat
    OBVIOUS
  <2>2. PICK box \in Seq(S) : box = inbox[w] /\ Len(box) > 0 /\ Len(box) \in Nat
    BY <2>1, <1>1
  <2>3. rest = Tail(box) /\ box # <<>>
    BY <2>2, <1>7
  <2>4. rest \in Seq(S) /\ Len(rest) = Len(box) - 1 /\ \A k \in 1 .. Len(rest) : rest[k] = box[k + 1]
    BY <2>2, <2>3
  <2>5. \A k \in 1 .. Len(rest) : k + 1 \in 1 .. Len(box)
    BY <2>2, <2>4
  <2> QED
    BY <2>1, <2>2, <2>4, <2>5
<1>9. /\ inbox' \in [Workers -> Seq(Calls \X Nat)]
      /\ inbox'[w] = rest /\ \A v \in Workers : v # w => inbox'[v] = inbox[v]
  BY <1>0, <1>7, <1>8 DEF TeamTypes
<1>10. TeamTypes'
  BY <1>0, <1>6, <1>9 DEF TeamTypes
<1>11. CallsOk'
  BY <1>0, <1>6 DEF CallsOk
<1>12. /\ new # NoCall /\ Len(new.asked) \in Nat /\ new.state # "sent"
       /\ new.state = "waiting" => calls[c].state = "waiting" /\ Len(calls[c].asked) <= Len(new.asked)
       /\ \A j \in 1 .. Len(new.asked) :
            /\ j <= Len(calls[c].asked)
            /\ j # i => new.asked[j].to = calls[c].asked[j].to /\ new.asked[j].got = calls[c].asked[j].got
  <2>1. new # NoCall /\ Len(new.asked) \in Nat
    BY DEF CallRecords, NoCall
  <2> QED
    BY <2>1, <1>3, <1>4 DEF Heard
\* Every other message.
<1>13. ASSUME NEW v \in Workers, NEW k \in 1 .. Len(inbox[v]), v # w \/ k # 1, NEW x, x = inbox[v][k]
       PROVE  MessageOk(v, x)'
  <2>1. x \in Calls \X Nat /\ MessageOk(v, x)
    BY <1>0, <1>13 DEF TeamTypes, MessagesOk
  <2>2. CASE x[1] # c
    <3>1. x[1] \in Calls
      BY <2>1
    <3> QED
      BY <2>1, <2>2, <3>1, <1>6 DEF MessageOk
  <2>3. CASE x[1] = c
    <3>1. x[2] \in Nat /\ x = <<c, x[2]>>
      BY <2>1, <2>3
    <3>2. x[2] \in 1 .. Len(calls[c].asked) => x[2] # i
      <4> SUFFICES ASSUME x[2] \in 1 .. Len(calls[c].asked), x[2] = i PROVE FALSE
        OBVIOUS
      <4>1. x = m
        BY <3>1, <1>5
      <4>2. CASE v # w
        BY <4>2, <2>1, <2>3, <1>2, <1>3, <1>4 DEF MessageOk
      <4>3. CASE v = w
        <5>1. k \in 1 .. Len(inbox[w]) /\ inbox[w][k] = inbox[w][1] /\ k # 1
          BY <4>1, <4>3, <1>13
        <5>2. inbox[w][k] = inbox[w][1] => k = 1
          BY <5>1, <1>0, <1>1 DEF MessagesOk
        <5> QED
          BY <5>1, <5>2
      <4> QED
        BY <4>2, <4>3
    <3>3. new.state = "waiting" => x[2] <= Len(new.asked)
      <4>1. calls[c].state = "waiting" => x[2] <= Len(calls[c].asked)
        BY <2>1, <2>3 DEF MessageOk
      <4>2. new.state = "waiting" => calls[c].state = "waiting" /\ Len(calls[c].asked) <= Len(new.asked)
        BY <1>12
      <4>3. x[2] \in Nat /\ Len(calls[c].asked) \in Nat /\ Len(new.asked) \in Nat
        BY <3>1, <1>5, <1>12
      <4> QED
        BY <4>1, <4>2, <4>3
    <3>4. x[2] \in 1 .. Len(new.asked) => new.asked[x[2]].to = v /\ new.asked[x[2]].got = "none"
      <4> SUFFICES ASSUME x[2] \in 1 .. Len(new.asked)
                   PROVE  new.asked[x[2]].to = v /\ new.asked[x[2]].got = "none"
        OBVIOUS
      <4>1. x[2] \in 1 .. Len(calls[c].asked)
        <5>1. x[2] <= Len(calls[c].asked)
          BY <1>12
        <5>2. Len(calls[c].asked) \in Nat /\ Len(new.asked) \in Nat
          BY <1>5, <1>12
        <5> QED
          BY <5>1, <5>2
      <4>2. calls[c].asked[x[2]].to = v /\ calls[c].asked[x[2]].got = "none"
        BY <4>1, <2>1, <2>3 DEF MessageOk
      <4> QED
        BY <3>2, <4>1, <4>2, <1>12
    <3> QED
      BY <2>3, <3>3, <3>4, <1>6, <1>12 DEF MessageOk
  <2> QED
    BY <2>2, <2>3
<1>14. MessagesOk'
  <2> SUFFICES ASSUME NEW v \in Workers, NEW k \in 1 .. Len(inbox'[v]), NEW l \in 1 .. Len(inbox'[v])
               PROVE  MessageOk(v, inbox[v][k])' /\ (inbox'[v][k] = inbox'[v][l] => k = l)
    BY DEF MessagesOk
  <2>1. PICK x : x = inbox'[v][k]
    OBVIOUS
  <2>2. CASE v # w
    <3>1. inbox'[v] = inbox[v]
      BY <2>2, <1>9
    <3>2. MessageOk(v, x)'
      BY <2>1, <2>2, <3>1, <1>13
    <3>3. inbox[v][k] = inbox[v][l] => k = l
      BY <3>1, <1>0 DEF MessagesOk
    <3> QED
      BY <2>1, <3>1, <3>2, <3>3
  <2>3. CASE v = w
    <3>1. /\ k + 1 \in 1 .. Len(inbox[w]) /\ x = inbox[w][k + 1] /\ k + 1 # 1
          /\ l + 1 \in 1 .. Len(inbox[w]) /\ inbox'[v][l] = inbox[w][l + 1]
      BY <2>1, <2>3, <1>8, <1>9
    <3>2. MessageOk(v, x)'
      BY <2>3, <3>1, <1>13
    <3>3. x = inbox'[v][l] => k + 1 = l + 1
      BY <3>1, <1>0 DEF MessagesOk
    <3> QED
      BY <2>1, <3>2, <3>3
  <2> QED
    BY <2>2, <2>3
<1> QED
  BY <1>10, <1>11, <1>14 DEF TeamInv

\* A worker answers the first ask of its mailbox.
LEMMA WorkStep ==
    ASSUME TeamInv, NEW w \in Workers, Work(w)
    PROVE  TeamInv'
<1>0. TeamTypes /\ CallsOk /\ MessagesOk
  BY DEF TeamInv
<1>1. /\ inbox[w] \in Seq(Calls \X Nat) /\ Len(inbox[w]) \in Nat /\ Len(inbox[w]) > 0
      /\ up' = up /\ team' = team /\ Routed' /\ 1 \in 1 .. Len(inbox[w])
  BY <1>0 DEF Work, routing, Routed, TeamTypes
<1>2. PICK m : m = inbox[w][1]
  OBVIOUS
<1>3. m = Head(inbox[w])
  BY <1>1, <1>2
<1>4. m \in Calls \X Nat /\ MessageOk(w, m)
  BY <1>0, <1>1, <1>2 DEF MessagesOk
<1>5. PICK r \in {"ok", "err"} : calls' = [calls EXCEPT ![m[1]] = Got(calls[m[1]], m[2], r)]
  BY <1>3 DEF Work
<1>6. inbox' = [inbox EXCEPT ![w] = Tail(inbox[w])]
  BY DEF Work
<1>7. PICK call : call = calls[m[1]]
  OBVIOUS
<1>8. PICK i \in Nat : i = m[2]
  BY <1>4
<1>9. /\ call # NoCall /\ call.state # "sent" /\ call \in CallRecords /\ CallOk(call, team)
      /\ i \in 1 .. Len(call.asked) => call.asked[i].to = w /\ call.asked[i].got = "none"
  <2>1. m[1] \in Calls
    BY <1>4
  <2>2. /\ call # NoCall /\ call.state # "sent"
        /\ i \in 1 .. Len(call.asked) => call.asked[i].to = w /\ call.asked[i].got = "none"
    BY <1>4, <1>7, <1>8 DEF MessageOk
  <2>3. call \in CallRecords
    BY <2>1, <2>2, <1>0, <1>7 DEF TeamTypes
  <2>4. CallOk(call, team)
    BY <2>1, <2>2, <1>0, <1>7 DEF CallsOk
  <2> QED
    BY <2>2, <2>3, <2>4
<1>10. call.asked \in Seq(Asks) /\ Len(call.asked) \in Nat /\ DOMAIN call.asked = 1 .. Len(call.asked)
  BY <1>9 DEF CallRecords
<1>11. PICK new : new = Got(call, i, r)
  OBVIOUS
<1>12. calls' = [calls EXCEPT ![m[1]] = new]
  BY <1>5, <1>7, <1>8, <1>11
<1>13. CASE i \notin 1 .. Len(call.asked)
  <2>1. new = call
    BY <1>10, <1>11, <1>13 DEF Got
  <2> QED
    <3>1. Heard(call, i, new)
      BY <2>1, <1>9, <1>10 DEF Heard
    <3>2. new \in CallRecords /\ CallOk(new, team)
      BY <2>1, <1>9
    <3> QED
      BY <3>1, <3>2, <1>1, <1>2, <1>6, <1>7, <1>8, <1>12, ConsumeStep
<1>14. CASE i \in 1 .. Len(call.asked)
  <2>1. call.asked[i].to = w /\ call.asked[i].got = "none" /\ call.asked[i] \in Asks
    BY <1>9, <1>10, <1>14
  <2>2. call.state = "waiting"
    <3>1. call.asked # <<>>
      BY <1>10, <1>14
    <3> QED
      BY <2>1, <3>1, <1>9, <1>14 DEF CallOk, CallRecords
  <2>3. PICK ask : ask = [call.asked[i] EXCEPT !.got = r]
    OBVIOUS
  <2>4. ask \in Asks /\ ask.got = r /\ ask.to = w /\ ask.part = call.asked[i].part
    BY <2>1, <2>3 DEF Asks, Replies
  <2>5. PICK asked : asked = [call.asked EXCEPT ![i] = ask]
    OBVIOUS
  <2>6. /\ asked \in Seq(Asks) /\ Len(asked) = Len(call.asked) /\ asked[i] = ask
        /\ \A j \in 1 .. Len(call.asked) : j # i => asked[j] = call.asked[j]
    BY <2>4, <2>5, <1>10, <1>14
  <2>7. PICK heard : heard = [call EXCEPT !.asked = asked]
    OBVIOUS
  <2>8. heard = [call EXCEPT !.asked[i].got = r]
    BY <2>3, <2>5, <2>7
  <2>9. /\ heard \in CallRecords /\ heard.asked = asked /\ heard.state = "waiting" /\ heard.next = call.next
        /\ heard.kind = call.kind /\ heard.size = call.size
    BY <2>2, <2>6, <2>7, <1>9 DEF CallRecords
  <2>10. Shape(heard, team)
    <3>1. Fit(call.kind, call.size, call.asked, team)
      BY <2>2, <1>9 DEF CallOk, Shape
    <3>2. PICK a : a = call.asked
      OBVIOUS
    <3>3. \A j \in 1 .. Len(a) : asked[j].to = a[j].to /\ asked[j].part = a[j].part
      BY <2>1, <2>4, <2>6, <3>2
    <3>4. Fit(call.kind, call.size, asked, team)
      BY <2>6, <3>1, <3>2, <3>3, SameFit
    <3> QED
      BY <2>9, <3>4 DEF Shape
  <2>11. /\ call.next \in 1 .. Len(call.asked) /\ \A j \in 1 .. call.next - 1 : call.asked[j].got = "ok"
         /\ call.kind \in Forwarders => Len(call.asked) = 1
         /\ call.kind = "pipeline" => call.next = Len(call.asked)
    BY <2>2, <1>9 DEF CallOk
  <2>12. new = IF call.kind \in Forwarders THEN Answered(heard, r) ELSE heard
    BY <2>8, <1>10, <1>11, <1>14 DEF Got
  <2>13. CASE call.kind \notin Forwarders
    <3>1. new = heard
      BY <2>12, <2>13
    <3>2. \A j \in 1 .. call.next - 1 : j \in 1 .. Len(call.asked) /\ asked[j].got = "ok"
      BY <2>1, <2>6, <2>11, <1>10
    <3>3. CallOk(heard, team)
      BY <2>6, <2>9, <2>10, <2>11, <2>13, <3>2 DEF CallOk
    <3> QED
      <4>1. Heard(call, i, new)
        BY <2>2, <2>6, <2>9, <3>1, <1>10 DEF Heard
      <4>2. new \in CallRecords /\ CallOk(new, team)
        BY <2>9, <3>1, <3>3
      <4> QED
        BY <4>1, <4>2, <1>1, <1>2, <1>6, <1>7, <1>8, <1>12, ConsumeStep
  <2>14. CASE call.kind \in Forwarders
    <3>1. new = Answered(heard, r) /\ r \in Replies
      BY <2>12, <2>14 DEF Replies
    <3>2. /\ new \in CallRecords /\ new.state = "done" /\ new.answer = r
          /\ new.kind = heard.kind /\ new.size = heard.size
          /\ new.asked = IF r = "ok" THEN heard.asked ELSE <<>>
      BY <3>1, <2>9, AnsweredFacts
    <3>3. CASE r = "ok"
      <4>1. new.asked = asked /\ new.kind = call.kind /\ new.size = call.size
        BY <2>9, <3>2, <3>3
      <4>2. Shape(new, team)
        BY <2>9, <2>10, <4>1 DEF Shape
      <4>3. \A j \in 1 .. Len(asked) : asked[j].got = "ok"
        BY <2>4, <2>6, <2>11, <2>14, <3>3, <1>14
      <4>4. new.kind # "pipeline"
        BY <2>14, <4>1 DEF Forwarders
      <4>5. CallOk(new, team)
        BY <3>2, <3>3, <4>1, <4>2, <4>3, <4>4 DEF CallOk
      <4> QED
        <5>1. Heard(call, i, new)
          BY <2>6, <3>2, <4>1, <1>10 DEF Heard
        <5> QED
          BY <3>2, <4>5, <5>1, <1>1, <1>2, <1>6, <1>7, <1>8, <1>12, ConsumeStep
    <3>4. CASE r # "ok"
      <4>1. new.asked = <<>> /\ Len(new.asked) = 0
        BY <3>2, <3>4
      <4>2. CallOk(new, team)
        BY <3>2, <3>4, <4>1 DEF CallOk
      <4> QED
        <5>1. Heard(call, i, new)
          BY <3>2, <4>1 DEF Heard
        <5> QED
          BY <3>2, <4>2, <5>1, <1>1, <1>2, <1>6, <1>7, <1>8, <1>12, ConsumeStep
    <3> QED
      BY <3>3, <3>4
  <2> QED
    BY <2>13, <2>14
<1> QED
  BY <1>13, <1>14

\* A call after the worker w has stopped.
Bereft(call, w) ==
    LET pending == {i \in DOMAIN call.asked : call.asked[i].to = w /\ call.asked[i].got = "none"}
        heard == [call EXCEPT !.asked = [i \in DOMAIN @ |->
                    IF i \in pending THEN [@[i] EXCEPT !.got = "dropped"] ELSE @[i]]] IN
    IF heard.kind \in Forwarders /\ pending # {} THEN Answered(heard, "dropped") ELSE heard

LEMMA BereftFacts ==
    ASSUME NEW call \in CallRecords, NEW t, CallOk(call, t), NEW w, NEW new, new = Bereft(call, w)
    PROVE  /\ new \in CallRecords /\ CallOk(new, t)
           /\ call.state # "sent" => new.state # "sent"
           /\ new.state = "waiting" => call.state = "waiting" /\ Len(new.asked) = Len(call.asked)
           /\ \A i \in 1 .. Len(new.asked) :
                /\ i <= Len(call.asked) /\ new.asked[i].to = call.asked[i].to
                /\ call.asked[i].to # w => new.asked[i].got = call.asked[i].got
<1>1. call.asked \in Seq(Asks) /\ Len(call.asked) \in Nat /\ DOMAIN call.asked = 1 .. Len(call.asked)
  BY DEF CallRecords
<1>2. PICK pending : pending = {i \in 1 .. Len(call.asked) : call.asked[i].to = w /\ call.asked[i].got = "none"}
  OBVIOUS
<1>3. PICK asked : asked = [i \in 1 .. Len(call.asked) |->
                              IF i \in pending THEN [call.asked[i] EXCEPT !.got = "dropped"] ELSE call.asked[i]]
  OBVIOUS
<1>4. ASSUME NEW i \in 1 .. Len(call.asked)
      PROVE  /\ asked[i] \in Asks /\ asked[i].to = call.asked[i].to /\ asked[i].part = call.asked[i].part
             /\ i \notin pending => asked[i] = call.asked[i]
  <2>1. call.asked[i] \in Asks
    BY <1>1
  <2>2. CASE i \in pending
    <3>1. asked[i] = [call.asked[i] EXCEPT !.got = "dropped"]
      BY <2>2, <1>3
    <3> QED
      BY <2>1, <2>2, <3>1 DEF Asks, Replies
  <2>3. CASE i \notin pending
    BY <2>1, <2>3, <1>3
  <2> QED
    BY <2>2, <2>3
<1>5. asked \in Seq(Asks) /\ Len(asked) = Len(call.asked)
  <2>1. asked \in [1 .. Len(call.asked) -> Asks]
    BY <1>3, <1>4
  <2> QED
    BY <2>1, <1>1
<1>6. PICK heard : heard = [call EXCEPT !.asked = asked]
  OBVIOUS
<1>7. /\ heard \in CallRecords /\ heard.asked = asked /\ heard.state = call.state /\ heard.next = call.next
      /\ heard.kind = call.kind /\ heard.size = call.size /\ heard.answer = call.answer
  BY <1>5, <1>6 DEF CallRecords
<1>8. new = IF heard.kind \in Forwarders /\ pending # {} THEN Answered(heard, "dropped") ELSE heard
  BY <1>1, <1>2, <1>3, <1>6 DEF Bereft
<1>9. pending # {} => call.state = "waiting"
  <2> SUFFICES ASSUME NEW i \in pending PROVE call.state = "waiting"
    OBVIOUS
  <2>1. i \in 1 .. Len(call.asked) /\ call.asked[i].got = "none" /\ call.asked # <<>>
    BY <1>1, <1>2
  <2> QED
    BY <2>1 DEF CallOk, CallRecords
<1>10. CASE heard.kind \in Forwarders /\ pending # {}
  <2>1. new = Answered(heard, "dropped") /\ "dropped" \in Replies /\ "dropped" # "ok"
    BY <1>8, <1>10 DEF Replies
  <2>2. new \in CallRecords /\ new.state = "done" /\ new.answer # "ok" /\ new.asked = <<>>
    BY <2>1, <1>7, AnsweredFacts
  <2>3. CallOk(new, t)
    BY <2>2 DEF CallOk
  <2>4. Len(new.asked) = 0
    BY <2>2
  <2> QED
    BY <2>2, <2>3, <2>4
<1>11. CASE ~(heard.kind \in Forwarders /\ pending # {})
  <2>1. new = heard
    BY <1>8, <1>11
  <2>2. ASSUME pending = {} PROVE asked = call.asked
    <3>1. call.asked = [i \in 1 .. Len(call.asked) |-> call.asked[i]]
      BY <1>1
    <3> QED
      BY <2>2, <3>1, <1>3
  <2>3. CallOk(heard, t)
    <3>1. CASE pending = {}
      <4>1. Shape(heard, t) <=> Shape(call, t)
        BY <2>2, <3>1, <1>7 DEF Shape
      <4> QED
        BY <2>2, <3>1, <4>1, <1>7 DEF CallOk
    <3>2. CASE pending # {}
      <4>1. /\ call.next \in 1 .. Len(call.asked) /\ \A j \in 1 .. call.next - 1 : call.asked[j].got = "ok"
            /\ Shape(call, t)
            /\ call.kind \in Forwarders => Len(call.asked) = 1
            /\ call.kind = "pipeline" => call.next = Len(call.asked)
            /\ call.state = "waiting"
        BY <3>2, <1>9 DEF CallOk
      <4>2. \A j \in 1 .. call.next - 1 : j \in 1 .. Len(call.asked) /\ j \notin pending
        BY <4>1, <1>1, <1>2
      <4>3. \A j \in 1 .. call.next - 1 : asked[j].got = "ok"
        BY <4>1, <4>2, <1>4
      <4>4. Shape(heard, t)
        <5>1. PICK a : a = call.asked
          OBVIOUS
        <5>2. Fit(call.kind, call.size, a, t)
          BY <4>1, <5>1 DEF Shape
        <5>3. Fit(call.kind, call.size, asked, t)
          BY <5>1, <5>2, <1>4, <1>5, SameFit
        <5> QED
          BY <5>3, <1>7 DEF Shape
      <4> QED
        BY <4>1, <4>3, <4>4, <1>5, <1>7 DEF CallOk
    <3> QED
      BY <3>1, <3>2
  <2>4. \A i \in 1 .. Len(asked) :
          /\ i <= Len(call.asked) /\ asked[i].to = call.asked[i].to
          /\ call.asked[i].to # w => asked[i].got = call.asked[i].got
    BY <1>1, <1>2, <1>4, <1>5
  <2> QED
    BY <2>1, <2>3, <2>4, <1>5, <1>7
<1> QED
  BY <1>10, <1>11

\* A worker stops: its mailbox is gone and its asks are dropped.
LEMMA StopStep ==
    ASSUME TeamInv, NEW w \in Workers, StopWorker(w)
    PROVE  TeamInv'
<1>0. TeamTypes /\ CallsOk /\ MessagesOk
  BY DEF TeamInv
<1>1. /\ up' = up \ {w} /\ inbox' = [inbox EXCEPT ![w] = <<>>] /\ team' = team /\ Routed'
  BY <1>0 DEF StopWorker, routing, Routed, TeamTypes
<1>2. calls' = [c \in Calls |-> IF calls[c] = NoCall THEN NoCall ELSE Bereft(calls[c], w)]
  BY DEF StopWorker, Bereft
<1>3. /\ inbox' \in [Workers -> Seq(Calls \X Nat)]
      /\ inbox'[w] = <<>> /\ \A v \in Workers : v # w => inbox'[v] = inbox[v]
  <2>1. <<>> \in Seq(Calls \X Nat)
    OBVIOUS
  <2> QED
    BY <2>1, <1>0, <1>1 DEF TeamTypes
<1>4. ASSUME NEW c \in Calls, calls[c] # NoCall
      PROVE  /\ calls'[c] \in CallRecords /\ CallOk(calls'[c], team) /\ calls'[c] # NoCall
             /\ calls[c].state # "sent" => calls'[c].state # "sent"
             /\ calls'[c].state = "waiting" =>
                  calls[c].state = "waiting" /\ Len(calls'[c].asked) = Len(calls[c].asked)
             /\ \A i \in 1 .. Len(calls'[c].asked) :
                  /\ i <= Len(calls[c].asked) /\ calls'[c].asked[i].to = calls[c].asked[i].to
                  /\ calls[c].asked[i].to # w => calls'[c].asked[i].got = calls[c].asked[i].got
  <2>1. PICK call \in CallRecords : call = calls[c] /\ CallOk(call, team)
    BY <1>0, <1>4 DEF TeamTypes, CallsOk
  <2>2. PICK new : new = Bereft(call, w)
    OBVIOUS
  <2>3. calls'[c] = new
    BY <2>1, <2>2, <1>2, <1>4
  <2>4. /\ new \in CallRecords /\ CallOk(new, team)
        /\ call.state # "sent" => new.state # "sent"
        /\ new.state = "waiting" => call.state = "waiting" /\ Len(new.asked) = Len(call.asked)
        /\ \A i \in 1 .. Len(new.asked) :
             /\ i <= Len(call.asked) /\ new.asked[i].to = call.asked[i].to
             /\ call.asked[i].to # w => new.asked[i].got = call.asked[i].got
    BY <2>1, <2>2, BereftFacts
  <2>5. new # NoCall
    BY <2>4 DEF CallRecords, NoCall
  <2> QED
    BY <2>1, <2>3, <2>4, <2>5
<1>5. ASSUME NEW c \in Calls, calls[c] = NoCall PROVE calls'[c] = NoCall
  BY <1>2, <1>5
<1>6. calls' \in [Calls -> {NoCall} \cup CallRecords]
  <2>1. calls' = [c \in Calls |-> calls'[c]]
    BY <1>2
  <2>2. \A c \in Calls : calls'[c] \in {NoCall} \cup CallRecords
    BY <1>4, <1>5
  <2> QED
    BY <2>1, <2>2
<1>7. TeamTypes'
  BY <1>0, <1>1, <1>3, <1>6 DEF TeamTypes
<1>8. CallsOk'
  BY <1>1, <1>4, <1>5 DEF CallsOk
<1>9. MessagesOk'
  <2> SUFFICES ASSUME NEW v \in Workers, NEW k \in 1 .. Len(inbox'[v]), NEW l \in 1 .. Len(inbox'[v])
               PROVE  MessageOk(v, inbox[v][k])' /\ (inbox'[v][k] = inbox'[v][l] => k = l)
    BY DEF MessagesOk
  <2>1. v # w /\ inbox'[v] = inbox[v]
    BY <1>3
  <2>2. inbox'[v][k] = inbox'[v][l] => k = l
    BY <2>1, <1>0 DEF MessagesOk
  <2>3. PICK m : m = inbox'[v][k]
    OBVIOUS
  <2>4. m \in Calls \X Nat /\ MessageOk(v, m)
    BY <2>1, <2>3, <1>0 DEF TeamTypes, MessagesOk
  <2>5. PICK c \in Calls : c = m[1]
    BY <2>4
  <2>6. calls[c] # NoCall /\ calls[c].state # "sent" /\ m[2] \in Nat
    BY <2>4, <2>5 DEF MessageOk
  <2>7. calls'[c] # NoCall /\ calls'[c].state # "sent"
    BY <2>6, <1>4
  <2>8. calls'[c].state = "waiting" => m[2] <= Len(calls'[c].asked)
    BY <2>4, <2>5, <2>6, <1>4 DEF MessageOk
  <2>9. ASSUME m[2] \in 1 .. Len(calls'[c].asked)
        PROVE  calls'[c].asked[m[2]].to = v /\ calls'[c].asked[m[2]].got = "none"
    <3>1. PICK i : i = m[2]
      OBVIOUS
    <3>2. /\ i \in Nat /\ i \in 1 .. Len(calls'[c].asked)
          /\ i <= Len(calls[c].asked) /\ calls'[c].asked[i].to = calls[c].asked[i].to
          /\ calls[c].asked[i].to # w => calls'[c].asked[i].got = calls[c].asked[i].got
      BY <2>6, <2>9, <3>1, <1>4
    <3>3. Len(calls[c].asked) \in Nat /\ Len(calls'[c].asked) \in Nat
      BY <2>6, <2>7, <1>0, <1>6 DEF TeamTypes, CallRecords
    <3>4. i \in 1 .. Len(calls[c].asked)
      BY <3>2, <3>3
    <3>5. calls[c].asked[i].to = v /\ calls[c].asked[i].got = "none"
      BY <2>4, <2>5, <3>1, <3>4 DEF MessageOk
    <3> QED
      BY <2>1, <3>1, <3>2, <3>5
  <2>10. MessageOk(v, m)'
    BY <2>5, <2>7, <2>8, <2>9 DEF MessageOk
  <2> QED
    BY <2>2, <2>3, <2>10
<1> QED
  BY <1>7, <1>8, <1>9 DEF TeamInv

LEMMA TeamInitially == TeamInit => TeamInv
<1> SUFFICES ASSUME TeamInit PROVE TeamInv
  OBVIOUS
<1>1. <<>> \in Seq(Calls \X Nat) /\ Len(<<>>) = 0
  OBVIOUS
<1>2. current \in Workers
  BY OrchestratorsAssumption DEF TeamInit
<1>3. Routed
  BY <1>2 DEF TeamInit, Routed
<1>4. TeamTypes
  BY <1>1, <1>3 DEF TeamInit, TeamTypes
<1>5. CallsOk
  BY DEF TeamInit, CallsOk
<1>6. \A w \in Workers : Len(inbox[w]) = 0
  BY <1>1 DEF TeamInit
<1>7. MessagesOk
  BY <1>6 DEF MessagesOk
<1> QED
  BY <1>4, <1>5, <1>7 DEF TeamInv

LEMMA TeamInduction == TeamInv /\ [TeamNext]_teamVars => TeamInv'
<1> SUFFICES ASSUME TeamInv, [TeamNext]_teamVars PROVE TeamInv'
  OBVIOUS
<1>0. Routed
  BY DEF TeamInv, TeamTypes
<1>1. ASSUME NEW c \in Calls, NEW kind \in Collectors \cup Forwarders, NEW size \in Sizes, Submit(c, kind, size)
      PROVE  TeamInv'
  BY <1>1, SubmitStep
<1>2. ASSUME NEW c \in Calls, Orchestrate(c) PROVE TeamInv'
  <2>1. CASE DataStep(c) \/ TensorStep(c) \/ PipelineStep(c) \/ MoeRun(c) \/ Predict(c)
    BY <2>1, DataHandler, TensorHandler, PipelineHandler, MoeHandler, PredictHandler
  <2>2. ASSUME NEW kind \in {"round_robin", "least_loaded"}, PoolSubmit(c, kind) PROVE TeamInv'
    BY <2>2, PoolHandler
  <2>3. CASE CollectFailure(c) \/ CollectOk(c)
    BY <2>3, FailureHandler, OkHandler
  <2> QED
    BY <1>2, <2>1, <2>2, <2>3 DEF Orchestrate
<1>3. ASSUME NEW t \in Teams, SetReplicas(t) PROVE TeamInv'
  <2>1. calls' = calls /\ inbox' = inbox /\ up' = up /\ team' = team /\ Routed'
    BY <1>0, <1>3 DEF SetReplicas, Routed
  <2> QED
    BY <2>1, RouteStep
<1>4. ASSUME NEW w \in Workers, SwapIn(w) \/ Work(w) \/ StopWorker(w) PROVE TeamInv'
  <2>1. CASE SwapIn(w)
    <3>1. calls' = calls /\ inbox' = inbox /\ up' = up /\ team' = team /\ Routed'
      BY <1>0, <2>1 DEF SwapIn, Routed
    <3> QED
      BY <3>1, RouteStep
  <2>2. CASE Work(w) \/ StopWorker(w)
    BY <2>2, WorkStep, StopStep
  <2> QED
    BY <1>4, <2>1, <2>2
<1>5. ASSUME UNCHANGED teamVars PROVE TeamInv'
  <2>1. calls' = calls /\ inbox' = inbox /\ up' = up /\ team' = team /\ Routed'
    BY <1>0, <1>5 DEF teamVars, Routed
  <2> QED
    BY <2>1, RouteStep
<1> QED
  BY <1>1, <1>2, <1>3, <1>4, <1>5 DEF TeamNext

LEMMA OkFollows == TeamInv => OkMeansAll
<1> SUFFICES ASSUME TeamInv, NEW c \in Calls, calls[c] # NoCall, calls[c].state = "done", calls[c].answer = "ok",
                    NEW call, call = calls[c], NEW to, to = [i \in DOMAIN call.asked |-> call.asked[i].to]
             PROVE  /\ \A i \in DOMAIN to : call.asked[i].got = "ok"
                    /\ call.kind \in {"data", "tensor"} =>
                        /\ UNION Parts(call) = 0 .. call.size - 1
                        /\ \A i, j \in DOMAIN to : i # j => call.asked[i].part \cap call.asked[j].part = {}
                    /\ call.kind = "pipeline" => to = team
                    /\ call.kind = "moe" => Cardinality(Range(to)) = Chosen(Len(team))
  BY DEF OkMeansAll
<1>1. call \in CallRecords /\ CallOk(call, team)
  BY CallFacts
<1>2. PICK n \in Nat : n = Len(call.asked) /\ DOMAIN call.asked = 1 .. n /\ call.asked \in Seq(Asks)
  BY <1>1 DEF CallRecords
<1>3. \A i \in 1 .. n : call.asked[i].to \in Workers
  <2>1. PICK A : A = Asks
    OBVIOUS
  <2>2. PICK asked \in Seq(A) : asked = call.asked
    BY <1>2, <2>1
  <2>3. \A i \in 1 .. n : asked[i] \in A
    BY <1>2, <2>2
  <2> QED
    BY <2>1, <2>2, <2>3 DEF Asks
<1>4. to \in [1 .. n -> Workers] /\ DOMAIN to = 1 .. n /\ \A i \in 1 .. n : to[i] = call.asked[i].to
  BY <1>2, <1>3
<1>5. /\ \A i \in 1 .. n : call.asked[i].got = "ok"
      /\ Fit(call.kind, call.size, call.asked, team)
      /\ call.kind = "pipeline" => n = Len(team)
  BY <1>1, <1>2 DEF CallOk, Shape
<1>6. ASSUME call.kind \in {"data", "tensor"}
      PROVE  /\ UNION Parts(call) = 0 .. call.size - 1
             /\ \A i, j \in 1 .. n : i # j => call.asked[i].part \cap call.asked[j].part = {}
  <2>1. /\ \A s \in 0 .. call.size - 1 : \E i \in 1 .. n : s \in call.asked[i].part
        /\ \A i \in 1 .. n : call.asked[i].part \subseteq 0 .. call.size - 1
        /\ \A i, j \in 1 .. n : i # j => call.asked[i].part \cap call.asked[j].part = {}
    BY <1>2, <1>5, <1>6 DEF Fit
  <2>2. Parts(call) = {call.asked[i].part : i \in 1 .. n}
    BY <1>2 DEF Parts
  <2>3. UNION Parts(call) = 0 .. call.size - 1
    BY <2>1, <2>2
  <2> QED
    BY <2>1, <2>3
<1>7. ASSUME call.kind = "pipeline" PROVE to = team
  <2>1. team \in Teams
    BY DEF TeamInv, TeamTypes, Routed
  <2>2. team \in [1 .. n -> Workers]
    <3>1. team \in [1 .. Len(team) -> Workers]
      BY <2>1, TeamFacts
    <3> QED
      BY <3>1, <1>5, <1>7
  <2>3. \A i \in 1 .. n : to[i] = team[i]
    BY <1>2, <1>4, <1>5, <1>7 DEF Fit
  <2> QED
    BY <2>2, <2>3, <1>4
<1>8. ASSUME call.kind = "moe" PROVE Cardinality(Range(to)) = Chosen(Len(team))
  <2>1. n = Chosen(Len(team)) /\ \A i, j \in 1 .. n : to[i] = to[j] => i = j
    BY <1>2, <1>4, <1>5, <1>8 DEF Fit
  <2>2. PICK t \in [1 .. n -> Workers] : t = to
    BY <1>4
  <2>3. \A i, j \in 1 .. n : t[i] = t[j] => i = j
    BY <2>1, <2>2
  <2>4. Cardinality(Range(t)) = n
    BY <2>3, InjectiveCount
  <2> QED
    BY <2>1, <2>2, <2>4
<1> QED
  BY <1>4, <1>5, <1>6, <1>7, <1>8

\* For any workers, teams and sizes, an orchestrator answers Ok only when every
\* worker it asked has answered Ok and what it asked for was all of the work: the
\* shares of split_batch and the tensor chunks cover the request without overlap,
\* a pipeline has passed all its stages in order and a router has asked min(top_k,
\* n) different experts, at least one (data_parallel.rs, tensor_parallel.rs,
\* pipeline_parallel.rs, moe.rs), whoever fails or stops meanwhile.
THEOREM OkMeansAllDone == TeamSpec => []OkMeansAll
  BY TeamInitially, TeamInduction, OkFollows, PTL DEF TeamSpec

-----------------------------------------------------------------------------
(* Retrieval. *)

\* No element occurs twice.
Once(s) == \A i, j \in 1 .. Len(s) : s[i] = s[j] => i = j

\* x is an element of s.
Among(x, s) == \E i \in 1 .. Len(s) : s[i] = x

QueryRecords == [step : {"get", "embed", "insert", "search", "ok", "err"}, text : Texts, emb : Texts \cup {NoText}]
Gets    == [type : {"Get"}, query : Queries, text : Texts]
Inserts == [type : {"Insert"}, query : Queries, text : Texts, value : Texts]

\* The entry of the text t.
Own(t) == [text |-> t, value |-> t]

\* The map that belongs to an order.
Holds(order) == {Own(order[i]) : i \in 1 .. Len(order)}

RagTypes ==
    /\ lru \in Seq(Texts)
    /\ cacheBox \in Seq(Gets \cup Inserts)
    /\ queries \in [Queries -> {NoQuery} \cup QueryRecords]

\* The order has no key twice, and it decides what the map and the statistics are:
\* the entry of each of its keys, with the embedding of that very text.
CacheInv ==
    /\ Once(lru)
    /\ embCache = Holds(lru)
    /\ cacheSize = Len(lru)
    /\ cacheSize <= IF Capacity > 0 THEN Capacity ELSE 1

\* A message carries the text of the query that sent it, an insert the embedding
\* of that text.
Asked(m) ==
    /\ m.query \in Queries /\ queries[m.query] # NoQuery /\ queries[m.query].text = m.text
    /\ m.type = "Insert" => m.value = m.text

BoxInv == \A k \in 1 .. Len(cacheBox) : Asked(cacheBox[k])

\* A query has an embedding from the moment it inserts or searches: its own.
QueryInv ==
    \A q \in Queries : queries[q].step \in {"insert", "search", "ok"} => queries[q].emb = queries[q].text

\* The inductive invariant.
RagInv == RagTypes /\ CacheInv /\ BoxInv /\ QueryInv

\* Removing an element of a sequence without repetition closes the gap.
LEMMA RemoveFacts ==
    ASSUME NEW S, NEW s \in Seq(S), NEW k \in 1 .. Len(s)
    PROVE  /\ RemoveAt(s, k) \in Seq(S) /\ Len(RemoveAt(s, k)) = Len(s) - 1
           /\ \A i \in 1 .. Len(s) - 1 : RemoveAt(s, k)[i] = IF i < k THEN s[i] ELSE s[i + 1]
<1>1. PICK a : a = SubSeq(s, 1, k - 1)
  OBVIOUS
<1>2. PICK b : b = SubSeq(s, k + 1, Len(s))
  OBVIOUS
<1>3. a \in Seq(S) /\ Len(a) = k - 1 /\ \A i \in 1 .. k - 1 : a[i] = s[i]
  BY <1>1, SubSeqProperties
<1>4. b \in Seq(S) /\ Len(b) = Len(s) - k /\ \A i \in 1 .. Len(s) - k : b[i] = s[k + i]
  <2>1. k + 1 \in Int /\ Len(s) \in Int /\ \A i \in k + 1 .. Len(s) : s[i] \in S
    OBVIOUS
  <2>2. /\ b \in Seq(S) /\ Len(b) = IF k + 1 <= Len(s) THEN Len(s) - (k + 1) + 1 ELSE 0
        /\ \A i \in 1 .. Len(s) - (k + 1) + 1 : b[i] = s[k + 1 + i - 1]
    BY <1>2, <2>1, SubSeqProperties
  <2>3. ASSUME NEW i \in 1 .. Len(s) - k PROVE b[i] = s[k + i]
    <3>1. i \in 1 .. Len(s) - (k + 1) + 1 /\ k + 1 + i - 1 = k + i
      OBVIOUS
    <3> QED
      BY <2>2, <3>1
  <2> QED
    BY <2>2, <2>3
<1>5. /\ a \o b \in Seq(S) /\ Len(a \o b) = Len(a) + Len(b)
      /\ \A i \in 1 .. Len(a) + Len(b) : (a \o b)[i] = IF i <= Len(a) THEN a[i] ELSE b[i - Len(a)]
  BY <1>3, <1>4, ConcatProperties
<1>6. PICK r : r = a \o b
  OBVIOUS
<1>7. RemoveAt(s, k) = r
  BY <1>1, <1>2, <1>6 DEF RemoveAt
<1>8. r \in Seq(S) /\ Len(r) = Len(s) - 1
  <2>1. r \in Seq(S) /\ Len(r) = Len(a) + Len(b)
    BY <1>5, <1>6
  <2>2. Len(a) = k - 1 /\ Len(b) = Len(s) - k /\ Len(s) \in Nat
    BY <1>3, <1>4
  <2> QED
    BY <2>1, <2>2
<1>9. ASSUME NEW i \in 1 .. Len(s) - 1 PROVE r[i] = IF i < k THEN s[i] ELSE s[i + 1]
  <2>1. r[i] = IF i <= k - 1 THEN a[i] ELSE b[i - (k - 1)]
    BY <1>3, <1>4, <1>5, <1>6
  <2>2. CASE i < k
    BY <2>1, <2>2, <1>3
  <2>3. CASE i >= k
    <3>1. i - (k - 1) \in 1 .. Len(s) - k
      BY <2>3
    <3>2. b[i - (k - 1)] = s[k + (i - (k - 1))] /\ k + (i - (k - 1)) = i + 1
      BY <3>1, <1>4
    <3> QED
      BY <2>1, <2>3, <3>2
  <2> QED
    BY <2>2, <2>3
<1> QED
  BY <1>7, <1>8, <1>9

\* RemoveFirst takes out the only place of the element, if it has one.
LEMMA RemoveFirstIs ==
    ASSUME NEW S, NEW s \in Seq(S), Once(s), NEW t
    PROVE  /\ \A k \in 1 .. Len(s) : s[k] = t => RemoveFirst(s, t) = RemoveAt(s, k)
           /\ (\A k \in 1 .. Len(s) : s[k] # t) => RemoveFirst(s, t) = s
<1>1. ASSUME NEW k \in 1 .. Len(s), s[k] = t PROVE RemoveFirst(s, t) = RemoveAt(s, k)
  <2>1. {i \in 1 .. Len(s) : s[i] = t} = {k}
    BY <1>1 DEF Once
  <2>2. Min({k}) = k
    BY DEF Min
  <2>3. SelectInSeq(s, LAMBDA v : v = t) = k
    BY <2>1, <2>2 DEF SelectInSeq
  <2> QED
    BY <1>1, <2>3 DEF RemoveFirst
<1>2. ASSUME \A k \in 1 .. Len(s) : s[k] # t PROVE RemoveFirst(s, t) = s
  BY <1>2 DEF RemoveFirst
<1> QED
  BY <1>1, <1>2

\* What a sequence holds once t has been taken out of it.
Without(s, t, r) ==
    /\ Once(r)
    /\ \A x : Among(x, r) <=> x # t /\ Among(x, s)

LEMMA ForgetFacts ==
    ASSUME NEW S, NEW s \in Seq(S), Once(s), NEW t, NEW r, r = RemoveFirst(s, t)
    PROVE  /\ r \in Seq(S) /\ Without(s, t, r)
           /\ Len(r) = IF Among(t, s) THEN Len(s) - 1 ELSE Len(s)
<1>1. CASE \A k \in 1 .. Len(s) : s[k] # t
  <2>1. r = s
    BY <1>1, RemoveFirstIs
  <2> QED
    BY <1>1, <2>1 DEF Without, Among
<1>2. ASSUME NEW k \in 1 .. Len(s), s[k] = t
      PROVE  r \in Seq(S) /\ Without(s, t, r) /\ Len(r) = Len(s) - 1
  <2>1. r = RemoveAt(s, k)
    BY <1>2, RemoveFirstIs
  <2>2. PICK n \in Nat : n = Len(s)
    OBVIOUS
  <2>3. /\ r \in Seq(S) /\ Len(r) = n - 1
        /\ \A i \in 1 .. n - 1 : r[i] = IF i < k THEN s[i] ELSE s[i + 1]
    BY <2>1, <2>2, RemoveFacts
  <2>4. ASSUME NEW i \in 1 .. n - 1, NEW j \in 1 .. n - 1, r[i] = r[j] PROVE i = j
    <3>1. PICK a \in 1 .. n : a = (IF i < k THEN i ELSE i + 1) /\ r[i] = s[a]
      BY <2>2, <2>3
    <3>2. PICK b \in 1 .. n : b = (IF j < k THEN j ELSE j + 1) /\ r[j] = s[b]
      BY <2>2, <2>3
    <3>3. a = b
      BY <2>2, <2>4, <3>1, <3>2 DEF Once
    <3> QED
      BY <3>1, <3>2, <3>3
  <2>5. ASSUME NEW i \in 1 .. n - 1 PROVE r[i] # t /\ \E j \in 1 .. n : s[j] = r[i]
    <3>1. CASE i < k
      BY <3>1, <1>2, <2>2, <2>3 DEF Once
    <3>2. CASE i >= k
      <4>1. i + 1 \in 1 .. n /\ i + 1 # k /\ r[i] = s[i + 1]
        BY <3>2, <2>3, <2>2
      <4> QED
        BY <4>1, <1>2, <2>2 DEF Once
    <3> QED
      BY <3>1, <3>2
  <2>6. ASSUME NEW j \in 1 .. n, s[j] # t PROVE \E i \in 1 .. n - 1 : r[i] = s[j]
    <3>1. CASE j < k
      <4>1. j \in 1 .. n - 1 /\ r[j] = s[j]
        BY <3>1, <2>2, <2>3
      <4> QED
        BY <4>1
    <3>2. CASE j > k
      <4>1. j - 1 \in 1 .. n - 1 /\ ~(j - 1 < k) /\ j - 1 + 1 = j
        BY <3>2, <2>2
      <4>2. r[j - 1] = s[j]
        BY <4>1, <2>3
      <4> QED
        BY <4>1, <4>2
    <3> QED
      BY <3>1, <3>2, <2>6, <1>2, <2>2
  <2>7. ASSUME NEW x PROVE Among(x, r) <=> x # t /\ Among(x, s)
    <3>1. ASSUME NEW i \in 1 .. n - 1, r[i] = x PROVE x # t /\ \E j \in 1 .. n : s[j] = x
      BY <3>1, <2>5
    <3>2. ASSUME NEW j \in 1 .. n, s[j] = x, x # t PROVE \E i \in 1 .. n - 1 : r[i] = x
      BY <3>2, <2>6
    <3> QED
      BY <2>2, <2>3, <3>1, <3>2 DEF Among
  <2>8. Without(s, t, r)
    BY <2>2, <2>3, <2>4, <2>7 DEF Without, Once
  <2> QED
    BY <2>2, <2>3, <2>8
<1> QED
  BY <1>1, <1>2 DEF Among

\* What a sequence holds once t has come to its end.
Touched(s, t, u) ==
    /\ Once(u)
    /\ \A x : Among(x, u) <=> x = t \/ Among(x, s)
    /\ Len(u) = IF Among(t, s) THEN Len(s) ELSE Len(s) + 1

LEMMA TouchFacts ==
    ASSUME NEW S, NEW s \in Seq(S), Once(s), NEW t \in S, NEW u, u = Touch(s, t)
    PROVE  u \in Seq(S) /\ Touched(s, t, u)
<1>1. PICK r : r = RemoveFirst(s, t)
  OBVIOUS
<1>2. /\ r \in Seq(S) /\ Without(s, t, r)
      /\ Len(r) = IF Among(t, s) THEN Len(s) - 1 ELSE Len(s)
  BY <1>1, ForgetFacts
<1>3. u = Append(r, t)
  BY <1>1 DEF Touch
<1>4. PICK n \in Nat : n = Len(r)
  BY <1>2
<1>5. /\ u \in Seq(S) /\ Len(u) = n + 1 /\ u[n + 1] = t
      /\ \A i \in 1 .. n : u[i] = r[i]
  BY <1>2, <1>3, <1>4, AppendProperties
<1>6. \A i \in 1 .. n : r[i] # t
  BY <1>2, <1>4 DEF Without, Among
<1>7. \A i, j \in 1 .. n : r[i] = r[j] => i = j
  BY <1>2, <1>4 DEF Without, Once
<1>8. \A i \in 1 .. n + 1 : i \in 1 .. n \/ i = n + 1
  OBVIOUS
<1>9. \A i, j \in 1 .. n + 1 : u[i] = u[j] => i = j
  BY <1>5, <1>6, <1>7, <1>8
<1>10. ASSUME NEW x PROVE (\E i \in 1 .. n + 1 : u[i] = x) <=> x = t \/ Among(x, s)
  <2>1. (\E i \in 1 .. n : r[i] = x) <=> x # t /\ Among(x, s)
    BY <1>2, <1>4 DEF Without, Among
  <2>2. (\E i \in 1 .. n + 1 : u[i] = x) <=> (\E i \in 1 .. n : r[i] = x) \/ x = t
    BY <1>5, <1>8
  <2> QED
    BY <2>1, <2>2
<1> QED
  BY <1>2, <1>4, <1>5, <1>9, <1>10 DEF Once, Among, Touched

\* The map that belongs to an order has as many entries as the order.
LEMMA HoldsCount ==
    ASSUME NEW s \in Seq(Texts), Once(s)
    PROVE  Cardinality(Holds(s)) = Len(s)
<1>1. PICK n \in Nat : n = Len(s)
  OBVIOUS
<1>2. PICK f : f = [i \in 1 .. n |-> Own(s[i])]
  OBVIOUS
<1>3. DOMAIN f = 1 .. n /\ \A i \in 1 .. n : f[i] = Own(s[i])
  BY <1>2
<1>4. f \in [1 .. n -> Holds(s)]
  BY <1>1, <1>2 DEF Holds
<1>5. \A i, j \in 1 .. n : f[i] = f[j] => i = j
  <2>1. \A x, y : Own(x) = Own(y) => x = y
    BY DEF Own
  <2> QED
    BY <2>1, <1>1, <1>3 DEF Once
<1>6. Range(f) = Holds(s)
  BY <1>1, <1>3 DEF Range, Holds
<1>7. Cardinality(Range(f)) = n
  BY <1>4, <1>5, InjectiveCount
<1> QED
  BY <1>1, <1>6, <1>7

Queried == {NoQuery} \cup QueryRecords

\* The queries after a step: none is forgotten or has its text changed.
Kept ==
    /\ queries' \in [Queries -> Queried] /\ QueryInv'
    /\ \A q \in Queries : queries[q] # NoQuery => queries'[q] # NoQuery /\ queries'[q].text = queries[q].text

\* One query goes on.
LEMMA QueryStep ==
    ASSUME RagInv, NEW q \in Queries, NEW new \in QueryRecords, queries' = [queries EXCEPT ![q] = new],
           queries[q] # NoQuery => new.text = queries[q].text,
           new.step \in {"insert", "search", "ok"} => new.emb = new.text
    PROVE  Kept
<1>1. queries \in [Queries -> Queried] /\ QueryInv
  BY DEF RagInv, RagTypes, Queried
<1>2. new \in Queried /\ new # NoQuery
  BY DEF Queried, QueryRecords, NoQuery
<1>3. /\ queries' \in [Queries -> Queried] /\ queries'[q] = new
      /\ \A p \in Queries : p # q => queries'[p] = queries[p]
  BY <1>1, <1>2
<1>4. QueryInv'
  BY <1>1, <1>3 DEF QueryInv
<1> QED
  BY <1>2, <1>3, <1>4 DEF Kept

\* A query takes a step that leaves its embedding alone.
LEMMA GotoStep ==
    ASSUME RagInv, NEW q \in Queries, queries[q] # NoQuery, NEW step,
           step \in {"embed", "search", "ok", "err"},
           step \in {"search", "ok"} => queries[q].step \in {"insert", "search"},
           queries' = [queries EXCEPT ![q].step = step]
    PROVE  Kept
<1>1. queries[q] \in QueryRecords
  BY DEF RagInv, RagTypes
<1>2. PICK new : new = [queries[q] EXCEPT !.step = step]
  OBVIOUS
<1>3. /\ new \in QueryRecords /\ new.step = step /\ new.emb = queries[q].emb /\ new.text = queries[q].text
  BY <1>1, <1>2 DEF QueryRecords
<1>4. queries' = [queries EXCEPT ![q] = new]
  BY <1>2
<1>5. new.step \in {"insert", "search", "ok"} => new.emb = new.text
  BY <1>3 DEF RagInv, QueryInv
<1> QED
  BY <1>3, <1>4, <1>5, QueryStep

LEMMA QueriesStay ==
    ASSUME RagInv, queries' = queries
    PROVE  Kept
  BY DEF RagInv, RagTypes, QueryInv, Kept, Queried

LEMMA AskedKept ==
    ASSUME Kept, NEW m, Asked(m)
    PROVE  Asked(m)'
<1>1. PICK q \in Queries : q = m.query
  BY DEF Asked
<1>2. queries[q] # NoQuery /\ queries[q].text = m.text /\ (m.type = "Insert" => m.value = m.text)
  BY <1>1 DEF Asked
<1>3. queries'[q] # NoQuery /\ queries'[q].text = m.text
  BY <1>2 DEF Kept
<1> QED
  BY <1>1, <1>2, <1>3 DEF Asked

\* The mailbox after a step holds messages of the one before, and perhaps m.
LEMMA BoxStep ==
    ASSUME RagInv, Kept, NEW box \in Seq(Gets \cup Inserts), cacheBox' = box,
           \A i \in 1 .. Len(box) : Asked(box[i])' \/ \E k \in 1 .. Len(cacheBox) : box[i] = cacheBox[k]
    PROVE  cacheBox' \in Seq(Gets \cup Inserts) /\ BoxInv'
<1>1. ASSUME NEW i \in 1 .. Len(box) PROVE Asked(box[i])'
  <2>1. CASE \E k \in 1 .. Len(cacheBox) : box[i] = cacheBox[k]
    <3>1. PICK m : m = box[i]
      OBVIOUS
    <3>2. Asked(m)
      BY <2>1, <3>1 DEF RagInv, BoxInv
    <3>3. Asked(m)'
      BY <3>2, AskedKept
    <3> QED
      BY <3>1, <3>3
  <2> QED
    BY <2>1
<1> QED
  BY <1>1 DEF BoxInv

\* The message at the head has been handled.
LEMMA BoxTail ==
    ASSUME RagInv, cacheBox # <<>>, cacheBox' = Tail(cacheBox), Kept
    PROVE  cacheBox' \in Seq(Gets \cup Inserts) /\ BoxInv'
<1>1. PICK M : M = Gets \cup Inserts
  OBVIOUS
<1>2. PICK box \in Seq(M) : box = cacheBox
  BY <1>1 DEF RagInv, RagTypes
<1>3. PICK rest : rest = Tail(box)
  OBVIOUS
<1>4. rest \in Seq(M) /\ \A i \in 1 .. Len(rest) : rest[i] = box[i + 1] /\ i + 1 \in 1 .. Len(box)
  BY <1>2, <1>3
<1>5. \A i \in 1 .. Len(rest) : \E k \in 1 .. Len(cacheBox) : rest[i] = cacheBox[k]
  BY <1>2, <1>4
<1>6. cacheBox' = rest
  BY <1>2, <1>3
<1> QED
  BY <1>1, <1>4, <1>5, <1>6, BoxStep

\* A message arrives.
LEMMA BoxAppend ==
    ASSUME RagInv, NEW m, m \in Gets \cup Inserts, cacheBox' = Append(cacheBox, m), Kept, Asked(m)'
    PROVE  cacheBox' \in Seq(Gets \cup Inserts) /\ BoxInv'
<1>1. PICK M : M = Gets \cup Inserts
  OBVIOUS
<1>2. PICK box \in Seq(M) : box = cacheBox
  BY <1>1 DEF RagInv, RagTypes
<1>3. PICK longer : longer = Append(box, m)
  OBVIOUS
<1>4. PICK n \in Nat : n = Len(box)
  BY <1>2
<1>5. /\ longer \in Seq(M) /\ Len(longer) = n + 1 /\ longer[n + 1] = m
      /\ \A i \in 1 .. n : longer[i] = box[i]
  BY <1>1, <1>2, <1>3, <1>4, AppendProperties
<1>6. ASSUME NEW i \in 1 .. Len(longer)
      PROVE  Asked(longer[i])' \/ \E k \in 1 .. Len(cacheBox) : longer[i] = cacheBox[k]
  <2>1. i \in 1 .. n \/ i = n + 1
    BY <1>5
  <2>2. CASE i \in 1 .. n
    BY <2>2, <1>2, <1>4, <1>5
  <2>3. CASE i = n + 1
    BY <2>3, <1>5
  <2> QED
    BY <2>1, <2>2, <2>3
<1>7. cacheBox' = longer
  BY <1>2, <1>3
<1> QED
  BY <1>1, <1>5, <1>6, <1>7, BoxStep

LEMMA BoxStays ==
    ASSUME RagInv, cacheBox' = cacheBox, Kept
    PROVE  cacheBox' \in Seq(Gets \cup Inserts) /\ BoxInv'
<1>1. PICK box \in Seq(Gets \cup Inserts) : box = cacheBox
  BY DEF RagInv, RagTypes
<1>2. cacheBox' = box /\ \A i \in 1 .. Len(box) : \E k \in 1 .. Len(cacheBox) : box[i] = cacheBox[k]
  BY <1>1
<1> QED
  BY <1>1, <1>2, BoxStep

LEMMA CacheStays ==
    ASSUME RagInv, UNCHANGED cacheVars
    PROVE  lru' \in Seq(Texts) /\ CacheInv'
  BY DEF RagInv, RagTypes, CacheInv, cacheVars

\* The order becomes s, and the map and the statistics follow it.
LEMMA CacheFollows ==
    ASSUME NEW s \in Seq(Texts), Once(s), lru' = s,
           embCache' = Holds(s), cacheSize' = Cardinality(embCache') \/ cacheSize' = Len(s),
           Len(s) <= IF Capacity > 0 THEN Capacity ELSE 1
    PROVE  lru' \in Seq(Texts) /\ CacheInv'
<1>1. cacheSize' = Len(s)
  BY HoldsCount
<1> QED
  BY <1>1 DEF CacheInv

\* What the invariant says of the message at the head of the mailbox.
LEMMA HeadFacts ==
    ASSUME RagInv, cacheBox # <<>>, NEW m, m = Head(cacheBox)
    PROVE  /\ m \in Gets \cup Inserts /\ m.query \in Queries /\ m.text \in Texts
           /\ queries[m.query] # NoQuery /\ queries[m.query].text = m.text
           /\ m.type = "Insert" => m \in Inserts /\ m.value = m.text
<1>1. PICK M : M = Gets \cup Inserts
  OBVIOUS
<1>2. PICK box \in Seq(M) : box = cacheBox
  BY <1>1 DEF RagInv, RagTypes
<1>3. m = box[1] /\ 1 \in 1 .. Len(box) /\ box[1] \in M
  BY <1>2
<1>4. m \in Gets \cup Inserts
  BY <1>1, <1>3
<1>5. m.query \in Queries /\ m.text \in Texts /\ (m.type = "Insert" => m \in Inserts)
  BY <1>4 DEF Gets, Inserts
<1>6. Asked(m)
  BY <1>2, <1>3 DEF RagInv, BoxInv
<1> QED
  BY <1>4, <1>5, <1>6 DEF Asked

\* An entry is in the map exactly if its text is in the order.
LEMMA InCacheFacts ==
    ASSUME RagInv
    PROVE  /\ \A t : InCache(t) <=> Among(t, lru)
           /\ \A e \in embCache : e = Own(e.text) /\ e.value = e.text
           /\ \A e : e \in embCache <=> \E i \in 1 .. Len(lru) : e = Own(lru[i])
           /\ \A t : Own(t).text = t /\ Own(t).value = t
           /\ lru \in Seq(Texts) /\ Once(lru)
           /\ Cardinality(embCache) = Len(lru)
<1>1. embCache = Holds(lru) /\ lru \in Seq(Texts) /\ Once(lru)
  BY DEF RagInv, RagTypes, CacheInv
<1>2. \A t : Own(t).text = t /\ Own(t).value = t
  BY DEF Own
<1>3. \A e : e \in embCache <=> \E i \in 1 .. Len(lru) : e = Own(lru[i])
  BY <1>1 DEF Holds
<1>4. \A e \in embCache : e = Own(e.text) /\ e.value = e.text
  BY <1>2, <1>3
<1>5. \A t : InCache(t) <=> Among(t, lru)
  BY <1>2, <1>3 DEF InCache, Among
<1>6. Cardinality(embCache) = Len(lru)
  BY <1>1, HoldsCount
<1> QED
  BY <1>1, <1>2, <1>3, <1>4, <1>5, <1>6

\* A lookup: a hit makes the key the most recent one.
LEMMA GetStep ==
    ASSUME RagInv, CacheGet
    PROVE  RagInv'
<1>1. PICK m : m = Head(cacheBox)
  OBVIOUS
<1>2. PICK t : t = m.text
  OBVIOUS
<1>3. /\ cacheBox # <<>> /\ m.type = "Get" /\ cacheBox' = Tail(cacheBox)
      /\ lru' = (IF InCache(t) THEN Touch(lru, t) ELSE lru) /\ embCache' = embCache /\ cacheSize' = cacheSize
      /\ IF ~QueryAt(m.query, "get") THEN queries' = queries
         ELSE \/ \E e \in embCache : /\ e.text = t
                                     /\ queries' = [queries EXCEPT ![m.query].step = "search", ![m.query].emb = e.value]
              \/ ~InCache(t) /\ QueryGoto(m.query, "embed")
  BY <1>1, <1>2 DEF CacheGet
<1>4. m.query \in Queries /\ t \in Texts /\ queries[m.query] # NoQuery /\ queries[m.query].text = t
  BY <1>1, <1>2, <1>3, HeadFacts
<1>5. Kept
  <2>1. CASE queries' = queries
    BY <2>1, QueriesStay
  <2>2. ASSUME NEW e \in embCache, e.text = t,
               queries' = [queries EXCEPT ![m.query].step = "search", ![m.query].emb = e.value]
        PROVE  Kept
    <3>1. e.value = t
      BY <2>2, InCacheFacts
    <3>2. queries[m.query] \in QueryRecords
      BY <1>4 DEF RagInv, RagTypes
    <3>3. PICK new : new = [queries[m.query] EXCEPT !.step = "search", !.emb = t]
      OBVIOUS
    <3>4. new \in QueryRecords /\ new.emb = t /\ new.text = t
      BY <1>4, <3>2, <3>3 DEF QueryRecords
    <3>5. queries' = [queries EXCEPT ![m.query] = new]
      BY <2>2, <3>1, <3>3
    <3> QED
      BY <1>4, <3>4, <3>5, QueryStep
  <2>3. CASE QueryGoto(m.query, "embed")
    BY <2>3, <1>4, GotoStep DEF QueryGoto
  <2> QED
    BY <1>3, <2>1, <2>2, <2>3
<1>6. cacheBox' \in Seq(Gets \cup Inserts) /\ BoxInv'
  BY <1>3, <1>5, BoxTail
<1>7. lru' \in Seq(Texts) /\ CacheInv'
  <2>1. CASE ~InCache(t)
    BY <2>1, <1>3, CacheStays DEF cacheVars
  <2>2. CASE InCache(t)
    <3>1. PICK u : u = Touch(lru, t)
      OBVIOUS
    <3>2. /\ u \in Seq(Texts)
          /\ Once(u)
          /\ \A x : Among(x, u) <=> x = t \/ Among(x, lru)
          /\ Len(u) = IF Among(t, lru) THEN Len(lru) ELSE Len(lru) + 1
      <4>1. PICK s \in Seq(Texts) : s = lru /\ Once(s)
        BY InCacheFacts
      <4>2. /\ u \in Seq(Texts) /\ Once(u) /\ \A x : Among(x, u) <=> x = t \/ Among(x, s)
            /\ Len(u) = IF Among(t, s) THEN Len(s) ELSE Len(s) + 1
        <5>1. u \in Seq(Texts) /\ Touched(s, t, u)
          BY <3>1, <4>1, <1>4, TouchFacts
        <5> QED
          BY <5>1 DEF Touched
      <4> QED
        BY <4>1, <4>2
    <3>3. Among(t, lru)
      BY <2>2, InCacheFacts
    <3>4. Len(u) = Len(lru) /\ \A x : Among(x, u) <=> Among(x, lru)
      BY <3>2, <3>3
    <3>5. Holds(u) = embCache
      <4>1. \A e : e \in embCache <=> \E i \in 1 .. Len(lru) : e = Own(lru[i])
        BY InCacheFacts
      <4>2. \A e : e \in Holds(u) <=> \E i \in 1 .. Len(u) : e = Own(u[i])
        BY DEF Holds
      <4>3. ASSUME NEW e \in embCache PROVE e \in Holds(u)
        <5>1. PICK i \in 1 .. Len(lru) : e = Own(lru[i])
          BY <4>1
        <5>2. PICK j \in 1 .. Len(u) : u[j] = lru[i]
          BY <3>4 DEF Among
        <5> QED
          BY <5>1, <5>2, <4>2
      <4>4. ASSUME NEW e \in Holds(u) PROVE e \in embCache
        <5>1. PICK i \in 1 .. Len(u) : e = Own(u[i])
          BY <4>2
        <5>2. PICK j \in 1 .. Len(lru) : lru[j] = u[i]
          BY <3>4 DEF Among
        <5> QED
          BY <5>1, <5>2, <4>1
      <4> QED
        BY <4>3, <4>4
    <3>6. lru' = u /\ embCache' = Holds(u) /\ cacheSize' = Len(u)
      BY <1>3, <2>2, <3>1, <3>4, <3>5 DEF RagInv, CacheInv
    <3>7. Len(u) <= IF Capacity > 0 THEN Capacity ELSE 1
      BY <3>4 DEF RagInv, CacheInv
    <3> QED
      BY <3>2, <3>6, <3>7, CacheFollows
  <2> QED
    BY <2>1, <2>2
<1> QED
  BY <1>5, <1>6, <1>7 DEF RagInv, RagTypes, Kept, Queried

\* The map that belongs to an order holds the entries of its texts.
LEMMA HoldsFacts ==
    ASSUME NEW s, NEW e
    PROVE  e \in Holds(s) <=> \E x : Among(x, s) /\ e = Own(x)
  BY DEF Holds, Among

\* The order without its least recent key.
LEMMA VictimFacts ==
    ASSUME NEW S, NEW s \in Seq(S), Once(s), s # <<>>, NEW r, r = Tail(s)
    PROVE  /\ r \in Seq(S) /\ Once(r) /\ Len(r) = Len(s) - 1
           /\ \A x : Among(x, r) <=> Among(x, s) /\ x # Head(s)
<1>1. PICK n \in Nat : n = Len(s) /\ n > 0
  OBVIOUS
<1>2. r \in Seq(S) /\ Len(r) = n - 1 /\ \A i \in 1 .. n - 1 : r[i] = s[i + 1]
  BY <1>1
<1>3. Head(s) = s[1]
  OBVIOUS
<1>4. \A i \in 1 .. n - 1 : i + 1 \in 1 .. n /\ i + 1 # 1
  BY <1>1
<1>5. Once(r)
  <2> SUFFICES ASSUME NEW i \in 1 .. n - 1, NEW j \in 1 .. n - 1, r[i] = r[j] PROVE i = j
    BY <1>1, <1>2 DEF Once
  <2>1. s[i + 1] = s[j + 1] /\ i + 1 \in 1 .. n /\ j + 1 \in 1 .. n
    BY <1>2, <1>4
  <2>2. i + 1 = j + 1
    BY <2>1, <1>1 DEF Once
  <2> QED
    BY <2>2
<1>6. ASSUME NEW x, Among(x, r) PROVE Among(x, s) /\ x # Head(s)
  <2>1. PICK i \in 1 .. n - 1 : r[i] = x
    BY <1>6, <1>1, <1>2 DEF Among
  <2>2. i + 1 \in 1 .. n /\ 1 \in 1 .. n /\ i + 1 # 1 /\ s[i + 1] = x
    BY <2>1, <1>1, <1>2
  <2>3. s[i + 1] # s[1]
    BY <2>2, <1>1 DEF Once
  <2> QED
    BY <2>2, <2>3, <1>1, <1>3 DEF Among
<1>7. ASSUME NEW x, Among(x, s), x # Head(s) PROVE Among(x, r)
  <2>1. PICK k \in 1 .. n : s[k] = x
    BY <1>7, <1>1 DEF Among
  <2>2. k # 1
    BY <2>1, <1>3, <1>7
  <2>3. k - 1 \in 1 .. n - 1 /\ k - 1 + 1 = k
    BY <2>2
  <2>4. r[k - 1] = x
    BY <2>1, <2>3, <1>2
  <2> QED
    BY <2>3, <2>4, <1>2, <1>1 DEF Among
<1> QED
  BY <1>1, <1>2, <1>5, <1>6, <1>7

\* An insert takes the place of the least recent entry when the map is full.
LEMMA EmbeddingInsertStep ==
    ASSUME RagInv, CacheInsert
    PROVE  RagInv'
<1>1. PICK m : m = Head(cacheBox)
  OBVIOUS
<1>2. PICK t : t = m.text
  OBVIOUS
<1>3. PICK full \in BOOLEAN : full <=> Cardinality(embCache) >= Capacity /\ ~InCache(t) /\ lru # <<>>
  OBVIOUS
<1>4. PICK base : base = IF full THEN Tail(lru) ELSE lru
  OBVIOUS
<1>5. PICK kept : kept = {e \in embCache : e.text # t /\ (full => e.text # Head(lru))}
  OBVIOUS
<1>6. /\ cacheBox # <<>> /\ m.type = "Insert" /\ cacheBox' = Tail(cacheBox)
      /\ lru' = Touch(base, t) /\ cacheSize' = Cardinality(embCache')
      /\ embCache' = kept \cup {[text |-> t, value |-> m.value]}
      /\ IF QueryAt(m.query, "insert") THEN QueryGoto(m.query, "search") ELSE queries' = queries
  <2>1. (Cardinality(embCache) >= Capacity /\ ~InCache(t) /\ lru # <<>>) = full
    BY <1>3
  <2> QED
    BY <1>1, <1>2, <1>4, <1>5, <2>1 DEF CacheInsert
<1>7. m.query \in Queries /\ t \in Texts /\ m.value = t /\ queries[m.query] # NoQuery
  BY <1>1, <1>2, <1>6, HeadFacts
<1>8. Kept
  <2>1. CASE queries' = queries
    BY <2>1, QueriesStay
  <2>2. CASE QueryAt(m.query, "insert") /\ QueryGoto(m.query, "search")
    BY <2>2, <1>7, GotoStep DEF QueryGoto, QueryAt
  <2> QED
    BY <1>6, <2>1, <2>2
<1>9. cacheBox' \in Seq(Gets \cup Inserts) /\ BoxInv'
  BY <1>6, <1>8, BoxTail
<1>10. PICK s \in Seq(Texts) : s = lru /\ Once(s) /\ Cardinality(embCache) = Len(s)
  BY InCacheFacts
<1>11. /\ base \in Seq(Texts) /\ Once(base) /\ Len(base) = IF full THEN Len(s) - 1 ELSE Len(s)
       /\ \A x : Among(x, base) <=> Among(x, s) /\ (full => x # Head(s))
  <2>1. CASE full
    <3>1. base = Tail(s) /\ s # <<>>
      BY <2>1, <1>3, <1>4, <1>10
    <3> QED
      BY <2>1, <3>1, <1>10, VictimFacts
  <2>2. CASE ~full
    BY <2>2, <1>4, <1>10
  <2> QED
    BY <2>1, <2>2
<1>12. PICK u : u = Touch(base, t)
  OBVIOUS
<1>13. /\ u \in Seq(Texts) /\ Once(u) /\ \A x : Among(x, u) <=> x = t \/ Among(x, base)
       /\ Len(u) = IF Among(t, base) THEN Len(base) ELSE Len(base) + 1
  <2>1. u \in Seq(Texts) /\ Touched(base, t, u)
    BY <1>7, <1>11, <1>12, TouchFacts
  <2> QED
    BY <2>1 DEF Touched
<1>14. embCache' = Holds(u)
  <2>1. /\ \A e \in embCache : e = Own(e.text)
        /\ \A x : Own(x).text = x
        /\ embCache = Holds(s)
    BY <1>10, InCacheFacts DEF RagInv, CacheInv
  <2>2. [text |-> t, value |-> m.value] = Own(t)
    BY <1>7 DEF Own
  <2>3. ASSUME NEW e \in embCache' PROVE e \in Holds(u)
    <3>1. CASE e = Own(t)
      BY <3>1, <1>13, HoldsFacts
    <3>2. CASE e \in kept
      <4>1. e \in Holds(s) /\ e = Own(e.text) /\ e.text # t /\ (full => e.text # Head(s))
        BY <3>2, <1>5, <1>10, <2>1
      <4>2. PICK x : Among(x, s) /\ e = Own(x)
        BY <4>1, HoldsFacts
      <4>3. x = e.text
        BY <4>2, <2>1
      <4>4. Among(x, u)
        BY <4>1, <4>2, <4>3, <1>11, <1>13
      <4> QED
        BY <4>2, <4>4, HoldsFacts
    <3> QED
      BY <1>6, <2>2, <2>3, <3>1, <3>2
  <2>4. ASSUME NEW e \in Holds(u) PROVE e \in embCache'
    <3>1. PICK x : Among(x, u) /\ e = Own(x)
      BY <2>4, HoldsFacts
    <3>2. CASE x = t
      BY <3>1, <3>2, <1>6, <2>2
    <3>3. CASE x # t
      <4>1. Among(x, s) /\ (full => x # Head(s))
        BY <3>1, <3>3, <1>11, <1>13
      <4>2. e \in embCache /\ e.text = x
        BY <3>1, <4>1, <2>1, HoldsFacts
      <4>3. e \in kept
        BY <3>3, <4>1, <4>2, <1>5, <1>10
      <4> QED
        BY <4>3, <1>6
    <3> QED
      BY <3>2, <3>3
  <2> QED
    BY <2>3, <2>4
<1>15. Len(u) <= IF Capacity > 0 THEN Capacity ELSE 1
  <2>1. Len(s) \in Nat /\ Len(s) <= (IF Capacity > 0 THEN Capacity ELSE 1) /\ Capacity \in Nat
    BY <1>10, RagAssumption DEF RagInv, CacheInv
  <2>2. InCache(t) <=> Among(t, s)
    BY <1>10, InCacheFacts
  <2>3. CASE full
    BY <2>1, <2>3, <1>11, <1>13
  <2>4. CASE ~full /\ Among(t, s)
    BY <2>1, <2>4, <1>11, <1>13
  <2>5. CASE ~full /\ ~Among(t, s)
    <3>1. Len(s) < Capacity \/ s = <<>>
      BY <2>1, <2>2, <2>5, <1>3, <1>10
    <3>2. Len(u) = Len(s) + 1
      BY <2>5, <1>11, <1>13
    <3> QED
      BY <2>1, <3>1, <3>2
  <2> QED
    BY <2>3, <2>4, <2>5
<1>16. lru' \in Seq(Texts) /\ CacheInv'
  BY <1>6, <1>12, <1>13, <1>14, <1>15, CacheFollows
<1> QED
  BY <1>8, <1>9, <1>16 DEF RagInv, RagTypes, Kept, Queried

\* An invalidation takes the entry and its key out.
LEMMA InvalidateStep ==
    ASSUME RagInv, NEW t \in Texts, Invalidate(t)
    PROVE  RagInv'
<1>1. /\ InCache(t) /\ embCache' = {e \in embCache : e.text # t} /\ lru' = RemoveFirst(lru, t)
      /\ cacheSize' = Cardinality(embCache') /\ cacheBox' = cacheBox /\ queries' = queries
  BY DEF Invalidate, Forget
<1>2. Kept
  BY <1>1, QueriesStay
<1>3. cacheBox' \in Seq(Gets \cup Inserts) /\ BoxInv'
  BY <1>1, <1>2, BoxStays
<1>4. PICK s \in Seq(Texts) : s = lru /\ Once(s)
  BY InCacheFacts
<1>5. PICK r : r = RemoveFirst(s, t)
  OBVIOUS
<1>6. r \in Seq(Texts) /\ Without(s, t, r) /\ Len(r) = IF Among(t, s) THEN Len(s) - 1 ELSE Len(s)
  BY <1>4, <1>5, ForgetFacts
<1>7. Once(r) /\ \A x : Among(x, r) <=> x # t /\ Among(x, s)
  BY <1>6 DEF Without
<1>8. embCache' = Holds(r)
  <2>1. /\ \A e \in embCache : e = Own(e.text)
        /\ \A x : Own(x).text = x
        /\ embCache = Holds(s)
    BY <1>4, InCacheFacts DEF RagInv, CacheInv
  <2>2. ASSUME NEW e \in embCache' PROVE e \in Holds(r)
    <3>1. e \in Holds(s) /\ e.text # t
      BY <2>1, <2>2, <1>1
    <3>2. PICK x : Among(x, s) /\ e = Own(x)
      BY <3>1, HoldsFacts
    <3>3. Among(x, r)
      BY <3>1, <3>2, <2>1, <1>7
    <3> QED
      BY <3>2, <3>3, HoldsFacts
  <2>3. ASSUME NEW e \in Holds(r) PROVE e \in embCache'
    <3>1. PICK x : Among(x, r) /\ e = Own(x)
      BY <2>3, HoldsFacts
    <3>2. Among(x, s) /\ e.text # t
      BY <3>1, <2>1, <1>7
    <3>3. e \in embCache
      BY <3>1, <3>2, <2>1, HoldsFacts
    <3> QED
      BY <3>2, <3>3, <1>1
  <2> QED
    BY <2>2, <2>3
<1>9. Len(r) <= IF Capacity > 0 THEN Capacity ELSE 1
  <2>1. Len(s) \in Nat /\ Len(s) <= (IF Capacity > 0 THEN Capacity ELSE 1) /\ Capacity \in Nat
    BY <1>4, RagAssumption DEF RagInv, CacheInv
  <2> QED
    BY <2>1, <1>6
<1>10. lru' \in Seq(Texts) /\ CacheInv'
  BY <1>1, <1>4, <1>5, <1>6, <1>7, <1>8, <1>9, CacheFollows
<1> QED
  BY <1>2, <1>3, <1>10 DEF RagInv, RagTypes, Kept, Queried

\* A query begins with a lookup.
LEMMA AskStep ==
    ASSUME RagInv, NEW q \in Queries, NEW t \in Texts, Query(q, t)
    PROVE  RagInv'
<1>1. PICK new : new = [step |-> "get", text |-> t, emb |-> NoText]
  OBVIOUS
<1>2. PICK m : m = [type |-> "Get", query |-> q, text |-> t]
  OBVIOUS
<1>3. /\ queries[q] = NoQuery /\ queries' = [queries EXCEPT ![q] = new]
      /\ cacheBox' = Append(cacheBox, m) /\ UNCHANGED cacheVars
  BY <1>1, <1>2 DEF Query
<1>4. new \in QueryRecords /\ new.step = "get" /\ new.text = t /\ new # NoQuery
  BY <1>1 DEF QueryRecords, NoQuery
<1>5. Kept
  BY <1>3, <1>4, QueryStep
<1>6. m \in Gets \cup Inserts /\ m.query = q /\ m.text = t /\ m.type = "Get"
  BY <1>2 DEF Gets
<1>7. Asked(m)'
  <2>1. queries'[q] = new
    BY <1>3 DEF RagInv, RagTypes
  <2> QED
    BY <2>1, <1>4, <1>6 DEF Asked
<1>8. cacheBox' \in Seq(Gets \cup Inserts) /\ BoxInv'
  BY <1>3, <1>5, <1>6, <1>7, BoxAppend
<1>9. lru' \in Seq(Texts) /\ CacheInv'
  BY <1>3, CacheStays
<1> QED
  BY <1>5, <1>8, <1>9 DEF RagInv, RagTypes, Kept, Queried

\* A miss: the embedding of the query's own text goes to the cache.
LEMMA EmbedStep ==
    ASSUME RagInv, NEW q \in Queries, Embed(q)
    PROVE  RagInv'
<1>1. PICK t : t = queries[q].text
  OBVIOUS
<1>2. queries[q].step = "embed" /\ UNCHANGED cacheVars
  BY DEF Embed, QueryAt
<1>3. queries[q] # NoQuery
  <2>1. NoQuery.step = "none"
    BY DEF NoQuery
  <2> QED
    BY <2>1, <1>2
<1>4. queries[q] \in QueryRecords /\ t \in Texts
  <2>1. queries[q] \in QueryRecords
    BY <1>3 DEF RagInv, RagTypes
  <2> QED
    BY <2>1, <1>1 DEF QueryRecords
<1>5. lru' \in Seq(Texts) /\ CacheInv'
  BY <1>2, CacheStays
<1>6. CASE QueryFails(q) /\ cacheBox' = cacheBox
  <2>1. Kept
    BY <1>3, <1>6, GotoStep DEF QueryFails
  <2>2. cacheBox' \in Seq(Gets \cup Inserts) /\ BoxInv'
    BY <1>6, <2>1, BoxStays
  <2> QED
    BY <1>5, <2>1, <2>2 DEF RagInv, RagTypes, Kept, Queried
<1>7. CASE /\ queries' = [queries EXCEPT ![q].step = "insert", ![q].emb = t]
           /\ cacheBox' = Append(cacheBox, [type |-> "Insert", query |-> q, text |-> t, value |-> t])
  <2>1. PICK new : new = [queries[q] EXCEPT !.step = "insert", !.emb = t]
    OBVIOUS
  <2>2. new \in QueryRecords /\ new.emb = t /\ new.text = t /\ new # NoQuery
    BY <1>1, <1>4, <2>1 DEF QueryRecords, NoQuery
  <2>3. queries' = [queries EXCEPT ![q] = new]
    BY <1>7, <2>1
  <2>4. Kept
    BY <1>1, <2>2, <2>3, QueryStep
  <2>5. PICK m : m = [type |-> "Insert", query |-> q, text |-> t, value |-> t]
    OBVIOUS
  <2>6. m \in Gets \cup Inserts /\ m.query = q /\ m.text = t /\ m.value = t
    BY <1>4, <2>5 DEF Inserts
  <2>7. Asked(m)'
    <3>1. queries'[q] = new
      BY <2>3 DEF RagInv, RagTypes
    <3> QED
      BY <3>1, <2>2, <2>6 DEF Asked
  <2>8. cacheBox' \in Seq(Gets \cup Inserts) /\ BoxInv'
    BY <1>7, <2>4, <2>5, <2>6, <2>7, BoxAppend
  <2> QED
    BY <1>5, <2>4, <2>8 DEF RagInv, RagTypes, Kept, Queried
<1> QED
  BY <1>1, <1>6, <1>7 DEF Embed

\* The other steps of a query: a timeout, the search and the answer.
LEMMA GoOnStep ==
    ASSUME RagInv, NEW q \in Queries, AskTimeout(q) \/ Search(q)
    PROVE  RagInv'
<1>1. UNCHANGED cacheVars /\ cacheBox' = cacheBox
  BY DEF AskTimeout, Search
<1>2. queries[q].step \in {"get", "insert", "search"}
  BY DEF AskTimeout, Search, QueryAt
<1>3. queries[q] # NoQuery
  <2>1. NoQuery.step = "none"
    BY DEF NoQuery
  <2> QED
    BY <2>1, <1>2
<1>4. Kept
  <2>1. CASE QueryFails(q)
    BY <1>3, <2>1, GotoStep DEF QueryFails
  <2>2. CASE QueryAt(q, "insert") /\ QueryGoto(q, "search")
    BY <1>3, <2>2, GotoStep DEF QueryAt, QueryGoto
  <2>3. CASE QueryAt(q, "search") /\ QueryGoto(q, "ok")
    BY <1>3, <2>3, GotoStep DEF QueryAt, QueryGoto
  <2> QED
    BY <2>1, <2>2, <2>3 DEF AskTimeout, Search
<1>5. cacheBox' \in Seq(Gets \cup Inserts) /\ BoxInv'
  BY <1>1, <1>4, BoxStays
<1>6. lru' \in Seq(Texts) /\ CacheInv'
  BY <1>1, CacheStays
<1> QED
  BY <1>4, <1>5, <1>6 DEF RagInv, RagTypes, Kept, Queried

LEMMA RestStep ==
    ASSUME RagInv, UNCHANGED cacheVars, cacheBox' = cacheBox, queries' = queries
    PROVE  RagInv'
<1>1. Kept
  BY QueriesStay
<1>2. cacheBox' \in Seq(Gets \cup Inserts) /\ BoxInv'
  BY <1>1, BoxStays
<1>3. lru' \in Seq(Texts) /\ CacheInv'
  BY CacheStays
<1> QED
  BY <1>1, <1>2, <1>3 DEF RagInv, RagTypes, Kept, Queried

LEMMA RagInitially == RagInit => RagInv
<1> SUFFICES ASSUME RagInit PROVE RagInv
  OBVIOUS
<1>1. <<>> \in Seq(Texts) /\ <<>> \in Seq(Gets \cup Inserts)
  OBVIOUS
<1>2. RagTypes
  BY <1>1 DEF RagInit, RagTypes
<1>3. Holds(<<>>) = {}
  BY DEF Holds
<1>4. CacheInv
  BY <1>3, RagAssumption DEF RagInit, CacheInv, Once
<1>5. BoxInv
  BY DEF RagInit, BoxInv
<1>6. QueryInv
  BY DEF RagInit, QueryInv, NoQuery
<1> QED
  BY <1>2, <1>4, <1>5, <1>6 DEF RagInv

LEMMA RagInduction == RagInv /\ [RagNext]_ragVars => RagInv'
<1> SUFFICES ASSUME RagInv, [RagNext]_ragVars PROVE RagInv'
  OBVIOUS
<1>1. CASE CacheGet
  BY <1>1, GetStep
<1>2. CASE CacheInsert
  BY <1>2, EmbeddingInsertStep
<1>3. ASSUME NEW t \in Texts, Invalidate(t) PROVE RagInv'
  BY <1>3, InvalidateStep
<1>4. ASSUME NEW q \in Queries, NEW t \in Texts, Query(q, t) PROVE RagInv'
  BY <1>4, AskStep
<1>5. ASSUME NEW q \in Queries, Embed(q) \/ AskTimeout(q) \/ Search(q) PROVE RagInv'
  BY <1>5, EmbedStep, GoOnStep
<1>6. ASSUME NEW d \in Docs, IndexInsert(d) PROVE RagInv'
  BY <1>6, RestStep DEF IndexInsert
<1>7. CASE UNCHANGED ragVars
  BY <1>7, RestStep DEF ragVars, cacheVars
<1> QED
  BY <1>1, <1>2, <1>3, <1>4, <1>5, <1>6, <1>7 DEF RagNext

LEMMA HonestFollows == RagInv => CacheHonest
<1> SUFFICES ASSUME RagInv PROVE CacheHonest
  OBVIOUS
<1>1. PICK s \in Seq(Texts) : s = lru /\ Once(s) /\ Cardinality(embCache) = Len(s)
  BY InCacheFacts
<1>2. DOMAIN s = 1 .. Len(s)
  BY <1>1
<1>3. IsInjective(lru)
  BY <1>1, <1>2 DEF IsInjective, Once
<1>4. Range(lru) = {e.text : e \in embCache}
  <2>1. \A x : x \in Range(s) <=> Among(x, s)
    BY <1>2 DEF Range, Among
  <2>2. \A x : Among(x, s) <=> \E e \in embCache : e.text = x
    BY <1>1, InCacheFacts DEF InCache
  <2> QED
    BY <2>1, <2>2, <1>1
<1>5. /\ cacheSize = Len(lru) /\ cacheSize = Cardinality(embCache)
      /\ cacheSize <= IF Capacity > 0 THEN Capacity ELSE 1
  BY <1>1 DEF RagInv, CacheInv
<1>6. \A e \in embCache : e.value = e.text
  BY InCacheFacts
<1>7. \A q \in Queries : QueryAt(q, "search") \/ QueryAt(q, "ok") => queries[q].emb = queries[q].text
  BY DEF RagInv, QueryInv, QueryAt
<1> QED
  BY <1>3, <1>4, <1>5, <1>6, <1>7 DEF CacheHonest

\* For any texts, capacity and number of queries: the order, the map and the size of
\* the EmbeddingCache agree and keep to the capacity, and run_rag searches with the
\* embedding of its own text, whatever lookups, late inserts, evictions,
\* invalidations and timeouts come between (embedding_cache.rs, rag.rs).
THEOREM CacheStaysHonest == RagSpec => []CacheHonest
  BY RagInitially, RagInduction, HonestFollows, PTL DEF RagSpec

-----------------------------------------------------------------------------
(* The staged computations. *)

Results == {"none", "ok", "err"}
Cascades == [kind : {"cascade"}, result : Results, stages : Nat, log : Seq(Nat)]
Decodings == [kind : {"decode"}, result : Results, prefix : Nat, len : Nat]
Keys(g) == g.nodes \cup {e[2] : e \in g.edges}
GraphRuns(g) ==
    [kind : {"graph"}, result : Results, graph : {g}, degree : [Keys(g) -> Nat], queue : Seq(Keys(g)),
     order : Seq(Keys(g)), log : Seq(Keys(g)), sorted : BOOLEAN]

\* The edges into x from nodes that have not been visited.
Open(g, x, order) == {e \in g.edges : e[2] = x /\ ~Among(e[1], order)}

\* Every predecessor of a node comes before it.
Ordered(g, order) ==
    \A i \in 1 .. Len(order) : \A e \in g.edges : e[2] = order[i] => \E j \in 1 .. i - 1 : order[j] = e[1]

\* Kahn's algorithm: the degrees count the open edges, only nodes without one
\* are queued, and the nodes visited so far are in order.
Sorting(r) ==
    /\ \A x \in Keys(r.graph) : r.degree[x] = Cardinality(Open(r.graph, x, r.order))
    /\ \A i \in 1 .. Len(r.queue) : Open(r.graph, r.queue[i], r.order) = {}
    /\ Once(r.order) /\ Ordered(r.graph, r.order)

\* The run goes through the order.
Followed(r) ==
    /\ Len(r.log) <= Len(r.order)
    /\ \A i \in 1 .. Len(r.log) : r.log[i] = r.order[i] /\ r.log[i] \in r.graph.nodes
    /\ r.sorted => Len(r.order) = Cardinality(r.graph.nodes)
    /\ ~r.sorted => r.log = <<>>
    /\ r.result = "ok" => r.sorted /\ Len(r.log) = Len(r.order)

RunInv ==
    \/ run = NoRun
    \/ run \in Cascades /\ \A i \in 1 .. Len(run.log) : run.log[i] = i
    \/ run \in Decodings /\ (run.len <= MaxTokens \/ run.len = run.prefix)
    \/ \E g \in Graphs : run \in GraphRuns(g) /\ Sorting(run) /\ Followed(run)

Items == [item : Nat, stage : Nat, result : Results]
Inside == IF driver \in {Waiting, Ended} THEN 0 ELSE 1
Whole(d) == d.result = "ok" => d.stage > NumStages

PipeTypes ==
    /\ head \in Seq(Nat) /\ tail \in Seq(Items) /\ received \in Seq(Items)
    /\ driver \in {Waiting, Ended} \cup Items
    /\ submitted \in Nat /\ source \in BOOLEAN

\* While the source exists, the results, the item in the pipeline and the waiting
\* items are the submitted ones in order.
InLine ==
    /\ \A i \in 1 .. Len(tail) : tail[i].item = Len(received) + i /\ Whole(tail[i])
    /\ driver \in Items => driver.item = Len(received) + Len(tail) + 1
    /\ \A i \in 1 .. Len(head) : head[i] = Len(received) + Len(tail) + Inside + i
    /\ driver # Ended => submitted = Len(received) + Len(tail) + Inside + Len(head)

PipeInv ==
    /\ PipeTypes
    /\ \A i \in 1 .. Len(received) : received[i].item = i /\ Whole(received[i])
    /\ driver \in Items => Whole(driver)
    /\ source => InLine

StagedInv == RunInv /\ PipeInv

\* Runs of different kinds do not share a state.
LEMMA KindFacts ==
    ASSUME RunInv
    PROVE  /\ run.kind = "cascade" => run \in Cascades /\ \A i \in 1 .. Len(run.log) : run.log[i] = i
           /\ run.kind = "decode" => run \in Decodings /\ (run.len <= MaxTokens \/ run.len = run.prefix)
           /\ run.kind = "graph" => \E g \in Graphs : run \in GraphRuns(g) /\ Sorting(run) /\ Followed(run)
<1>1. CASE run = NoRun
  BY <1>1 DEF NoRun
<1>2. CASE run \in Cascades /\ \A i \in 1 .. Len(run.log) : run.log[i] = i
  <2>1. run.kind = "cascade"
    BY <1>2 DEF Cascades
  <2> QED
    BY <1>2, <2>1
<1>3. CASE run \in Decodings /\ (run.len <= MaxTokens \/ run.len = run.prefix)
  <2>1. run.kind = "decode"
    BY <1>3 DEF Decodings
  <2> QED
    BY <1>3, <2>1
<1>4. CASE \E g \in Graphs : run \in GraphRuns(g) /\ Sorting(run) /\ Followed(run)
  <2>1. run.kind = "graph"
    BY <1>4 DEF GraphRuns
  <2> QED
    BY <1>4, <2>1
<1> QED
  BY <1>1, <1>2, <1>3, <1>4 DEF RunInv

LEMMA PipeStays ==
    ASSUME PipeInv, UNCHANGED pipe
    PROVE  PipeInv'
<1>1. /\ head' = head /\ tail' = tail /\ driver' = driver /\ submitted' = submitted
      /\ received' = received /\ source' = source
  BY DEF pipe
<1>2. Inside' = Inside
  BY <1>1 DEF Inside
<1>3. InLine' <=> InLine
  BY <1>1, <1>2 DEF InLine
<1> QED
  BY <1>1, <1>3 DEF PipeInv, PipeTypes

LEMMA RunStays ==
    ASSUME RunInv, run' = run
    PROVE  RunInv'
  BY DEF RunInv

\* A stage of the cascade, and its end.
LEMMA CascadeSteps ==
    ASSUME StagedInv, CascadeRefused \/ CascadeStage
    PROVE  StagedInv'
<1>1. run.kind = "cascade" /\ UNCHANGED pipe
  BY DEF CascadeRefused, CascadeStage, Going, RunEnds
<1>2. run \in Cascades /\ \A i \in 1 .. Len(run.log) : run.log[i] = i
  BY <1>1, KindFacts DEF StagedInv
<1>3. PICK log \in Seq(Nat) : log = run.log
  BY <1>2 DEF Cascades
<1>4. RunInv'
  <2>1. CASE CascadeRefused
    <3>1. run' = [run EXCEPT !.result = "err"]
      BY <2>1 DEF CascadeRefused, RunEnds
    <3>2. run' \in Cascades /\ run'.log = run.log
      BY <3>1, <1>2 DEF Cascades, Results
    <3> QED
      BY <3>2, <1>2 DEF RunInv
  <2>2. CASE CascadeStage
    <3>1. PICK longer : longer = Append(log, Len(log) + 1)
      OBVIOUS
    <3>2. PICK ran : ran = [run EXCEPT !.log = longer]
      OBVIOUS
    <3>3. PICK r \in Results : run' = [ran EXCEPT !.result = r]
      <4>1. \/ run' = [ran EXCEPT !.result = "err"] \/ run' = [ran EXCEPT !.result = "ok"]
            \/ run' = [ran EXCEPT !.result = IF Len(ran.log) = run.stages THEN "ok" ELSE "none"]
        BY <2>2, <3>1, <3>2, <1>3 DEF CascadeStage
      <4> QED
        BY <4>1 DEF Results
    <3>4. PICK n \in Nat : n = Len(log)
      BY <1>3
    <3>5. longer \in Seq(Nat) /\ Len(longer) = n + 1 /\ \A i \in 1 .. n + 1 : longer[i] = IF i <= n THEN log[i] ELSE n + 1
      BY <3>1, <3>4
    <3>6. run' \in Cascades /\ run'.log = longer
      BY <3>2, <3>3, <3>5, <1>2 DEF Cascades
    <3>7. \A i \in 1 .. n + 1 : longer[i] = i
      <4>1. \A i \in 1 .. n : log[i] = i
        BY <3>4, <1>2, <1>3
      <4> QED
        BY <3>4, <3>5, <4>1
    <3> QED
      BY <3>5, <3>6, <3>7 DEF RunInv
  <2> QED
    BY <2>1, <2>2
<1> QED
  BY <1>1, <1>4, PipeStays DEF StagedInv

\* A round of decoding, and its end.
LEMMA DecodeSteps ==
    ASSUME StagedInv,
           \/ \E d \in 1 .. DraftLen + 1, a \in 0 .. DraftLen + 1, replaced \in BOOLEAN : DecodeRound(d, a, replaced)
           \/ DecodeEnds \/ DecodeFails
    PROVE  StagedInv'
<1>1. run.kind = "decode" /\ UNCHANGED pipe
  BY DEF DecodeRound, DecodeEnds, DecodeFails, Going, RunEnds
<1>2. run \in Decodings /\ (run.len <= MaxTokens \/ run.len = run.prefix)
  BY <1>1, KindFacts DEF StagedInv
<1>3. run.len \in Nat /\ run.prefix \in Nat /\ MaxTokens \in Nat /\ DraftLen \in Nat
  BY <1>2, StagedRunsAssumption DEF Decodings
<1>4. RunInv'
  <2>1. CASE DecodeEnds \/ DecodeFails
    <3>1. PICK r \in Results : run' = [run EXCEPT !.result = r]
      BY <2>1 DEF DecodeEnds, DecodeFails, RunEnds, Results
    <3>2. run' \in Decodings /\ run'.len = run.len /\ run'.prefix = run.prefix
      BY <3>1, <1>2 DEF Decodings
    <3> QED
      BY <3>2, <1>2 DEF RunInv
  <2>2. ASSUME NEW d \in 1 .. DraftLen + 1, NEW a \in 0 .. DraftLen + 1, NEW replaced \in BOOLEAN,
               DecodeRound(d, a, replaced)
        PROVE  RunInv'
    <3>1. PICK rest \in Nat : rest = MaxTokens - run.len
      <4>1. run.len < MaxTokens
        BY <2>2 DEF DecodeRound
      <4> QED
        BY <4>1, <1>3
    <3>2. PICK candidates \in 0 .. rest : candidates = Candidates(d, rest)
      BY <3>1, <1>3 DEF Candidates, AtMost
    <3>3. PICK acc \in 0 .. candidates : acc = AtMost(a, candidates)
      BY <3>2, <1>3 DEF AtMost
    <3>4. PICK long \in Nat : long = run.len + acc
      BY <1>3, <3>3
    <3>5. PICK len : len = IF acc < candidates /\ replaced /\ long < MaxTokens THEN long + 1 ELSE long
      OBVIOUS
    <3>6. len \in Nat /\ len <= MaxTokens
      <4>1. long <= MaxTokens
        BY <3>1, <3>2, <3>3, <3>4, <1>3
      <4> QED
        BY <3>4, <3>5, <4>1, <1>3
    <3>7. PICK r \in Results : run' = [run EXCEPT !.len = len, !.result = r]
      <4>1. run' = [run EXCEPT !.len = len,
                               !.result = IF (acc < candidates /\ ~replaced) \/ len >= MaxTokens THEN "ok" ELSE "none"]
        BY <2>2, <3>1, <3>2, <3>3, <3>4, <3>5 DEF DecodeRound
      <4> QED
        BY <4>1 DEF Results
    <3>8. run' \in Decodings /\ run'.len = len
      BY <3>6, <3>7, <1>2 DEF Decodings
    <3> QED
      BY <3>6, <3>8 DEF RunInv
  <2> QED
    BY <2>1, <2>2
<1> QED
  BY <1>1, <1>4, PipeStays DEF StagedInv

\* The nodes of a graph and the targets of its edges are finitely many.
LEMMA KeysFinite ==
    ASSUME NEW g \in Graphs
    PROVE  IsFiniteSet(Keys(g))
<1>1. IsFiniteSet(g.nodes) /\ IsFiniteSet(g.edges)
  BY StagedRunsAssumption
<1>2. PICK targets : targets = {e[2] : e \in g.edges}
  OBVIOUS
<1>3. PICK f : f = [e \in g.edges |-> e[2]]
  OBVIOUS
<1>4. f \in Surjection(g.edges, targets)
  <2>1. f \in [g.edges -> targets]
    BY <1>2, <1>3
  <2>2. \A t \in targets : \E e \in g.edges : f[e] = t
    BY <1>2, <1>3
  <2> QED
    BY <2>1, <2>2 DEF Surjection
<1>5. IsFiniteSet(targets)
  BY <1>1, <1>4, FS_Surjection
<1>6. IsFiniteSet(g.nodes \cup targets)
  BY <1>1, <1>5, FS_Union
<1> QED
  BY <1>2, <1>6 DEF Keys

\* The sequences a set is written in.
LEMMA SetToSeqsFacts ==
    ASSUME NEW S, IsFiniteSet(S), NEW T, S \subseteq T, NEW q \in SetToSeqs(S)
    PROVE  q \in Seq(T) /\ \A i \in 1 .. Len(q) : q[i] \in S
<1>1. Cardinality(S) \in Nat
  BY FS_CardinalityType
<1>2. q \in [1 .. Cardinality(S) -> S]
  BY DEF SetToSeqs
<1>3. q \in Seq(S)
  BY <1>1, <1>2
<1> QED
  BY <1>3

\* Visiting n closes the edges out of n and no other.
Closes(g, n, x, order, new) ==
    /\ IsFiniteSet(Open(g, x, order)) /\ Cardinality(Open(g, x, order)) \in Nat
    /\ Open(g, x, new) = Open(g, x, order) \ {<<n, x>>}
    /\ <<n, x>> \in Open(g, x, order) <=> <<n, x>> \in g.edges

LEMMA OpenFacts ==
    ASSUME NEW g \in Graphs, NEW order \in Seq(Keys(g)), NEW n \in Keys(g), ~Among(n, order), NEW x,
           NEW new, new = Append(order, n)
    PROVE  Closes(g, n, x, order, new)
<1>1. IsFiniteSet(g.edges) /\ \A e \in g.edges : e = <<e[1], e[2]>>
  BY StagedRunsAssumption
<1>2. Open(g, x, order) \subseteq g.edges
  BY DEF Open
<1>3. IsFiniteSet(Open(g, x, order))
  BY <1>1, <1>2, FS_Subset
<1>4. Cardinality(Open(g, x, order)) \in Nat
  BY <1>3, FS_CardinalityType
<1>5. ASSUME NEW y PROVE Among(y, new) <=> Among(y, order) \/ y = n
  <2>0. PICK S : S = Keys(g)
    OBVIOUS
  <2>1. PICK k \in Nat : k = Len(order)
    OBVIOUS
  <2>2. Len(new) = k + 1 /\ new[k + 1] = n /\ \A i \in 1 .. k : new[i] = order[i]
    BY <2>0, <2>1, AppendProperties
  <2>3. \A i \in 1 .. k + 1 : i \in 1 .. k \/ i = k + 1
    BY <2>1
  <2>4. k + 1 \in 1 .. k + 1 /\ \A i \in 1 .. k : i \in 1 .. k + 1
    BY <2>1
  <2> QED
    BY <2>1, <2>2, <2>3, <2>4 DEF Among
<1>6. ASSUME NEW e PROVE e \in Open(g, x, new) <=> e \in Open(g, x, order) \ {<<n, x>>}
  <2>1. e \in Open(g, x, new) <=> e \in g.edges /\ e[2] = x /\ ~Among(e[1], order) /\ e[1] # n
    BY <1>5 DEF Open
  <2>2. e \in Open(g, x, order) <=> e \in g.edges /\ e[2] = x /\ ~Among(e[1], order)
    BY DEF Open
  <2>3. e \in g.edges /\ e[2] = x => (e[1] = n <=> e = <<n, x>>)
    BY <1>1
  <2> QED
    BY <2>1, <2>2, <2>3
<1>7. <<n, x>> \in Open(g, x, order) <=> <<n, x>> \in g.edges
  <2>1. PICK e : e = <<n, x>>
    OBVIOUS
  <2>2. e[1] = n /\ e[2] = x
    BY <2>1
  <2>3. e \in Open(g, x, order) <=> e \in g.edges
    BY <2>2 DEF Open
  <2> QED
    BY <2>1, <2>3
<1> QED
  BY <1>3, <1>4, <1>6, <1>7 DEF Closes

\* A graph run goes on: what there is to show.
LEMMA GraphStep ==
    ASSUME StagedInv, NEW g \in Graphs, run' \in GraphRuns(g), Sorting(run)', Followed(run)', UNCHANGED pipe
    PROVE  StagedInv'
<1>1. RunInv'
  BY DEF RunInv
<1> QED
  BY <1>1, PipeStays DEF StagedInv

\* A visit keeps the nodes visited so far in order.
LEMMA OrderGrows ==
    ASSUME NEW g \in Graphs, NEW order \in Seq(Keys(g)), Once(order), Ordered(g, order),
           NEW n \in Keys(g), ~Among(n, order), Open(g, n, order) = {}, NEW new, new = Append(order, n)
    PROVE  new \in Seq(Keys(g)) /\ Once(new) /\ Ordered(g, new)
<1>1. PICK k \in Nat : k = Len(order)
  OBVIOUS
<1>2. PICK K : K = Keys(g)
  OBVIOUS
<1>3. new \in Seq(K) /\ Len(new) = k + 1 /\ new[k + 1] = n /\ \A i \in 1 .. k : new[i] = order[i]
  BY <1>1, <1>2, AppendProperties
<1>4. \A i \in 1 .. k + 1 : i \in 1 .. k \/ i = k + 1
  BY <1>1
<1>5. \A i \in 1 .. k : order[i] # n
  BY <1>1 DEF Among
<1>6. Once(new)
  <2>1. \A i, j \in 1 .. k : order[i] = order[j] => i = j
    BY <1>1 DEF Once
  <2> SUFFICES ASSUME NEW i \in 1 .. k + 1, NEW j \in 1 .. k + 1, new[i] = new[j] PROVE i = j
    BY <1>3 DEF Once
  <2> QED
    BY <2>1, <1>3, <1>4, <1>5
<1>7. Ordered(g, new)
  <2> SUFFICES ASSUME NEW i \in 1 .. k + 1, NEW e \in g.edges, e[2] = new[i]
               PROVE  \E j \in 1 .. i - 1 : new[j] = e[1]
    BY <1>3 DEF Ordered
  <2>1. CASE i \in 1 .. k
    <3>1. e[2] = order[i]
      BY <2>1, <1>3
    <3>2. PICK j \in 1 .. i - 1 : order[j] = e[1]
      BY <2>1, <3>1, <1>1 DEF Ordered
    <3>3. j \in 1 .. k
      BY <2>1, <3>2
    <3> QED
      BY <3>2, <3>3, <1>3
  <2>2. CASE i = k + 1
    <3>1. e[2] = n
      BY <2>2, <1>3
    <3>2. Among(e[1], order)
      BY <3>1 DEF Open
    <3>3. PICK j \in 1 .. k : order[j] = e[1]
      BY <3>2, <1>1 DEF Among
    <3>4. j \in 1 .. i - 1 /\ new[j] = e[1]
      BY <2>2, <3>3, <1>3
    <3> QED
      BY <3>4
  <2> QED
    BY <2>1, <2>2, <1>4
<1> QED
  BY <1>2, <1>3, <1>6, <1>7

\* The degrees count the open edges.
Counted(g, degree, order) ==
    degree \in [Keys(g) -> Nat] /\ \A x \in Keys(g) : degree[x] = Cardinality(Open(g, x, order))

\* Only nodes without an open edge have degree 0.
Clear(g, degree, order) == \A x \in Keys(g) : degree[x] = 0 => Open(g, x, order) = {}

\* The degrees after a visit count the edges that are still open.
LEMMA DegreesFollow ==
    ASSUME NEW g \in Graphs, NEW order \in Seq(Keys(g)), NEW n \in Keys(g), ~Among(n, order),
           NEW degree, Counted(g, degree, order),
           NEW new, new = Append(order, n),
           NEW succs, succs = Succs(g, n), NEW left, left = Lowered(degree, succs)
    PROVE  Counted(g, left, new) /\ succs \subseteq Keys(g) /\ Clear(g, left, new)
<1>0. /\ degree \in [Keys(g) -> Nat] /\ \A x \in Keys(g) : degree[x] = Cardinality(Open(g, x, order))
      /\ succs = {e[2] : e \in {x \in g.edges : x[1] = n}}
      /\ left = [s \in Keys(g) |-> IF s \in succs /\ degree[s] > 0 THEN degree[s] - 1 ELSE degree[s]]
  <2>1. degree \in [Keys(g) -> Nat] /\ \A x \in Keys(g) : degree[x] = Cardinality(Open(g, x, order))
    BY DEF Counted
  <2>2. DOMAIN degree = Keys(g)
    BY <2>1
  <2> QED
    BY <2>1, <2>2 DEF Succs, Lowered
<1>1. \A e \in g.edges : e = <<e[1], e[2]>>
  BY StagedRunsAssumption
<1>2. \A x : x \in succs <=> <<n, x>> \in g.edges
  <2>1. ASSUME NEW x, <<n, x>> \in g.edges PROVE x \in succs
    <3>1. PICK e : e = <<n, x>>
      OBVIOUS
    <3>2. e \in g.edges /\ e[1] = n /\ e[2] = x
      BY <2>1, <3>1
    <3> QED
      BY <3>2, <1>0
  <2>2. ASSUME NEW x \in succs PROVE <<n, x>> \in g.edges
    <3>1. PICK e \in g.edges : e[1] = n /\ e[2] = x
      BY <1>0
    <3> QED
      BY <3>1, <1>1
  <2> QED
    BY <2>1, <2>2
<1>3. succs \subseteq Keys(g)
  BY <1>0 DEF Keys
<1>4. ASSUME NEW x \in Keys(g)
      PROVE  left[x] \in Nat /\ left[x] = Cardinality(Open(g, x, new)) /\ (left[x] = 0 => Open(g, x, new) = {})
  <2>1. PICK o : o = Open(g, x, order)
    OBVIOUS
  <2>2. PICK e : e = <<n, x>>
    OBVIOUS
  <2>3. /\ IsFiniteSet(o) /\ Cardinality(o) \in Nat /\ Open(g, x, new) = o \ {e}
        /\ e \in o <=> x \in succs
    <3>1. Closes(g, n, x, order, new)
      BY OpenFacts
    <3> QED
      BY <2>1, <2>2, <3>1, <1>2 DEF Closes
  <2>4. IsFiniteSet(o \ {e}) /\ Cardinality(o \ {e}) = IF e \in o THEN Cardinality(o) - 1 ELSE Cardinality(o)
    BY <2>3, FS_RemoveElement
  <2>5. e \in o => Cardinality(o) > 0
    <3>1. Cardinality(o) = 0 => o = {}
      BY <2>3, FS_EmptySet
    <3> QED
      BY <3>1, <2>3
  <2>6. degree[x] = Cardinality(o) /\ degree[x] \in Nat
    BY <2>1, <1>0
  <2>7. left[x] = IF x \in succs /\ degree[x] > 0 THEN degree[x] - 1 ELSE degree[x]
    BY <1>0
  <2>8. left[x] = Cardinality(o \ {e})
    BY <2>3, <2>4, <2>5, <2>6, <2>7
  <2>9. Cardinality(o \ {e}) \in Nat /\ (Cardinality(o \ {e}) = 0 => o \ {e} = {})
    BY <2>4, FS_CardinalityType, FS_EmptySet
  <2> QED
    BY <2>3, <2>8, <2>9
<1>5. left \in [Keys(g) -> Nat]
  <2>1. \A x \in Keys(g) : left[x] \in Nat
    BY <1>4
  <2> QED
    BY <2>1, <1>0
<1>6. Counted(g, left, new)
  BY <1>4, <1>5 DEF Counted
<1>7. Clear(g, left, new)
  BY <1>4 DEF Clear
<1> QED
  BY <1>3, <1>6, <1>7

\* One turn of Kahn's algorithm.
LEMMA VisitStep ==
    ASSUME StagedInv, Visit
    PROVE  StagedInv'
<1>1. run.kind = "graph" /\ run.result = "none" /\ ~run.sorted /\ run.queue # <<>> /\ UNCHANGED pipe
  BY DEF Visit, Going
<1>2. PICK g \in Graphs : run \in GraphRuns(g) /\ Sorting(run) /\ Followed(run)
  BY <1>1, KindFacts DEF StagedInv
<1>4. /\ run.graph = g /\ run.degree \in [Keys(g) -> Nat] /\ run.queue \in Seq(Keys(g)) /\ run.order \in Seq(Keys(g))
      /\ DOMAIN run.degree = Keys(g)
  BY <1>2 DEF GraphRuns
<1>5. PICK queue \in Seq(Keys(g)) : queue = run.queue /\ queue # <<>>
  BY <1>1, <1>4
<1>6. PICK order \in Seq(Keys(g)) : order = run.order
  BY <1>4
<1>7. PICK n \in Keys(g) : n = Head(queue)
  BY <1>5
<1>8. PICK rest : rest = Tail(queue)
  OBVIOUS
<1>9. rest \in Seq(Keys(g)) /\ \A i \in 1 .. Len(rest) : i + 1 \in 1 .. Len(queue) /\ rest[i] = queue[i + 1]
  BY <1>5, <1>8
<1>10. /\ Counted(g, run.degree, order)
       /\ \A i \in 1 .. Len(queue) : Open(g, queue[i], order) = {}
       /\ Once(order) /\ Ordered(g, order)
  BY <1>2, <1>4, <1>5, <1>6 DEF Sorting, Counted
<1>11. Open(g, n, order) = {} /\ \A i \in 1 .. Len(rest) : Open(g, rest[i], order) = {}
  <2>1. 1 \in 1 .. Len(queue) /\ n = queue[1]
    BY <1>5, <1>7
  <2> QED
    BY <2>1, <1>9, <1>10
<1>12. PICK succs : succs = Succs(g, n)
  OBVIOUS
<1>13. PICK left : left = Lowered(run.degree, succs)
  OBVIOUS
<1>14. n \in Range(order) <=> Among(n, order)
  BY DEF Range, Among
<1>15. CASE run' = [run EXCEPT !.queue = rest]
  <2>1. /\ run' \in GraphRuns(g) /\ run'.graph = run.graph /\ run'.degree = run.degree /\ run'.order = run.order
        /\ run'.queue = rest /\ run'.log = run.log /\ run'.sorted = run.sorted /\ run'.result = run.result
    BY <1>15, <1>2, <1>9 DEF GraphRuns
  <2>2. Sorting(run)'
    BY <2>1, <1>2, <1>4, <1>6, <1>11 DEF Sorting
  <2>3. Followed(run)'
    BY <2>1, <1>2 DEF Followed
  <2> QED
    BY <2>1, <2>2, <2>3, <1>1, GraphStep
<1>16. ASSUME ~Among(n, order), NEW ready \in SetToSeqs(Unblocked(succs, left)),
              run' = [run EXCEPT !.queue = rest \o ready, !.order = Append(order, n), !.degree = left]
       PROVE  StagedInv'
  <2>1. PICK new : new = Append(order, n)
    OBVIOUS
  <2>2. new \in Seq(Keys(g)) /\ Once(new) /\ Ordered(g, new)
    BY <2>1, <1>10, <1>11, <1>16, OrderGrows
  <2>3. Counted(g, left, new) /\ succs \subseteq Keys(g) /\ Clear(g, left, new)
    <3>1. PICK degree : degree = run.degree
      OBVIOUS
    <3>2. Counted(g, degree, order) /\ left = Lowered(degree, succs)
      BY <3>1, <1>10, <1>13
    <3>3. ~Among(n, order)
      BY <1>16
    <3> QED
      BY <3>2, <3>3, <2>1, <1>12, DegreesFollow
  <2>4. PICK S : S = Unblocked(succs, left)
    OBVIOUS
  <2>5. IsFiniteSet(S) /\ S \subseteq Keys(g)
    BY <2>3, <2>4, KeysFinite, FS_Subset DEF Unblocked
  <2>6. ready \in Seq(Keys(g)) /\ \A i \in 1 .. Len(ready) : ready[i] \in S
    BY <2>4, <2>5, <1>16, SetToSeqsFacts
  <2>7. PICK q : q = rest \o ready
    OBVIOUS
  <2>8. /\ q \in Seq(Keys(g)) /\ Len(q) = Len(rest) + Len(ready)
        /\ \A i \in 1 .. Len(rest) + Len(ready) : q[i] = IF i <= Len(rest) THEN rest[i] ELSE ready[i - Len(rest)]
    BY <2>6, <2>7, <1>9, ConcatProperties
  <2>9. ASSUME NEW x, Open(g, x, order) = {} PROVE Open(g, x, new) = {}
    <3>1. Closes(g, n, x, order, new)
      BY <2>1, <1>16, OpenFacts
    <3> QED
      BY <2>9, <3>1 DEF Closes
  <2>10. ASSUME NEW i \in 1 .. Len(q) PROVE Open(g, q[i], new) = {}
    <3>1. CASE i <= Len(rest)
      <4>1. i \in 1 .. Len(rest) /\ q[i] = rest[i]
        BY <3>1, <2>8
      <4> QED
        BY <4>1, <2>9, <1>11
    <3>2. CASE ~(i <= Len(rest))
      <4>1. Len(rest) \in Nat /\ Len(ready) \in Nat
        BY <1>9, <2>6
      <4>2. i - Len(rest) \in 1 .. Len(ready) /\ q[i] = ready[i - Len(rest)]
        BY <3>2, <4>1, <2>8
      <4>3. q[i] \in S
        BY <4>2, <2>6
      <4> QED
        BY <4>3, <2>3, <2>4, <2>5 DEF Clear, Unblocked
    <3> QED
      BY <3>1, <3>2
  <2>11. run' = [run EXCEPT !.queue = q, !.order = new, !.degree = left]
    BY <1>16, <2>1, <2>7
  <2>12. /\ run' \in GraphRuns(g) /\ run'.graph = g /\ run'.degree = left /\ run'.order = new
         /\ run'.queue = q /\ run'.log = run.log /\ run'.sorted = run.sorted /\ run'.result = run.result
    BY <2>2, <2>3, <2>8, <2>11, <1>2, <1>4 DEF GraphRuns, Counted
  <2>13. Sorting(run)'
    BY <2>2, <2>3, <2>10, <2>12 DEF Sorting, Counted
  <2>14. Followed(run)'
    <3>1. run.log = <<>> /\ ~run.sorted /\ run.result = "none"
      BY <1>1, <1>2 DEF Followed
    <3>2. Len(new) \in Nat
      BY <2>2
    <3> QED
      BY <3>1, <3>2, <2>12 DEF Followed
  <2> QED
    BY <2>12, <2>13, <2>14, <1>1, GraphStep
<1> QED
  <2>1. \/ run' = [run EXCEPT !.queue = Tail(@)]
        \/ /\ n \notin Range(order)
           /\ \E ready \in SetToSeqs(Unblocked(succs, left)) :
                run' = [run EXCEPT !.queue = Tail(@) \o ready, !.order = Append(@, n), !.degree = left]
    <3>1. Head(run.queue) = n /\ Succs(run.graph, n) = succs /\ Lowered(run.degree, succs) = left /\ run.order = order
      BY <1>4, <1>5, <1>6, <1>7, <1>12, <1>13
    <3> QED
      BY <3>1, Zenon DEF Visit
  <2>2. CASE run' = [run EXCEPT !.queue = Tail(@)]
    BY <2>2, <1>5, <1>8, <1>15
  <2>3. ASSUME n \notin Range(order), NEW ready \in SetToSeqs(Unblocked(succs, left)),
               run' = [run EXCEPT !.queue = Tail(@) \o ready, !.order = Append(@, n), !.degree = left]
        PROVE  StagedInv'
    <3>1. run' = [run EXCEPT !.queue = rest \o ready, !.order = Append(order, n), !.degree = left]
      BY <2>3, <1>5, <1>6, <1>8
    <3> QED
      BY <2>3, <3>1, <1>14, <1>16
  <2> QED
    BY <2>1, <2>2, <2>3

\* The order is complete, or the graph has a cycle.
LEMMA TopoOrderStep ==
    ASSUME StagedInv, TopoOrder
    PROVE  StagedInv'
<1>1. run.kind = "graph" /\ ~run.sorted /\ UNCHANGED pipe
  BY DEF TopoOrder, Going
<1>2. PICK g \in Graphs : run \in GraphRuns(g) /\ Sorting(run) /\ Followed(run)
  BY <1>1, KindFacts DEF StagedInv
<1>3. run.log = <<>>
  BY <1>1, <1>2 DEF Followed
<1>4. run.order \in Seq(Keys(g)) /\ Len(run.order) \in Nat
  BY <1>2 DEF GraphRuns
<1>5. PICK r \in Results, s \in BOOLEAN :
        /\ run' = [run EXCEPT !.sorted = s, !.result = r]
        /\ s => Len(run.order) = Cardinality(run.graph.nodes)
        /\ r = "ok" => s /\ run.order = <<>>
  <2>1. CASE Len(run.order) # Cardinality(run.graph.nodes)
    <3>1. run' = [run EXCEPT !.result = "err"]
      BY <2>1 DEF TopoOrder
    <3>2. run' = [run EXCEPT !.sorted = FALSE, !.result = "err"]
      BY <3>1, <1>1, <1>2 DEF GraphRuns
    <3> QED
      BY <3>2 DEF Results
  <2>2. CASE Len(run.order) = Cardinality(run.graph.nodes)
    <3>1. PICK r \in Results : r = IF run.order = <<>> THEN "ok" ELSE "none"
      BY DEF Results
    <3>2. run' = [run EXCEPT !.sorted = TRUE, !.result = r]
      BY <2>2, <3>1 DEF TopoOrder
    <3> QED
      BY <2>2, <3>1, <3>2
  <2> QED
    BY <2>1, <2>2
<1>6. /\ run' \in GraphRuns(g) /\ run'.graph = run.graph /\ run'.degree = run.degree /\ run'.order = run.order
      /\ run'.queue = run.queue /\ run'.log = run.log /\ run'.sorted = s /\ run'.result = r
  BY <1>5, <1>2 DEF GraphRuns
<1>7. Sorting(run)'
  BY <1>6, <1>2 DEF Sorting
<1>8. Followed(run)'
  BY <1>3, <1>4, <1>5, <1>6 DEF Followed
<1> QED
  BY <1>1, <1>6, <1>7, <1>8, GraphStep

\* The next node of the order runs.
LEMMA RunNodeStep ==
    ASSUME StagedInv, RunNode
    PROVE  StagedInv'
<1>1. /\ run.kind = "graph" /\ run.sorted /\ Len(run.log) < Len(run.order) /\ UNCHANGED pipe
      /\ run.result = "none"
  BY DEF RunNode, Going
<1>2. PICK g \in Graphs : run \in GraphRuns(g) /\ Sorting(run) /\ Followed(run)
  BY <1>1, KindFacts DEF StagedInv
<1>3. PICK log \in Seq(Keys(g)) : log = run.log
  BY <1>2 DEF GraphRuns
<1>4. PICK order \in Seq(Keys(g)) : order = run.order
  BY <1>2 DEF GraphRuns
<1>5. PICK k \in Nat : k = Len(log)
  BY <1>3
<1>6. PICK m \in Nat : m = Len(order)
  BY <1>4
<1>7. k < m /\ \A i \in 1 .. k : log[i] = order[i] /\ log[i] \in run.graph.nodes
  BY <1>1, <1>2, <1>3, <1>4, <1>5, <1>6 DEF Followed
<1>8. PICK n \in Keys(g) : n = order[k + 1]
  BY <1>4, <1>6, <1>7
<1>9. Len(run.order) = Cardinality(run.graph.nodes)
  BY <1>1, <1>2 DEF Followed
<1>10. CASE run' = [run EXCEPT !.result = "err"]
  <2>1. /\ run' \in GraphRuns(g) /\ run'.graph = run.graph /\ run'.degree = run.degree /\ run'.order = run.order
        /\ run'.queue = run.queue /\ run'.log = run.log /\ run'.sorted = run.sorted /\ run'.result = "err"
    BY <1>10, <1>2 DEF GraphRuns, Results
  <2>2. Sorting(run)'
    BY <2>1, <1>2 DEF Sorting
  <2>3. Followed(run)'
    BY <2>1, <1>2 DEF Followed
  <2> QED
    BY <2>1, <2>2, <2>3, <1>1, GraphStep
<1>11. PICK longer : longer = Append(log, n)
  OBVIOUS
<1>12. ASSUME n \in run.graph.nodes, NEW r \in Results, run' = [run EXCEPT !.log = longer, !.result = r],
              r = "ok" => k + 1 = m
       PROVE  StagedInv'
  <2>1. /\ longer \in Seq(Keys(g)) /\ Len(longer) = k + 1 /\ longer[k + 1] = n
        /\ \A i \in 1 .. k : longer[i] = log[i]
    BY <1>3, <1>5, <1>8, <1>11
  <2>2. /\ run' \in GraphRuns(g) /\ run'.graph = run.graph /\ run'.degree = run.degree /\ run'.order = order
        /\ run'.queue = run.queue /\ run'.log = longer /\ run'.sorted = run.sorted /\ run'.result = r
    BY <1>12, <2>1, <1>2, <1>4 DEF GraphRuns
  <2>3. Sorting(run)'
    BY <2>2, <1>2, <1>4 DEF Sorting
  <2>4. \A i \in 1 .. k + 1 : longer[i] = order[i] /\ longer[i] \in run.graph.nodes
    <3>1. \A i \in 1 .. k + 1 : i \in 1 .. k \/ i = k + 1
      BY <1>5
    <3> QED
      BY <3>1, <2>1, <1>7, <1>8, <1>12
  <2>5. Followed(run)'
    BY <2>1, <2>2, <2>4, <1>1, <1>4, <1>5, <1>6, <1>7, <1>9, <1>12 DEF Followed
  <2> QED
    BY <2>2, <2>3, <2>5, <1>1, GraphStep
<1>13. CASE /\ n \in run.graph.nodes
            /\ run' = IF Len(longer) = m THEN [[run EXCEPT !.log = longer] EXCEPT !.result = "ok"]
                      ELSE [run EXCEPT !.log = longer]
  <2>1. Len(longer) = k + 1
    BY <1>3, <1>5, <1>8, <1>11
  <2>2. CASE k + 1 = m
    <3>1. run' = [run EXCEPT !.log = longer, !.result = "ok"]
      BY <1>13, <2>1, <2>2
    <3> QED
      BY <3>1, <2>2, <1>12, <1>13 DEF Results
  <2>3. CASE k + 1 # m
    <3>1. run' = [run EXCEPT !.log = longer, !.result = "none"]
      BY <1>13, <2>1, <2>3, <1>1, <1>2 DEF GraphRuns
    <3> QED
      BY <3>1, <1>12, <1>13 DEF Results
  <2> QED
    BY <2>2, <2>3
<1> QED
  <2>1. run.order[Len(run.log) + 1] = n
    BY <1>3, <1>4, <1>5, <1>8
  <2>2. PICK ran : ran = [run EXCEPT !.log = longer]
    OBVIOUS
  <2>3. [run EXCEPT !.log = Append(@, n)] = ran
    BY <2>2, <1>3, <1>11
  <2>4. \/ run' = [run EXCEPT !.result = "err"]
        \/ /\ n \in run.graph.nodes
           /\ run' = IF Len(ran.log) = Len(run.order) THEN [ran EXCEPT !.result = "ok"] ELSE ran
    BY <2>1, <2>3, Zenon DEF RunNode
  <2>5. ran.log = longer /\ Len(run.order) = m
    BY <2>2, <1>2, <1>4, <1>6 DEF GraphRuns
  <2> QED
    BY <2>2, <2>4, <2>5, <1>10, <1>13

\* What the driver can be.
LEMMA DriverFacts ==
    /\ Waiting # Ended /\ Waiting \notin Items /\ Ended \notin Items
    /\ \A d \in Items : [d EXCEPT !.stage = @ + 1] \in Items /\ [d EXCEPT !.result = "err"] \in Items
                        /\ [d EXCEPT !.result = "ok"] \in Items
<1>1. DOMAIN Waiting = {"item"} /\ DOMAIN Ended = {"item"}
  BY DEF Waiting, Ended
<1>2. \A d \in Items : DOMAIN d = {"item", "stage", "result"}
  BY DEF Items
<1>3. Waiting.item = 0 /\ Ended.item = MaxItems + 1 /\ MaxItems \in Nat
  BY StagedRunsAssumption DEF Waiting, Ended
<1>4. Waiting # Ended
  BY <1>3
<1>5. "stage" \notin {"item"}
  OBVIOUS
<1>6. Waiting \notin Items /\ Ended \notin Items
  BY <1>1, <1>2, <1>5
<1>7. \A d \in Items : [d EXCEPT !.stage = @ + 1] \in Items /\ [d EXCEPT !.result = "err"] \in Items
                       /\ [d EXCEPT !.result = "ok"] \in Items
  BY DEF Items, Results
<1> QED
  BY <1>4, <1>6, <1>7

\* The pipeline moves on: what there is to show.
LEMMA PipeStep ==
    ASSUME StagedInv, run' = run, PipeInv'
    PROVE  StagedInv'
  BY RunStays DEF StagedInv

\* The item in the pipeline goes on.
LEMMA DriverSteps ==
    ASSUME StagedInv, PipeStage \/ PipeCompletion
    PROVE  StagedInv'
<1>1. /\ UNCHANGED <<run, head, tail, submitted, received, source>>
      /\ driver \notin {Waiting, Ended} /\ driver.result = "none"
  BY DEF PipeStage, PipeCompletion, InPipe
<1>2. driver \in Items /\ NumStages \in Nat
  BY <1>1, StagedRunsAssumption DEF StagedInv, PipeInv, PipeTypes
<1>3. driver.stage \in Nat
  BY <1>2 DEF Items
<1>4. driver' \in Items /\ driver'.item = driver.item /\ Whole(driver)'
  <2>1. CASE driver' = [driver EXCEPT !.stage = @ + 1]
    <3>1. driver'.item = driver.item /\ driver'.result = "none"
      BY <2>1, <1>1, <1>2 DEF Items
    <3> QED
      BY <2>1, <3>1, <1>2, DriverFacts DEF Whole
  <2>2. CASE driver' = [driver EXCEPT !.result = "err"]
    <3>1. driver'.item = driver.item /\ driver'.result = "err"
      BY <2>2, <1>2 DEF Items
    <3> QED
      BY <2>2, <3>1, <1>2, DriverFacts DEF Whole
  <2>3. CASE driver' = [driver EXCEPT !.result = "ok"] /\ driver.stage > NumStages
    <3>1. driver'.item = driver.item /\ driver'.stage = driver.stage
      BY <2>3, <1>2 DEF Items
    <3> QED
      BY <2>3, <3>1, <1>2, DriverFacts DEF Whole
  <2> QED
    BY <2>1, <2>2, <2>3 DEF PipeStage, PipeCompletion
<1>5. driver' \notin {Waiting, Ended} /\ Ended' = Ended /\ Waiting' = Waiting
  BY <1>4, DriverFacts DEF Waiting, Ended
<1>6. Inside = 1 /\ Inside' = 1
  BY <1>1, <1>5 DEF Inside
<1>7. InLine => InLine'
  <2> SUFFICES ASSUME InLine PROVE InLine'
    OBVIOUS
  <2>1. driver'.item = Len(received) + Len(tail) + 1
    BY <1>2, <1>4 DEF InLine
  <2>2. submitted = Len(received) + Len(tail) + 1 + Len(head)
    BY <1>1, <1>6 DEF InLine
  <2>3. \A i \in 1 .. Len(head) : head[i] = Len(received) + Len(tail) + 1 + i
    BY <1>6 DEF InLine
  <2>4. \A i \in 1 .. Len(tail) : tail[i].item = Len(received) + i /\ Whole(tail[i])
    BY DEF InLine
  <2> QED
    BY <2>1, <2>2, <2>3, <2>4, <1>1, <1>6 DEF InLine
<1>8. PipeInv'
  <2>1. PipeTypes'
    BY <1>1, <1>4 DEF StagedInv, PipeInv, PipeTypes
  <2> QED
    BY <2>1, <1>1, <1>4, <1>7 DEF StagedInv, PipeInv
<1> QED
  BY <1>1, <1>8, PipeStep

\* An item is submitted.
LEMMA SinkStep ==
    ASSUME StagedInv, SinkSubmit
    PROVE  StagedInv'
<1>1. /\ UNCHANGED <<run, tail, driver, received, source>> /\ driver # Ended
      /\ submitted' = submitted + 1 /\ head' = Append(head, submitted + 1)
  BY DEF SinkSubmit
<1>2. /\ head \in Seq(Nat) /\ submitted \in Nat /\ Len(head) \in Nat
      /\ received \in Seq(Items) /\ tail \in Seq(Items) /\ Len(received) \in Nat /\ Len(tail) \in Nat
  BY DEF StagedInv, PipeInv, PipeTypes
<1>3. PICK k \in Nat : k = Len(head)
  BY <1>2
<1>4. /\ head' \in Seq(Nat) /\ Len(head') = k + 1 /\ head'[k + 1] = submitted + 1
      /\ \A i \in 1 .. k : head'[i] = head[i]
  BY <1>1, <1>2, <1>3
<1>5. Inside' = Inside /\ Inside \in Nat
  BY <1>1 DEF Inside, Waiting, Ended
<1>6. InLine => InLine'
  <2> SUFFICES ASSUME InLine PROVE InLine'
    OBVIOUS
  <2>1. PICK b \in Nat : b = Len(received) + Len(tail) + Inside
    BY <1>2, <1>5
  <2>2. submitted = b + k /\ \A i \in 1 .. k : head[i] = b + i
    BY <2>1, <1>1, <1>3 DEF InLine
  <2>3. \A i \in 1 .. k + 1 : i \in 1 .. k \/ i = k + 1
    BY <1>3
  <2>4. \A i \in 1 .. k + 1 : head'[i] = b + i
    BY <2>2, <2>3, <1>4
  <2>5. submitted' = b + (k + 1)
    BY <2>2, <1>1
  <2>6. b' = Len(received') + Len(tail') + Inside'
    BY <2>1, <1>1, <1>5
  <2>7. \A i \in 1 .. Len(tail) : tail[i].item = Len(received) + i /\ Whole(tail[i])
    BY DEF InLine
  <2>8. driver \in Items => driver.item = Len(received) + Len(tail) + 1
    BY DEF InLine
  <2> QED
    BY <2>1, <2>4, <2>5, <2>7, <2>8, <1>1, <1>4, <1>5 DEF InLine
<1>7. PipeInv'
  <2>1. PipeTypes'
    BY <1>1, <1>2, <1>4 DEF StagedInv, PipeInv, PipeTypes, Waiting, Ended
  <2> QED
    BY <2>1, <1>1, <1>6 DEF StagedInv, PipeInv
<1> QED
  BY <1>1, <1>7, PipeStep

\* The driver takes an item.
LEMMA TakeStep ==
    ASSUME StagedInv, DriverTake
    PROVE  StagedInv'
<1>1. /\ UNCHANGED <<run, tail, submitted, received, source>> /\ driver = Waiting /\ head # <<>>
      /\ head' = Tail(head) /\ driver' = [item |-> Head(head), stage |-> 1, result |-> "none"]
  BY DEF DriverTake
<1>2. /\ head \in Seq(Nat) /\ submitted \in Nat /\ Len(head) \in Nat
      /\ received \in Seq(Items) /\ tail \in Seq(Items) /\ Len(received) \in Nat /\ Len(tail) \in Nat
  BY DEF StagedInv, PipeInv, PipeTypes
<1>3. PICK k \in Nat : k + 1 = Len(head)
  <2>1. Len(head) # 0
    BY <1>1, <1>2
  <2>2. Len(head) - 1 \in Nat /\ (Len(head) - 1) + 1 = Len(head)
    BY <2>1, <1>2
  <2> QED
    BY <2>2
<1>4. /\ head' \in Seq(Nat) /\ Len(head') = k /\ Head(head) = head[1] /\ head[1] \in Nat
      /\ \A i \in 1 .. k : head'[i] = head[i + 1]
  BY <1>1, <1>2, <1>3
<1>5. driver' \in Items /\ driver'.item = head[1] /\ driver'.result = "none"
  BY <1>1, <1>4 DEF Items, Results
<1>6. Inside = 0 /\ Inside' = 1
  BY <1>1, <1>5, DriverFacts DEF Inside
<1>7. Whole(driver)'
  BY <1>5 DEF Whole
<1>8. InLine => InLine'
  <2> SUFFICES ASSUME InLine PROVE InLine'
    OBVIOUS
  <2>1. PICK b \in Nat : b = Len(received) + Len(tail)
    BY <1>2
  <2>2. submitted = b + (k + 1) /\ \A i \in 1 .. k + 1 : head[i] = b + i
    <3>1. driver # Ended
      BY <1>1, DriverFacts
    <3>2. submitted = b + 0 + Len(head)
      BY <3>1, <2>1, <1>6 DEF InLine
    <3>3. \A i \in 1 .. Len(head) : head[i] = b + 0 + i
      BY <2>1, <1>6 DEF InLine
    <3> QED
      BY <3>2, <3>3, <1>3
  <2>3. \A i \in 1 .. k : head'[i] = b + 1 + i
    <3>1. ASSUME NEW i \in 1 .. k PROVE head'[i] = b + 1 + i
      <4>1. i + 1 \in 1 .. k + 1
        BY <1>3
      <4>2. head[i + 1] = b + (i + 1)
        BY <4>1, <2>2
      <4>3. head'[i] = head[i + 1]
        BY <1>4
      <4> QED
        BY <4>2, <4>3
    <3> QED
      BY <3>1
  <2>4. driver'.item = b + 1
    <3>1. 1 \in 1 .. k + 1
      BY <1>3
    <3> QED
      BY <3>1, <2>2, <1>5
  <2>5. \A i \in 1 .. Len(tail) : tail[i].item = Len(received) + i /\ Whole(tail[i])
    BY DEF InLine
  <2>6. submitted' = b + 1 + k
    BY <2>2, <1>1
  <2> QED
    BY <2>1, <2>3, <2>4, <2>5, <2>6, <1>1, <1>4, <1>6 DEF InLine
<1>9. PipeInv'
  <2>1. PipeTypes'
    BY <1>1, <1>2, <1>4, <1>5 DEF StagedInv, PipeInv, PipeTypes
  <2> QED
    BY <2>1, <1>1, <1>7, <1>8 DEF StagedInv, PipeInv
<1> QED
  BY <1>1, <1>9, PipeStep

\* A result is handed to the source, or the driver ends with it.
LEMMA YieldStep ==
    ASSUME StagedInv, DriverYield
    PROVE  StagedInv'
<1>1. /\ UNCHANGED <<run, submitted, received, source>>
      /\ driver \notin {Waiting, Ended}
  BY DEF DriverYield, InPipe
<1>2. /\ head \in Seq(Nat) /\ submitted \in Nat /\ Len(head) \in Nat
      /\ received \in Seq(Items) /\ tail \in Seq(Items) /\ Len(received) \in Nat /\ Len(tail) \in Nat
      /\ driver \in Items
  BY <1>1 DEF StagedInv, PipeInv, PipeTypes
<1>3. Inside = 1 /\ Whole(driver)
  BY <1>1, <1>2 DEF Inside, StagedInv, PipeInv
<1>4. CASE source /\ tail' = Append(tail, driver) /\ driver' = Waiting /\ head' = head
  <2>1. PICK k \in Nat : k = Len(tail)
    BY <1>2
  <2>2. /\ tail' \in Seq(Items) /\ Len(tail') = k + 1 /\ tail'[k + 1] = driver
        /\ \A i \in 1 .. k : tail'[i] = tail[i]
    BY <2>1, <1>2, <1>4
  <2>3. Inside' = 0 /\ driver' # Ended /\ driver' \notin Items
    BY <1>4, DriverFacts DEF Inside
  <2>4. InLine'
    <3>1. InLine
      BY <1>4 DEF StagedInv, PipeInv
    <3>2. PICK r \in Nat : r = Len(received)
      BY <1>2
    <3>3. driver.item = r + k + 1
      BY <3>1, <3>2, <2>1, <1>2 DEF InLine
    <3>4. \A i \in 1 .. k : tail[i].item = r + i /\ Whole(tail[i])
      BY <3>1, <3>2, <2>1 DEF InLine
    <3>5. ASSUME NEW i \in 1 .. k + 1 PROVE tail'[i].item = r + i /\ Whole(tail[i])'
      <4>1. CASE i \in 1 .. k
        <5>1. tail'[i] = tail[i]
          BY <4>1, <2>2
        <5> QED
          BY <4>1, <5>1, <3>4 DEF Whole
      <4>2. CASE i = k + 1
        <5>1. tail'[i] = driver
          BY <4>2, <2>2
        <5> QED
          BY <4>2, <5>1, <3>2, <3>3, <1>3, <2>1 DEF Whole
      <4> QED
        BY <4>1, <4>2, <2>1
    <3>6. \A i \in 1 .. Len(head) : head[i] = r + (k + 1) + 0 + i
      <4>1. \A i \in 1 .. Len(head) : head[i] = r + k + 1 + i
        BY <3>1, <3>2, <2>1, <1>3 DEF InLine
      <4> QED
        BY <4>1, <3>2, <2>1, <1>2
    <3>7. submitted = r + (k + 1) + 0 + Len(head)
      <4>1. submitted = r + k + 1 + Len(head)
        BY <3>1, <3>2, <2>1, <1>1, <1>3 DEF InLine
      <4> QED
        BY <4>1, <3>2, <2>1, <1>2
    <3>8. Len(received') = r /\ submitted' = submitted /\ head' = head
      BY <3>2, <1>1, <1>4
    <3> QED
      BY <3>5, <3>6, <3>7, <3>8, <2>2, <2>3 DEF InLine
  <2>5. PipeTypes'
    BY <2>2, <1>1, <1>2, <1>4 DEF StagedInv, PipeInv, PipeTypes
  <2>6. PipeInv'
    BY <2>3, <2>4, <2>5, <1>1 DEF StagedInv, PipeInv
  <2> QED
    BY <2>6, <1>1, PipeStep
<1>5. CASE ~source /\ tail' = tail /\ driver' = Ended /\ head' = <<>>
  <2>1. head' \in Seq(Nat)
    BY <1>5
  <2>2. PipeTypes'
    BY <2>1, <1>1, <1>2, <1>5 DEF StagedInv, PipeInv, PipeTypes
  <2>3. driver' \notin Items
    BY <1>5, DriverFacts
  <2>4. PipeInv'
    BY <2>2, <2>3, <1>1, <1>5 DEF StagedInv, PipeInv
  <2> QED
    BY <2>4, <1>1, PipeStep
<1> QED
  BY <1>4, <1>5 DEF DriverYield

\* The driver ends with an empty channel, or the source is dropped.
LEMMA EndSteps ==
    ASSUME StagedInv, DriverEnds \/ DropSource
    PROVE  StagedInv'
<1>1. UNCHANGED <<run, head, submitted, received>>
  BY DEF DriverEnds, DropSource
<1>2. PipeTypes
  BY DEF StagedInv, PipeInv
<1>3. CASE DropSource
  <2>1. source' = FALSE /\ tail' = <<>> /\ driver' = driver
    BY <1>3 DEF DropSource
  <2>2. tail' \in Seq(Items)
    BY <2>1
  <2>3. PipeTypes'
    BY <2>1, <2>2, <1>1, <1>2 DEF PipeTypes
  <2>4. PipeInv'
    BY <2>1, <2>3, <1>1 DEF StagedInv, PipeInv
  <2> QED
    BY <2>4, <1>1, PipeStep
<1>4. CASE DriverEnds
  <2>1. source' = source /\ tail' = tail /\ driver' = Ended /\ driver = Waiting /\ head = <<>>
    BY <1>4 DEF DriverEnds
  <2>2. PipeTypes'
    BY <2>1, <1>1, <1>2 DEF PipeTypes
  <2>3. Inside = 0 /\ Inside' = 0 /\ driver' \notin Items
    BY <2>1, DriverFacts DEF Inside
  <2>4. InLine => InLine'
    <3>1. Len(head) = 0
      BY <2>1
    <3> QED
      BY <2>1, <2>3, <3>1, <1>1 DEF InLine
  <2>5. PipeInv'
    BY <2>1, <2>2, <2>3, <2>4, <1>1 DEF StagedInv, PipeInv
  <2> QED
    BY <2>5, <1>1, PipeStep
<1> QED
  BY <1>3, <1>4

\* The source yields a result.
LEMMA ReceiveStep ==
    ASSUME StagedInv, Receive
    PROVE  StagedInv'
<1>1. /\ UNCHANGED <<run, head, driver, submitted, source>> /\ source /\ tail # <<>>
      /\ received' = Append(received, Head(tail)) /\ tail' = Tail(tail)
  BY DEF Receive
<1>2. /\ head \in Seq(Nat) /\ submitted \in Nat /\ Len(head) \in Nat
      /\ received \in Seq(Items) /\ tail \in Seq(Items) /\ Len(tail) \in Nat
  BY DEF StagedInv, PipeInv, PipeTypes
<1>3. PICK k \in Nat : k + 1 = Len(tail)
  <2>1. Len(tail) # 0
    BY <1>1, <1>2
  <2>2. Len(tail) - 1 \in Nat /\ (Len(tail) - 1) + 1 = Len(tail)
    BY <2>1, <1>2
  <2> QED
    BY <2>2
<1>4. PICK r \in Nat : r = Len(received)
  BY <1>2
<1>5. PICK first \in Items : first = Head(tail) /\ first = tail[1]
  BY <1>1, <1>2
<1>6. /\ tail' \in Seq(Items) /\ Len(tail') = k
      /\ \A i \in 1 .. k : tail'[i] = tail[i + 1]
  BY <1>1, <1>2, <1>3
<1>7. /\ received' \in Seq(Items) /\ Len(received') = r + 1 /\ received'[r + 1] = first
      /\ \A i \in 1 .. r : received'[i] = received[i]
  BY <1>1, <1>2, <1>4, <1>5
<1>8. Inside' = Inside /\ Inside \in Nat
  BY <1>1 DEF Inside
<1>9. InLine
  BY <1>1 DEF StagedInv, PipeInv
<1>10. \A i \in 1 .. k + 1 : tail[i].item = r + i /\ Whole(tail[i])
  BY <1>3, <1>4, <1>9 DEF InLine
<1>11. first.item = r + 1 /\ Whole(first)
  <2>1. 1 \in 1 .. k + 1
    BY <1>3
  <2> QED
    BY <2>1, <1>5, <1>10
<1>12. ASSUME NEW i \in 1 .. k PROVE tail'[i].item = (r + 1) + i /\ Whole(tail[i])'
  <2>1. i + 1 \in 1 .. k + 1
    BY <1>3
  <2>2. tail[i + 1].item = r + (i + 1) /\ Whole(tail[i + 1])
    BY <2>1, <1>10
  <2>3. tail'[i] = tail[i + 1]
    BY <1>6
  <2> QED
    BY <2>2, <2>3, <1>4 DEF Whole
<1>13. ASSUME NEW i \in 1 .. r + 1 PROVE received'[i].item = i /\ Whole(received[i])'
  <2>1. CASE i \in 1 .. r
    <3>1. received[i].item = i /\ Whole(received[i])
      BY <2>1, <1>4 DEF StagedInv, PipeInv
    <3> QED
      BY <2>1, <3>1, <1>7 DEF Whole
  <2>2. CASE i = r + 1
    BY <2>2, <1>7, <1>11 DEF Whole
  <2> QED
    BY <2>1, <2>2, <1>4
<1>14. InLine'
  <2>1. driver \in Items => driver.item = (r + 1) + k + 1
    <3>1. driver \in Items => driver.item = r + (k + 1) + 1
      BY <1>3, <1>4, <1>9 DEF InLine
    <3>2. r + (k + 1) + 1 = (r + 1) + k + 1
      BY <1>3, <1>4
    <3> QED
      BY <3>1, <3>2
  <2>2. PICK in \in Nat : in = Inside
    BY <1>8
  <2>3. r + (k + 1) + in = (r + 1) + k + in
    BY <2>2, <1>3, <1>4
  <2>4. \A i \in 1 .. Len(head) : head[i] = (r + 1) + k + in + i
    <3>1. \A i \in 1 .. Len(head) : head[i] = r + (k + 1) + in + i
      BY <1>3, <1>4, <1>9, <2>2 DEF InLine
    <3> QED
      BY <3>1, <2>3
  <2>5. driver # Ended => submitted = (r + 1) + k + in + Len(head)
    <3>1. driver # Ended => submitted = r + (k + 1) + in + Len(head)
      BY <1>3, <1>4, <1>9, <2>2 DEF InLine
    <3> QED
      BY <3>1, <2>3
  <2>6. head' = head /\ driver' = driver /\ submitted' = submitted /\ Inside' = in
    BY <1>1, <1>8, <2>2
  <2> QED
    BY <2>1, <2>4, <2>5, <2>6, <1>6, <1>7, <1>12 DEF InLine
<1>15. PipeTypes'
  BY <1>1, <1>6, <1>7 DEF StagedInv, PipeInv, PipeTypes
<1>16. PipeInv'
  BY <1>1, <1>7, <1>13, <1>14, <1>15 DEF StagedInv, PipeInv, Whole
<1> QED
  BY <1>1, <1>16, PipeStep

\* The first state of a graph run.
LEMMA GraphInitially ==
    ASSUME NEW g \in Graphs, NEW q \in SetToSeqs({n \in DOMAIN InDegrees(g) : InDegrees(g)[n] = 0})
    PROVE  GraphRun(g, q) \in GraphRuns(g) /\ Sorting(GraphRun(g, q)) /\ Followed(GraphRun(g, q))
<1>1. \A x : ~Among(x, <<>>)
  BY DEF Among
<1>2. \A x : Open(g, x, <<>>) = {e \in g.edges : e[2] = x}
  BY <1>1 DEF Open
<1>3. PICK degree : degree = InDegrees(g)
  OBVIOUS
<1>4. DOMAIN degree = Keys(g) /\ \A x \in Keys(g) : degree[x] = Cardinality(Open(g, x, <<>>))
  BY <1>2, <1>3 DEF InDegrees, Keys
<1>5. \A x : IsFiniteSet(Open(g, x, <<>>))
  <2> SUFFICES ASSUME NEW x PROVE IsFiniteSet(Open(g, x, <<>>))
    OBVIOUS
  <2>1. Open(g, x, <<>>) \in SUBSET g.edges /\ IsFiniteSet(g.edges)
    BY StagedRunsAssumption DEF Open
  <2> QED
    BY <2>1, FS_Subset
<1>6. \A x : Cardinality(Open(g, x, <<>>)) \in Nat /\ (Cardinality(Open(g, x, <<>>)) = 0 => Open(g, x, <<>>) = {})
  BY <1>5, FS_CardinalityType, FS_EmptySet
<1>7. degree \in [Keys(g) -> Nat]
  <2>1. degree = [x \in Keys(g) |-> degree[x]]
    BY <1>3, <1>4 DEF InDegrees
  <2>2. \A x \in Keys(g) : degree[x] \in Nat
    BY <1>4, <1>6
  <2> QED
    BY <2>1, <2>2
<1>8. PICK S : S = {n \in DOMAIN degree : degree[n] = 0}
  OBVIOUS
<1>9. q \in SetToSeqs(S) /\ S \subseteq Keys(g) /\ IsFiniteSet(S)
  BY <1>3, <1>4, <1>8, KeysFinite, FS_Subset
<1>10. q \in Seq(Keys(g)) /\ \A i \in 1 .. Len(q) : q[i] \in S
  BY <1>9, SetToSeqsFacts
<1>11. PICK r : r = GraphRun(g, q)
  OBVIOUS
<1>12. /\ r = [kind |-> "graph", result |-> "none", graph |-> g, degree |-> degree, queue |-> q,
               order |-> <<>>, log |-> <<>>, sorted |-> FALSE]
       /\ <<>> \in Seq(Keys(g))
  BY <1>3, <1>11 DEF GraphRun
<1>13. r \in GraphRuns(g)
  BY <1>7, <1>10, <1>12 DEF GraphRuns, Results
<1>14. /\ r.graph = g /\ r.degree = degree /\ r.queue = q /\ r.order = <<>> /\ r.log = <<>> /\ r.sorted = FALSE
       /\ r.result = "none"
  BY <1>12
<1>15. \A i \in 1 .. Len(q) : Open(g, q[i], <<>>) = {}
  BY <1>4, <1>6, <1>8, <1>10
<1>16. Once(<<>>) /\ Ordered(g, <<>>)
  BY DEF Once, Ordered
<1>17. Sorting(r)
  BY <1>4, <1>14, <1>15, <1>16 DEF Sorting
<1>18. Followed(r)
  BY <1>14 DEF Followed
<1> QED
  BY <1>11, <1>13, <1>17, <1>18

LEMMA StagedInitially == StagedInit => StagedInv
<1> SUFFICES ASSUME StagedInit PROVE StagedInv
  OBVIOUS
<1>1. PipeInv
  <2>1. <<>> \in Seq(Nat) /\ <<>> \in Seq(Items)
    OBVIOUS
  <2>2. PipeTypes
    BY <2>1 DEF StagedInit, PipeTypes
  <2>3. driver \notin Items /\ Inside = 0 /\ driver # Ended
    BY DriverFacts DEF StagedInit, Inside
  <2>4. InLine
    BY <2>3 DEF StagedInit, InLine
  <2> QED
    BY <2>2, <2>3, <2>4 DEF StagedInit, PipeInv
<1>2. RunInv
  <2>1. CASE run = NoRun
    BY <2>1 DEF RunInv
  <2>2. ASSUME NEW n \in 0 .. NumStages, run = Cascade(n) PROVE RunInv
    <3>1. n \in Nat /\ <<>> \in Seq(Nat)
      BY StagedRunsAssumption
    <3>2. run \in Cascades /\ run.log = <<>>
      BY <2>2, <3>1 DEF Cascade, Cascades, Results
    <3> QED
      BY <3>2 DEF RunInv
  <2>3. ASSUME NEW len \in 0 .. MaxTokens + 1, run = Decode(len) PROVE RunInv
    <3>1. len \in Nat
      BY StagedRunsAssumption
    <3>2. run \in Decodings /\ run.len = run.prefix
      BY <2>3, <3>1 DEF Decode, Decodings, Results
    <3> QED
      BY <3>2 DEF RunInv
  <2>4. ASSUME NEW g \in Graphs, NEW q \in SetToSeqs({n \in DOMAIN InDegrees(g) : InDegrees(g)[n] = 0}),
               run = GraphRun(g, q)
        PROVE  RunInv
    <3>1. run \in GraphRuns(g) /\ Sorting(run) /\ Followed(run)
      BY <2>4, GraphInitially
    <3> QED
      BY <3>1 DEF RunInv
  <2> QED
    BY <2>1, <2>2, <2>3, <2>4 DEF StagedInit
<1> QED
  BY <1>1, <1>2 DEF StagedInv

LEMMA StagedInduction ==
    ASSUME StagedInv, [StagedNext]_stagedVars
    PROVE  StagedInv'
<1>1. CASE UNCHANGED stagedVars
  <2>1. run' = run /\ UNCHANGED pipe
    BY <1>1 DEF stagedVars, pipe
  <2> QED
    BY <2>1, PipeStays, PipeStep DEF StagedInv
<1>2. CASE StagedNext
  BY <1>2, CascadeSteps, DecodeSteps, VisitStep, TopoOrderStep, RunNodeStep, SinkStep, TakeStep, DriverSteps,
     YieldStep, EndSteps, ReceiveStep DEF StagedNext
<1> QED
  BY <1>1, <1>2

\* A log that goes through an order of all the nodes.
LEMMA WholeOrder ==
    ASSUME NEW g \in Graphs, NEW S, NEW log \in Seq(S), NEW order \in Seq(S), Len(log) = Len(order),
           Len(order) = Cardinality(g.nodes), Once(order), Ordered(g, order),
           \A i \in 1 .. Len(log) : log[i] = order[i] /\ log[i] \in g.nodes
    PROVE  /\ Range(log) = g.nodes /\ IsInjective(log)
           /\ \A e \in g.edges : {e[1], e[2]} \subseteq g.nodes => Pos(log, e[1]) < Pos(log, e[2])
<1>1. PICK m \in Nat : m = Len(log)
  OBVIOUS
<1>2. DOMAIN log = 1 .. m /\ Cardinality(g.nodes) = m /\ IsFiniteSet(g.nodes)
  BY <1>1, StagedRunsAssumption
<1>3. \A i \in 1 .. m : log[i] = order[i] /\ log[i] \in g.nodes
  BY <1>1
<1>4. \A i, j \in 1 .. m : log[i] = log[j] => i = j
  BY <1>1, <1>3 DEF Once
<1>5. IsInjective(log)
  BY <1>2, <1>4 DEF IsInjective
<1>6. log \in [1 .. m -> g.nodes]
  BY <1>1, <1>2, <1>3
<1>7. log \in Injection(1 .. m, g.nodes)
  BY <1>4, <1>6 DEF Injection, IsInjective
<1>8. Cardinality(1 .. m) = m
  <2>1. 1 \in Int /\ m \in Int
    BY <1>1
  <2>2. Cardinality(1 .. m) = IF 1 > m THEN 0 ELSE m - 1 + 1
    BY <2>1, FS_Interval
  <2> QED
    BY <2>2, <1>1
<1>9. log \in Surjection(1 .. m, g.nodes)
  BY <1>2, <1>7, <1>8, FS_Injection
<1>10. \A n \in g.nodes : \E i \in 1 .. m : log[i] = n
  BY <1>9 DEF Surjection
<1>11. Range(log) = g.nodes
  BY <1>2, <1>3, <1>10 DEF Range
<1>12. ASSUME NEW n \in g.nodes PROVE Pos(log, n) \in 1 .. m /\ log[Pos(log, n)] = n
  BY <1>2, <1>10 DEF Pos
<1>13. ASSUME NEW e \in g.edges, {e[1], e[2]} \subseteq g.nodes PROVE Pos(log, e[1]) < Pos(log, e[2])
  <2>1. e[1] \in g.nodes /\ e[2] \in g.nodes
    BY <1>13
  <2>2. PICK a \in 1 .. m : a = Pos(log, e[1]) /\ log[a] = e[1]
    BY <2>1, <1>12
  <2>3. PICK b \in 1 .. m : b = Pos(log, e[2]) /\ log[b] = e[2]
    BY <2>1, <1>12
  <2>4. PICK j \in 1 .. b - 1 : order[j] = e[1]
    <3>1. order[b] = e[2] /\ b \in 1 .. Len(order)
      BY <2>3, <1>1, <1>3
    <3> QED
      BY <3>1 DEF Ordered
  <2>5. j \in 1 .. m /\ j < b
    BY <2>3, <2>4
  <2>6. log[j] = log[a]
    BY <2>2, <2>4, <2>5, <1>3
  <2>7. j = a
    BY <2>2, <2>5, <2>6, <1>4
  <2> QED
    BY <2>2, <2>3, <2>5, <2>7
<1> QED
  BY <1>5, <1>11, <1>13

LEMMA StagesFollow ==
    ASSUME StagedInv
    PROVE  StagesInOrder
<1>1. run.kind = "cascade" => run.log = [i \in 1 .. Len(run.log) |-> i]
  <2> SUFFICES ASSUME run.kind = "cascade" PROVE run.log = [i \in 1 .. Len(run.log) |-> i]
    OBVIOUS
  <2>1. run \in Cascades /\ \A i \in 1 .. Len(run.log) : run.log[i] = i
    BY KindFacts DEF StagedInv
  <2>2. PICK log \in Seq(Nat) : log = run.log
    BY <2>1 DEF Cascades
  <2>3. log = [i \in 1 .. Len(log) |-> log[i]]
    BY <2>2
  <2> QED
    BY <2>1, <2>2, <2>3
<1>2. run.kind = "decode" => run.len <= MaxTokens \/ run.len = run.prefix
  BY KindFacts DEF StagedInv
<1>3. ASSUME run.kind = "graph", run.result = "ok"
      PROVE  /\ Range(run.log) = run.graph.nodes /\ IsInjective(run.log)
             /\ \A e \in run.graph.edges :
                  {e[1], e[2]} \subseteq run.graph.nodes => Pos(run.log, e[1]) < Pos(run.log, e[2])
  <2>1. PICK g \in Graphs : run \in GraphRuns(g) /\ Sorting(run) /\ Followed(run)
    BY <1>3, KindFacts DEF StagedInv
  <2>2. PICK S : S = Keys(g)
    OBVIOUS
  <2>3. PICK log \in Seq(S) : log = run.log
    BY <2>1, <2>2 DEF GraphRuns
  <2>4. PICK order \in Seq(S) : order = run.order
    BY <2>1, <2>2 DEF GraphRuns
  <2>5. run.graph = g
    BY <2>1 DEF GraphRuns
  <2>6. Once(order) /\ Ordered(g, order)
    BY <2>1, <2>4, <2>5 DEF Sorting
  <2>7. /\ Len(log) = Len(order) /\ Len(order) = Cardinality(g.nodes)
        /\ \A i \in 1 .. Len(log) : log[i] = order[i] /\ log[i] \in g.nodes
    BY <2>1, <2>3, <2>4, <2>5, <1>3 DEF Followed
  <2>8. /\ Range(log) = g.nodes /\ IsInjective(log)
        /\ \A e \in g.edges : {e[1], e[2]} \subseteq g.nodes => Pos(log, e[1]) < Pos(log, e[2])
    BY <2>6, <2>7, WholeOrder
  <2> QED
    BY <2>3, <2>5, <2>8
<1>4. \A i \in DOMAIN received : /\ received[i].item = i
                                 /\ received[i].result = "ok" => received[i].stage > NumStages
  <2>1. received \in Seq(Items)
    BY DEF StagedInv, PipeInv, PipeTypes
  <2>2. DOMAIN received = 1 .. Len(received)
    BY <2>1
  <2> QED
    BY <2>2 DEF StagedInv, PipeInv, Whole
<1> QED
  BY <1>1, <1>2, <1>3, <1>4 DEF StagesInOrder

\* Stages run in their order and none is left out of a result, however many
\* stages, nodes or items there are: a cascade runs a prefix of its stages, a
\* graph each node once and after its predecessors, decoding keeps to its limit,
\* and the pipeline yields the results of the items in the order of submission.
THEOREM StagesKeptInOrder == StagedSpec => []StagesInOrder
<1>1. StagedInit => StagedInv
  BY StagedInitially
<1>2. StagedInv /\ [StagedNext]_stagedVars => StagedInv'
  BY StagedInduction
<1>3. StagedInv => StagesInOrder
  BY StagesFollow
<1> QED
  BY <1>1, <1>2, <1>3, PTL DEF StagedSpec
==============================================================================
