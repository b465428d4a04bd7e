----------------------------- MODULE PackageFetch -----------------------------
(***************************************************************************)
(* MTransaction::fetch_extract_packages with PackageFetcher, the package   *)
(* caches (MultiPackageCache) and the extraction tasks that MainExecutor   *)
(* runs, one thread each, while downloads go on.                           *)
(*                                                                         *)
(* A command looks up each package, downloads or extracts what no cache    *)
(* has, validates, waits, clears what went wrong, and then looks the       *)
(* directories up again to link them.  It can be killed between any two    *)
(* steps; the next command finds the caches as they were left.  The        *)
(* command holds the lock of every cache (LockFile), so it is the only one *)
(* that changes them.                                                      *)
(*                                                                         *)
(* Caches are the numbers 1..NCaches, in the order of pkgs_dirs.  Each     *)
(* package has one place in a cache: a directory in the flat layout counts *)
(* as one in the hierarchical layout.                                      *)
(***************************************************************************)
EXTENDS Naturals, FiniteSets

CONSTANTS
    Packages,        \* the packages to install
    NCaches,         \* how many package caches there are
    Writable,        \* those that can be written
    Target,          \* the first of them, where packages are put
    Checked,         \* packages with a known checksum (explicit ones may have none)
    IndexFirst,      \* packages whose archive has info/index.json before the rest
    Reported,        \* packages looked up for the report shown before the fetch
    Renamed,         \* packages the fetchers get under another channel name
    Before,          \* what earlier commands may have left at each place
    Disabled,        \* safety_checks is disabled (the default is to warn)
    ExtractThreads,  \* how many extractions may run at a time
    MaxFailures,     \* bound: mirrors, disks and subprocesses that fail
    MaxRuns          \* bound: commands started, one after the other

Caches == 1..NCaches
NoCache == 0
Places == Caches \X Packages

ASSUME CachesAssumption ==
    /\ NCaches \in Nat
    /\ Writable \subseteq Caches
    /\ Target \in Writable /\ \A c \in Writable : Target <= c
(* What commands that ended well leave: <<tarball, content, record>>.      *)
Settled(p) == {"absent", "good"} \X {"absent"} \X {"none"}
              \cup {"absent", "good"} \X {"whole"} \X {"ours"}
              \cup IF p \in Checked THEN {"wrong"} \X {"stale"} \X {"stale"} ELSE {}

ASSUME PackagesAssumption ==
    /\ Checked \subseteq Packages /\ IndexFirst \subseteq Packages
    /\ Reported \subseteq Packages /\ Renamed \subseteq Packages
ASSUME BeforeAssumption ==
    \A c \in Caches, p \in Packages : Before[<<c, p>>] \subseteq Settled(p)
ASSUME BoundsAssumption ==
    /\ Disabled \in BOOLEAN /\ ExtractThreads \in Nat /\ MaxFailures \in Nat
    /\ MaxRuns \in Nat \ {0}

Tarballs == {"absent", "partial", "wrong", "good"}
(* An extracted directory: "partial" lacks files, "short" has them all but *)
(* one cut short, "stale" is that of an earlier upload, "mixed" has files  *)
(* of both.                                                                *)
Contents == {"absent", "partial", "short", "stale", "mixed", "whole"}
Records == {"none", "stale", "ours"}
Memos == {"unknown", "yes", "no"}
Needs == {"unplanned", "nothing", "extract", "download"}
Active == {"queued", "waiting", "clearing", "extracting", "recording"}
Final == {"extracted", "invalid", "failed", "interrupted"}
Tasks == Active \cup Final \cup {"none", "collected"}

VARIABLES
    tarball, content, record,  \* what is at each place
    dirMemo, tarMemo,          \* m_valid_extracted_dir, m_valid_tarballs of each cache
    dirFound, tarFound,        \* m_cached_extracted_dirs, m_cached_tarballs
    reported,                  \* packages looked up for the report
    need, source,              \* of each fetcher, and the cache of its tarball
    task,                      \* of each extraction
    allValid,                  \* clear_invalid_caches: no extraction went wrong
    phase, result,             \* of the command
    sig, failures, runs,
    died                       \* history: packages whose directory was left by a subprocess that
                               \* died and was taken for one that had extracted it all

disk == <<tarball, content, record>>
memos == <<dirMemo, tarMemo, dirFound, tarFound>>
plan == <<reported, need, source>>
command == <<allValid, phase, result>>
bounds == <<failures, runs>>
vars == <<disk, memos, plan, task, command, sig, bounds, died>>

TypeOK ==
    /\ tarball \in [Places -> Tarballs]
    /\ content \in [Places -> Contents]
    /\ record \in [Places -> Records]
    /\ dirMemo \in [Places -> Memos] /\ tarMemo \in [Places -> Memos]
    /\ dirFound \in [Packages -> Caches \cup {NoCache}]
    /\ tarFound \in [Packages -> Caches \cup {NoCache}]
    /\ reported \subseteq Packages
    /\ need \in [Packages -> Needs]
    /\ source \in [Packages -> Caches \cup {NoCache}]
    /\ task \in [Packages -> Tasks]
    /\ allValid \in BOOLEAN /\ sig \in BOOLEAN
    /\ phase \in {"plan", "fetch", "collect", "link", "ended"}
    /\ result \in {"none", "true", "false", "thrown", "missing"}
    /\ failures \in 0..MaxFailures /\ runs \in 0..MaxRuns /\ died \subseteq Packages
    /\ \A x \in Places : record[x] # "none" => content[x] # "absent"
    /\ \A p \in Packages : source[p] # NoCache <=> need[p] \in {"extract", "download"}

-----------------------------------------------------------------------------
(* The package caches.                                                     *)

(* has_valid_extracted_dir(): the record must be that of the package and,  *)
(* unless the checks are disabled, every file must be there; a file of the *)
(* wrong size only gives a warning.                                        *)
Accepted(c, p) ==
    record[<<c, p>>] = "ours" /\ (Disabled \/ content[<<c, p>>] \notin {"absent", "partial"})

(* has_valid_tarball(): without checksum any file is taken.                *)
ValidTarball(c, p) ==
    tarball[<<c, p>>] = "good" \/ (p \notin Checked /\ tarball[<<c, p>>] # "absent")

(* The first cache of the set hits, or NoCache.                            *)
IsFirst(c, hits) ==
    IF hits = {} THEN c = NoCache ELSE c \in hits /\ \A d \in hits : c <= d

(* A cache answers from its memo table when it was asked before.           *)
DirHits(p) == {c \in Caches : IF dirMemo[<<c, p>>] = "unknown" THEN Accepted(c, p)
                              ELSE dirMemo[<<c, p>>] = "yes"}
TarHits(p) == {c \in Caches : IF tarMemo[<<c, p>>] = "unknown" THEN ValidTarball(c, p)
                              ELSE tarMemo[<<c, p>>] = "yes"}

(* get_extracted_dir_path() and get_tarball_path() answer cache c.         *)
DirLookup(p, c) == IF dirFound[p] # NoCache THEN c = dirFound[p] ELSE IsFirst(c, DirHits(p))
TarLookup(p, c) == IF tarFound[p] # NoCache THEN c = tarFound[p] ELSE IsFirst(c, TarHits(p))

(* The caches are asked in order, up to the one that answers.              *)
Asked(d, c) == c = NoCache \/ d <= c

DirMemos(p, c) ==
    [x \in Places |-> IF x[2] = p /\ Asked(x[1], c) /\ dirMemo[x] = "unknown"
                      THEN IF Accepted(x[1], p) THEN "yes" ELSE "no"
                      ELSE dirMemo[x]]
TarMemos(p, c) ==
    [x \in Places |-> IF x[2] = p /\ Asked(x[1], c) /\ tarMemo[x] = "unknown"
                      THEN IF ValidTarball(x[1], p) THEN "yes" ELSE "no"
                      ELSE tarMemo[x]]

(* A tarball found to be invalid is removed where that is possible.        *)
WithoutInvalid(p, c, asked) ==
    [x \in Places |-> IF /\ x[2] = p /\ x[1] \in asked /\ Asked(x[1], c)
                         /\ x[1] \in Writable /\ ~ValidTarball(x[1], p)
                      THEN "absent" ELSE tarball[x]]

(* clear_query_cache() in the caches cs; what MultiPackageCache itself     *)
(* remembers is never cleared.                                             *)
Forgotten(memo, p, cs) ==
    [x \in Places |-> IF x[2] = p /\ x[1] \in cs THEN "unknown" ELSE memo[x]]

Init ==
    /\ \E left \in [Places -> UNION {Before[x] : x \in Places}] :
          /\ \A x \in Places : left[x] \in Before[x]
          /\ tarball = [x \in Places |-> left[x][1]]
          /\ content = [x \in Places |-> left[x][2]]
          /\ record = [x \in Places |-> left[x][3]]
    /\ dirMemo = [x \in Places |-> "unknown"] /\ tarMemo = [x \in Places |-> "unknown"]
    /\ dirFound = [p \in Packages |-> NoCache] /\ tarFound = [p \in Packages |-> NoCache]
    /\ reported = {}
    /\ need = [p \in Packages |-> "unplanned"]
    /\ source = [p \in Packages |-> NoCache]
    /\ task = [p \in Packages |-> "none"]
    /\ allValid = TRUE /\ phase = "plan" /\ result = "none" /\ sig = FALSE
    /\ failures = 0 /\ runs = 1 /\ died = {}

-----------------------------------------------------------------------------
(* Planning.                                                               *)

(* need_pkg_download(), for the report of log_json() or print().           *)
Report(p) ==
    /\ phase = "plan" /\ need[p] = "unplanned" /\ p \in Reported \ reported
    /\ reported' = reported \cup {p}
    /\ \E c, t \in Caches \cup {NoCache} :
          /\ DirLookup(p, c)
          /\ dirMemo' = DirMemos(p, c) /\ dirFound' = [dirFound EXCEPT ![p] = c]
          /\ \/ c # NoCache /\ t = NoCache /\ UNCHANGED <<tarball, tarMemo, tarFound>>
             \/ /\ c = NoCache /\ TarLookup(p, t)
                /\ tarMemo' = TarMemos(p, t) /\ tarFound' = [tarFound EXCEPT ![p] = t]
                /\ tarball' = WithoutInvalid(p, t, {d \in Caches : tarMemo[<<d, p>>] = "unknown"})
    /\ UNCHANGED <<content, record, need, source, task, command, sig, bounds, died>>

(* Mutant of Cleared: the fetcher's constructor clears no memo table.      *)
ClearedNothing(c, t) == {}

(* The memo tables the fetcher's constructor clears, c and t being what it *)
(* found: with a tarball those of the cache it will extract to, with       *)
(* nothing those of every cache.                                           *)
Cleared(c, t) ==
    IF c # NoCache THEN {} ELSE IF t # NoCache THEN {Target} ELSE Caches

(* Mutant of Planned: an extracted directory is extracted once more.       *)
PlannedIgnoresDir(p, c, t) ==
    /\ need' = [need EXCEPT ![p] = IF t # NoCache THEN "extract" ELSE "download"]
    /\ source' = [source EXCEPT ![p] = IF t # NoCache THEN t ELSE Target]

Planned(p, c, t) ==
    /\ need' = [need EXCEPT ![p] = IF c # NoCache THEN "nothing"
                                   ELSE IF t # NoCache THEN "extract" ELSE "download"]
    /\ source' = [source EXCEPT ![p] = IF c # NoCache THEN NoCache
                                       ELSE IF t # NoCache THEN t ELSE Target]

(* PackageFetcher's constructor.                                           *)
Plan(p) ==
    /\ phase = "plan" /\ need[p] = "unplanned" /\ p \in reported \cup (Packages \ Reported)
    /\ p \notin Renamed
    /\ \E c, t \in Caches \cup {NoCache} :
          /\ DirLookup(p, c)
          /\ dirFound' = [dirFound EXCEPT ![p] = c]
          /\ dirMemo' = Forgotten(DirMemos(p, c), p, Cleared(c, t))
          /\ \/ c # NoCache /\ t = NoCache /\ UNCHANGED <<tarball, tarMemo, tarFound>>
             \/ /\ c = NoCache /\ TarLookup(p, t)
                /\ tarFound' = [tarFound EXCEPT ![p] = t]
                /\ tarMemo' = Forgotten(TarMemos(p, t), p, Cleared(c, t))
                /\ tarball' = WithoutInvalid(p, t, {d \in Caches : tarMemo[<<d, p>>] = "unknown"})
          /\ Planned(p, c, t)
    /\ UNCHANGED <<content, record, reported, task, command, sig, bounds, died>>

(* The memo tables are keyed by channel and name.  A fetcher that gets the *)
(* package under another channel name neither sees nor clears what the     *)
(* package itself is remembered by.                                        *)
PlanRenamed(p) ==
    /\ phase = "plan" /\ need[p] = "unplanned" /\ p \in reported \cup (Packages \ Reported)
    /\ p \in Renamed
    /\ \E c, t \in Caches \cup {NoCache} :
          /\ IsFirst(c, {d \in Caches : Accepted(d, p)})
          /\ \/ c # NoCache /\ t = NoCache /\ UNCHANGED tarball
             \/ /\ c = NoCache /\ IsFirst(t, {d \in Caches : ValidTarball(d, p)})
                /\ tarball' = WithoutInvalid(p, t, Caches)
          /\ Planned(p, c, t)
    /\ UNCHANGED <<content, record, memos, reported, task, command, sig, bounds, died>>

(* Every fetcher is made: the extractions that need no download are        *)
(* handed to the executor, then the downloads begin.                       *)
StartFetch ==
    /\ phase = "plan" /\ \A p \in Packages : need[p] # "unplanned"
    /\ phase' = "fetch"
    /\ task' = [p \in Packages |-> IF need[p] = "extract" THEN "waiting" ELSE "none"]
    /\ UNCHANGED <<disk, memos, plan, allValid, result, sig, bounds, died>>

-----------------------------------------------------------------------------
(* Downloads, what the Downloader does of them being abstracted: a tarball *)
(* arrives, or the batch fails.                                            *)

Pending == {p \in Packages : need[p] = "download" /\ task[p] = "none"}

Receive(p) ==
    /\ phase = "fetch" /\ p \in Pending /\ tarball[<<Target, p>>] # "partial"
    /\ tarball' = [tarball EXCEPT ![<<Target, p>>] = "partial"]
    /\ UNCHANGED <<content, record, memos, plan, task, command, sig, bounds, died>>

(* on_success() hands the extraction to the executor.  What comes for a    *)
(* package without checksum is what the package is.                        *)
Arrive(p) ==
    /\ phase = "fetch" /\ p \in Pending /\ tarball[<<Target, p>>] = "partial"
    /\ \/ /\ tarball' = [tarball EXCEPT ![<<Target, p>>] = "good"]
          /\ UNCHANGED failures
       \/ /\ p \in Checked /\ failures < MaxFailures /\ failures' = failures + 1
          /\ tarball' = [tarball EXCEPT ![<<Target, p>>] = "wrong"]
    /\ task' = [task EXCEPT ![p] = "queued"]
    /\ UNCHANGED <<content, record, memos, plan, command, sig, runs, died>>

(* With fail_fast the first package that cannot be downloaded ends the     *)
(* fetch, as an interruption does: by an exception or by returning false.  *)
(* The extractions that were handed to the executor go on.                 *)
DownloadFails ==
    /\ phase = "fetch" /\ Pending # {}
    /\ \/ sig /\ UNCHANGED failures
       \/ failures < MaxFailures /\ failures' = failures + 1
    /\ phase' = "ended" /\ result' \in {"thrown", "false"}
    /\ tarball' \in {[x \in Places |-> IF x[1] = Target /\ x[2] \in gone
                                      THEN "absent" ELSE tarball[x]] : gone \in SUBSET Pending}
    /\ UNCHANGED <<content, record, memos, plan, task, allValid, sig, runs, died>>

-----------------------------------------------------------------------------
(* Extraction tasks: PackageExtractTask::run().  interruption_point()      *)
(* throws once the interruption flag is set; outside the try block of      *)
(* extract() the exception ends up in the task's future.                   *)

InProcess == ExtractThreads = 1

Moves(p, from, to) == task[p] = from /\ task' = [task EXCEPT ![p] = to]

(* What the tasks share with nobody else, the disk excepted.               *)
TaskOnly == UNCHANGED <<memos, plan, command, sig, runs>>

Validate(p) ==
    /\ \/ tarball[<<Target, p>>] = "wrong" /\ Moves(p, "queued", "invalid")
       \/ sig /\ Moves(p, "queued", "interrupted")
       \/ tarball[<<Target, p>>] = "good" /\ ~sig /\ Moves(p, "queued", "waiting")
    /\ TaskOnly /\ UNCHANGED <<disk, failures, died>>

Extracting == {p \in Packages : task[p] \in {"clearing", "extracting", "recording"}}

(* PackageFetcherSemaphore is taken.                                       *)
Acquire(p) ==
    /\ Cardinality(Extracting) < ExtractThreads
    /\ \/ sig /\ Moves(p, "waiting", "interrupted")
       \/ ~sig /\ Moves(p, "waiting", "clearing")
    /\ TaskOnly /\ UNCHANGED <<disk, failures, died>>

(* clear_extract_path(): file after file.                                  *)
RemoveSome(p) ==
    /\ task[p] = "clearing" /\ content[<<Target, p>>] # "absent"
    /\ content' = [content EXCEPT ![<<Target, p>>] = "partial"]
    /\ record' \in {record, [record EXCEPT ![<<Target, p>>] = "none"]}
    /\ TaskOnly /\ UNCHANGED <<tarball, task, failures, died>>

(* Mutant of ClearPath: what is in the way is left there.                  *)
ClearPathSkipped(p) ==
    Moves(p, "clearing", "extracting") /\ TaskOnly /\ UNCHANGED <<disk, failures, died>>

ClearPath(p) ==
    /\ Moves(p, "clearing", "extracting")
    /\ content' = [content EXCEPT ![<<Target, p>>] = "absent"]
    /\ record' = [record EXCEPT ![<<Target, p>>] = "none"]
    /\ died' = died \ {p}
    /\ TaskOnly /\ UNCHANGED <<tarball, failures>>

ExtractSome(p) ==
    /\ task[p] = "extracting" /\ content[<<Target, p>>] = "absent"
    /\ content' = [content EXCEPT ![<<Target, p>>] = "partial"]
    /\ TaskOnly /\ UNCHANGED <<tarball, record, task, failures, died>>

(* What the directory holds once the whole archive is extracted over it.   *)
Unpacked(p) ==
    IF content[<<Target, p>>] \in {"stale", "mixed"} THEN "mixed"
    ELSE IF tarball[<<source[p], p>>] = "good" THEN "whole" ELSE "stale"

(* The archive is extracted.  An interruption at the end has the           *)
(* extraction fail all the same, and extraction_guard erase a .tar.bz2.    *)
ExtractDone(p) ==
    /\ task[p] = "extracting" /\ tarball[<<source[p], p>>] \in {"good", "wrong"}
    /\ \/ ~sig /\ Moves(p, "extracting", "recording")
          /\ content' = [content EXCEPT ![<<Target, p>>] = Unpacked(p)]
       \/ sig /\ Moves(p, "extracting", "failed")
          /\ \E left \in {"absent", Unpacked(p)} :
                content' = [content EXCEPT ![<<Target, p>>] = left]
    /\ TaskOnly /\ UNCHANGED <<tarball, record, failures, died>>

(* An archive that was cut short, a full disk or an interruption stops it. *)
Stopped(p) ==
    \/ (sig \/ tarball[<<source[p], p>>] = "partial") /\ UNCHANGED failures
    \/ failures < MaxFailures /\ failures' = failures + 1

ExtractFails(p) ==
    /\ Moves(p, "extracting", "failed") /\ Stopped(p)
    /\ \E left \in {"partial", "short"} \cup IF sig THEN {"absent"} ELSE {} :
          content' = [content EXCEPT ![<<Target, p>>] = left]
    /\ TaskOnly /\ UNCHANGED <<tarball, record, died>>

(* extract_subproc() runs a subprocess and does not look at its exit       *)
(* status: one that dies half-way counts as having extracted the package.  *)
ChildFails(p) ==
    /\ ~InProcess /\ task[p] = "extracting" /\ Stopped(p)
    /\ \/ ~sig /\ Moves(p, "extracting", "recording") /\ died' = died \cup {p}
       \/ sig /\ Moves(p, "extracting", "failed") /\ UNCHANGED died
    /\ \E left \in {"partial", "short"} : content' = [content EXCEPT ![<<Target, p>>] = left]
    /\ TaskOnly /\ UNCHANGED <<tarball, record>>

(* An archive that was not extracted to its end may have its index, or not.*)
EndsWithIndex(p) == content[<<Target, p>>] \in {"whole", "stale", "mixed"}
HasIndex(p) == EndsWithIndex(p) \/ p \in IndexFirst

(* write_repodata_record() reads info/index.json and adds to it.           *)
WriteRecord(p) ==
    /\ \/ /\ HasIndex(p) /\ Moves(p, "recording", "extracted")
          /\ record' = [record EXCEPT ![<<Target, p>>] = "ours"]
       \/ ~EndsWithIndex(p) /\ Moves(p, "recording", "failed") /\ UNCHANGED record
    /\ TaskOnly /\ UNCHANGED <<tarball, content, failures, died>>

-----------------------------------------------------------------------------
(* The end of the fetch.                                                   *)

ExtractTasks == {p \in Packages : need[p] \in {"extract", "download"}}

(* Mutant of WaitAll: extractions that failed are waited for, too.         *)
WaitAllExtracted ==
    /\ phase = "fetch" /\ \A p \in ExtractTasks : task[p] = "extracted"
    /\ phase' = "collect"
    /\ UNCHANGED <<disk, memos, plan, task, allValid, result, sig, bounds, died>>

(* Everything was downloaded, and every future is ready.                   *)
WaitAll ==
    /\ phase = "fetch" /\ \A p \in ExtractTasks : task[p] \in Final
    /\ phase' = "collect"
    /\ UNCHANGED <<disk, memos, plan, task, allValid, result, sig, bounds, died>>

(* clear_invalid_caches(), one package: get() throws what the task threw,  *)
(* and clear_cache() throws when the tarball is in a cache it cannot write.*)
(* What is cleared lies beside the tarball.                                *)
Collect(p) ==
    /\ phase = "collect"
    /\ \/ /\ task[p] = "interrupted"
          /\ phase' = "ended" /\ result' = "thrown" /\ UNCHANGED <<disk, task, allValid, died>>
       \/ /\ task[p] = "extracted" /\ task' = [task EXCEPT ![p] = "collected"]
          /\ UNCHANGED <<disk, command, died>>
       \/ /\ task[p] \in {"invalid", "failed"} /\ source[p] \notin Writable
          /\ phase' = "ended" /\ result' = "thrown" /\ UNCHANGED <<disk, task, allValid, died>>
       \/ /\ task[p] \in {"invalid", "failed"} /\ source[p] \in Writable
          /\ tarball' = [tarball EXCEPT ![<<source[p], p>>] = "absent"]
          /\ content' = [content EXCEPT ![<<source[p], p>>] = "absent"]
          /\ record' = [record EXCEPT ![<<source[p], p>>] = "none"]
          /\ task' = [task EXCEPT ![p] = "collected"]
          /\ died' = IF source[p] = Target THEN died \ {p} ELSE died
          /\ allValid' = FALSE /\ UNCHANGED <<phase, result>>
    /\ UNCHANGED <<memos, plan, sig, bounds>>

(* Mutant of FetchEnds: a package that was not valid does not matter.      *)
FetchEndsIgnoresInvalid ==
    /\ phase = "collect" /\ \A p \in ExtractTasks : task[p] = "collected"
    /\ result' = IF sig THEN "false" ELSE "true"
    /\ phase' = IF sig THEN "ended" ELSE "link"
    /\ UNCHANGED <<disk, memos, plan, task, allValid, sig, bounds, died>>

FetchEnds ==
    /\ phase = "collect" /\ \A p \in ExtractTasks : task[p] = "collected"
    /\ result' = IF ~allValid THEN "thrown" ELSE IF sig THEN "false" ELSE "true"
    /\ phase' = IF allValid /\ ~sig THEN "link" ELSE "ended"
    /\ UNCHANGED <<disk, memos, plan, task, allValid, sig, bounds, died>>

-----------------------------------------------------------------------------
(* Linking looks each extracted directory up, and throws when none is      *)
(* found; what else it does is Transaction's.                              *)
Lookup(p) ==
    /\ phase = "link" /\ dirFound[p] = NoCache
    /\ \E c \in Caches \cup {NoCache} :
          /\ DirLookup(p, c)
          /\ dirMemo' = DirMemos(p, c)
          /\ dirFound' = [dirFound EXCEPT ![p] = c]
          /\ phase' = IF c = NoCache THEN "ended" ELSE phase
          /\ result' = IF c = NoCache THEN "missing" ELSE result
    /\ UNCHANGED <<disk, tarMemo, tarFound, plan, task, allValid, sig, bounds, died>>

LinkEnds ==
    /\ phase = "link" /\ (sig \/ \A p \in Packages : dirFound[p] # NoCache)
    /\ phase' = "ended"
    /\ UNCHANGED <<disk, memos, plan, task, allValid, result, sig, bounds, died>>

-----------------------------------------------------------------------------
(* The user, the operating system, and the next command.                   *)

Interrupt ==
    /\ ~sig /\ sig' = TRUE
    /\ UNCHANGED <<disk, memos, plan, task, command, bounds, died>>

(* A new process knows nothing but what is on the disk.                    *)
NewCommand ==
    /\ runs < MaxRuns /\ runs' = runs + 1
    /\ dirMemo' = [x \in Places |-> "unknown"] /\ tarMemo' = [x \in Places |-> "unknown"]
    /\ dirFound' = [p \in Packages |-> NoCache] /\ tarFound' = [p \in Packages |-> NoCache]
    /\ reported' = {}
    /\ need' = [p \in Packages |-> "unplanned"]
    /\ source' = [p \in Packages |-> NoCache]
    /\ task' = [p \in Packages |-> "none"]
    /\ allValid' = TRUE /\ phase' = "plan" /\ result' = "none" /\ sig' = FALSE
    /\ UNCHANGED <<disk, failures, died>>

Idle == \A p \in Packages : task[p] \notin Active

Kill == (phase # "ended" \/ ~Idle) /\ NewCommand

(* MainExecutor::close() has joined the threads before a process ends.     *)
Restart == phase = "ended" /\ Idle /\ NewCommand

Ended == phase = "ended" /\ Idle /\ UNCHANGED vars

-----------------------------------------------------------------------------
Task(p) ==
    \/ Validate(p) \/ Acquire(p) \/ RemoveSome(p) \/ ClearPath(p)
    \/ ExtractSome(p) \/ ExtractDone(p) \/ ExtractFails(p) \/ ChildFails(p)
    \/ WriteRecord(p)

Download == (\E p \in Packages : Receive(p) \/ Arrive(p)) \/ DownloadFails

Command ==
    \/ \E p \in Packages : Report(p) \/ Plan(p) \/ PlanRenamed(p) \/ Collect(p) \/ Lookup(p)
    \/ StartFetch \/ WaitAll \/ FetchEnds \/ LinkEnds

Next ==
    \/ Command \/ Download \/ \E p \in Packages : Task(p)
    \/ Interrupt \/ Kill \/ Restart \/ Ended

Spec == Init /\ [][Next]_vars

(* The command's thread, the downloads (Downloader's Termination) and each *)
(* extraction thread go on as long as they can; nobody has to interrupt,   *)
(* kill or start a command.                                                *)
FairSpec ==
    /\ Spec /\ WF_vars(Command) /\ WF_vars(Download)
    /\ \A p \in Packages : WF_vars(Task(p))

-----------------------------------------------------------------------------
(* Properties.                                                             *)

(* An extracted directory with the package's repodata_record.json is       *)
(* whole, at any time, so that whatever is killed or fails in the middle   *)
(* of an extraction is not taken for a package by a later command.  The    *)
(* exception are directories that an extracting subprocess left unfinished *)
(* when it died: its exit status is not looked at, and an archive that has *)
(* its index first gives them a record.                                    *)
UsableIsWhole ==
    \A x \in Places :
        record[x] = "ours" => content[x] = "whole" \/ (x[1] = Target /\ x[2] \in died)

(* After a fetch that succeeded, no directory is missing when linking      *)
(* looks it up, in spite of the memo tables filled before it was there,    *)
(* unless that very package was left unfinished or was looked up for the   *)
(* report under another name than the fetcher's.                           *)
ReadyMeansFound ==
    result = "missing" =>
        \E p \in died \cup (Reported \cap Renamed) : \A c \in Caches : dirMemo[<<c, p>>] = "no"

(* What the memo tables say is there can still be linked: nobody removes a *)
(* directory that was found.                                               *)
CachedAnswersHold ==
    /\ \A c \in Caches, p \in Packages : dirMemo[<<c, p>>] = "yes" => Accepted(c, p)
    /\ \A p \in Packages : dirFound[p] # NoCache => Accepted(dirFound[p], p)

(* The caches are the store a transaction counts on (PackageStore): no     *)
(* package that can be linked is lost, and a successful fetch has them     *)
(* all, but for those it left unfinished.                                  *)
Ready == {p \in Packages : \E c \in Caches : Accepted(c, p)}
Answer == CASE result = "none" -> "none"
            [] result \in {"true", "missing"} -> "success"
            [] OTHER -> "failure"
Store == INSTANCE PackageStore WITH ready <- Ready, doubtful <- died, answer <- Answer
StoreSpec == Store!Spec

(* Every command comes to its end, and its extraction threads with it.     *)
CommandEnds == <>[](phase = "ended" /\ Idle)

(* Once the fetch is over no extraction task is at work: the fetchers and  *)
(* tasks it uses live in the frame of fetch_extract_packages().  It does   *)
(* not hold: a download that fails ends the fetch at once.                 *)
NoTaskOutlivesFetch == phase \in {"link", "ended"} => Idle
=============================================================================
