# A TLA+ model of mamba

This directory holds a TLA+ development for mamba (`libmamba`, `micromamba`):
specifications translated from the C++ sources, TLC configurations that check
them on small instances, and TLAPS proofs of what they promise for every
instance. `PROJECT.json` maps every definition to the lines it models.

## 1. Inventory of the system

libmamba resolves, downloads, extracts and links conda packages.  A command
(`install`, `create`, `update`, `remove`, ...) goes through these parts, in
this order; the state each part keeps is in parentheses.

| Part | Source (under `src/libmamba`) | State | Operations |
|---|---|---|---|
| Configuration | `src/api/configuration.cpp` | loaded values by source, load order | load, compute, hooks, reset |
| Context, channels | `src/core/context.cpp`, `channel_context.cpp`, `src/specs/channel.cpp` | parameters, alias tables | resolve names to channels |
| Subdir index | `src/core/subdir_index.cpp` | cache files of repodata, their metadata (etag, last-modified, mtime), validity flags | load cache, check, download, commit, refresh |
| Channel loading, sharded repodata | `src/api/channel_loader.cpp`, `src/core/shards.cpp`, `shard_traversal.cpp`, `shard_index_loader.cpp` | requested root names, which subdirs have shards, repos in the database, visited and pending nodes | load a subdir in full or by shards, traverse, fall back, expand the roots, retry |
| Downloader | `src/download/*.cpp` | trackers, mirror attempts, completion map, mirror statistics | start, complete, retry, switch mirror, stop |
| Lock files | `src/core/util.cpp` | in-process registry, `fcntl` locks held by processes | acquire, wait, time out, release |
| Package cache | `src/core/package_cache.cpp` | tarballs, extracted directories, memo tables, writability | first valid, validate, clear |
| Package fetcher | `src/core/package_fetcher.cpp` | per package: needs download / extract, checksum, extraction task | download, validate, extract, write record, clear |
| Threads | `src/core/thread_utils.cpp`, `execution.cpp`, `include/mamba/core/execution.hpp`, `tasksync.hpp` | thread count, interruption flag, executor's threads | schedule, interrupt, join |
| Solver | `src/solver/**`, `ext/solv-cpp` | libsolv pool, jobs, problems graph | add packages, solve, explain |
| Transaction | `src/core/transaction.cpp`, `transaction_context.cpp` | solution, rollback record, pyc compilation process | fetch, unlink, link, roll back |
| Linking | `src/core/link.cpp` | files of the prefix, `conda-meta` records | link, unlink, undo, run scripts |
| Prefix data and history | `src/core/prefix_data.cpp`, `history.cpp` | package records, `conda-meta/history` | load, add entry, replay |
| Activation | `src/core/activation.cpp`, `shell_init.cpp` | shell variables `CONDA_SHLVL`, `CONDA_PREFIX[_n]`, `CONDA_STACKED_n`, `PATH`, `PS1` | activate, deactivate, reactivate |
| Content trust | `src/validation/*.cpp` | trusted root, role keys, thresholds, expirations | update root chain, verify index and packages |
| Specs | `src/specs/*.cpp` | values | versions, version specs, match specs, channels, parse, compare, match |
| Programs and bindings | `micromamba`, `libmambapy`, `mamba` | none of their own | command line, Python API |

The parts interact by direct calls on one thread (a command), by callbacks (the
downloader calls a request's `on_success`, `on_failure` and progress callbacks),
by tasks handed to `MainExecutor` (extraction), by files in the package cache
and in the prefix, which other mamba processes share, and by the process-wide
interruption flag that the signal-handling thread sets.

### What is hard, and what makes each part correct

* **Downloader.** Messages from libcurl arrive in any order while retries,
  mirror changes and a user's interruption change the trackers.  Correct when
  its unsigned counters and its completion map agree with the trackers, every
  request is delivered once or reported, and the loop ends.
* **Package fetcher and cache.** Extraction runs on threads while downloads go
  on; the process can be killed between any two file operations and other
  processes share the cache.  Correct when what is linked was validated, and
  when a half-written package is never taken for a valid one.
* **Transaction.** A failure or an interruption can come between any two
  (un)link steps.  Correct when the prefix ends as planned or as it began, and
  the history and records agree with what is on disk.
* **Lock files.** In-process re-entrance and other processes with timeouts.
  Correct when a path has at most one owner and it is released by the last user.
* **Channel loading.** Some subdirs come in full, others only as far as the
  requested packages reach into them; several passes, fallbacks and a retry decide
  which.  Correct when nothing that the solver needs is left out silently.
* **Subdir index.** Several cache directories, several files that describe each
  other, kills between their writes, a server that moves on.  Correct when no stale
  content is taken for fresh and no file is paired with another's metadata.
* **Threads.** Tasks start tasks and hand over threads while the executor closes
  and the objects they use are destroyed.  Correct when nothing runs beyond either
  and both return.
* **History.** Long sequences of commands whose entries are all that is left of
  them.  Correct when a revision comes back as it was and what the user asked for
  stays asked for.
* **Activation.** Long sequences of activate and deactivate, stacked or not.
  Correct when leaving an environment restores what entering it replaced.
* **Content trust.** Correct when no role content is trusted below its threshold
  and the root never goes back.

## 2. Plan

Modules, in order of importance.  Each component has its module `X`, an
`MCX` with the small instance, one `.cfg` per question, and `XProofs` with its
theorems; those of `Transaction` and `History` are in one module, `PrefixProofs`, which
tells what becomes of a prefix by one transaction and along its history.

| | Module | State |
|---|---|---|
| 1 | `Downloader`, `MCDownloader`, `DownloaderProofs` | done |
| 2 | `Transaction`, `MCTransaction`, `PrefixProofs` | done; the constructors and the prefix's lock are left out |
| 3 | `LockFile` implementing `ProcessLock`, `MCLockFile`, `LockFileProofs` | done for one path |
| 4 | `PackageFetch` implementing `PackageStore`, `MCPackageFetch`, `PackageFetchProofs` | done |
| 5 | `ChannelLoad`, `MCChannelLoad`, `ChannelLoadProofs` | done: passes, shards, fallbacks, retry |
| 6 | `SubdirIndex`, `MCSubdirIndex`, `SubdirIndexProofs` | done for one subdir |
| 7 | `Activation` implementing `EnvStack`, `MCActivation`, `ActivationProofs` | done |
| 8 | `Executor`, `MCExecutor`, `ExecutorProofs` | done: executor and task synchronizer together |
| 9 | `History`, `MCHistory`, `PrefixProofs` | done |
| 10 | Several locks at once (one per package cache, in different orders); two transactions on one prefix | to do |
| 11 | Pure algorithms against reference definitions: order of versions, version specs, compression of the problems graph | to do |

The chain of trusted roots and the loading of configuration are not planned: each
is one pass over values read once, without steps that anything could come between.

Composition: the lock of `LockFile` over several caches with `PackageFetch` of
two commands (whose assumption that it alone changes the caches that lock
justifies), and `PackageStore` as what `Transaction` sees of the fetch.

Theorems: every property of safety that a run checks is proved for every value of the
constants (section 6).  What would be proved next are those of module 10: that each
command holds the locks of the caches it changes, and in which orders they can be taken
without a deadlock.

## 3. How to run

Each run of `PROJECT.json` names a module and a configuration:

    tlc -config PackageFetchStore.cfg MCPackageFetch.tla
    tlapm PackageFetchProofs.tla

## 4. The modules

### Downloader

`Downloader`, `DownloadTracker`, `MirrorAttempt` and the mirrors' statistics
(`src/download/downloader.cpp`, `mirror.cpp`).  One thread alternates between
starting transfers and handling libcurl's messages, one message at a time.

| Model | Code |
|---|---|
| `tracker`, `attempt`, `tried` | `DownloadTracker::m_state`, `m_mirror_attempt`, `m_tried_mirrors` |
| `stats` | `MirrorStats` of each mirror; `PriorFailures` is what earlier batches left |
| `waiting`, `completion` | `m_waiting_count`, the keys of `m_completion_map` |
| `msg`, `file` | external: libcurl's pending message and the file it writes |
| `result` | the last of `m_attempt_results` |
| `phase` | where `Downloader::download()` is: its loop test, `prepare_next_downloads`, `update_downloads`, `download_while_stopping` |

Actions: `CheckLoop`, `RequestStop`, `StartTransfer` (with the choice of a
mirror), `PrepareDone`, the ways of handling a message (`StepSucceeds`,
`RequestSucceeds`, `RetryLater`, `SwitchMirror`, `GiveUp`, `TransferStopped`),
`UpdateDone`, `DrainCheck`, `DrainAgain`; of the surroundings `CurlWrite`, `CurlDone`,
`RetryElapse` (a back-off date passes) and `Interrupt`.  A request to an HTTP
mirror is one transfer; one to an OCI registry is up to three (token, manifest,
blob), the token being omitted when it is known.  A request outside `ToFile` keeps its
body in memory.  That a mirror takes more connections is always so: nothing calls
`cap_allowed_connections()`.

Abstracted: what is transferred, URLs, progress, time (a date has passed or
not), and the order in which libcurl delivers messages (any).

### Transaction

`MTransaction::execute()`, `TransactionRollback`, `LinkPackage` and
`UnlinkPackage` (`src/core/transaction.cpp`, `link.cpp`,
`transaction_context.cpp`).  Packages are linked and unlinked one file after
the other; the record in `conda-meta` comes last.

| Model | Code |
|---|---|
| `todo`, `op` | the loop of `execute()` or of `rollback()`, and the package at work |
| `linkStack`, `unlinkStack` | `m_link_stack`, `m_unlink_stack` |
| `records`, `file` | the JSON records of `conda-meta`, and whose content each path of the prefix has |
| `pyc` | `.pyc` files the child process `m_pyc_process` has still to write |
| `cached` | packages whose extracted directory is found |
| `pip`, `entry` | what pip has, the history entry; `PipRecords` are names, `PyPI` packages of the solution whose channel is PyPI |

Any file operation may throw (`Fail`), the user may interrupt, the process may
be killed at any step, and the compilation process writes its files whenever
it likes (`CompilePyc`).

### LockFile, ProcessLock

`LockFile`, `LockFileOwner` and `LockedFilesRegistry` (`src/core/util.cpp`,
POSIX branch) for one path.  `owner[p]` is what the registry of process `p` has a
weak pointer to, its `users` the threads that hold the shared pointer; `my[t]`
the owner a thread constructs or destroys, `path` the inode behind the name,
`lock` the kernel's record locks, which belong to a process and an inode and go
when the process closes any descriptor of it.  Two history variables name what goes
wrong in this code: `replaced`, that a process which had found no lock file removed one
that was open elsewhere (`Remove`), and `unsound`, the processes that go on without the
kernel's lock because they closed another descriptor of the inode (`Close`) or took a
spurious wakeup for the lock (`WakeUp`).  `ProcessLock` is what users count on: one
process at a time, shared within it; a process may lose its lock.

### PackageFetch, PackageStore

`MTransaction::fetch_extract_packages()` with `PackageFetcher`,
`MultiPackageCache` and the extraction threads (`src/core/transaction.cpp`,
`package_fetcher.cpp`, `package_cache.cpp`, `package_handling.cpp`).

| Model | Code |
|---|---|
| `tarball`, `content`, `record` | in each cache, the package's archive, extracted directory and `repodata_record.json` |
| `dirMemo`, `tarMemo` | `m_valid_extracted_dir`, `m_valid_tarballs` of each cache |
| `dirFound`, `tarFound` | `m_cached_extracted_dirs`, `m_cached_tarballs` |
| `need`, `source` | `m_needs_download`, `m_needs_extract`, and the cache of the tarball |
| `task` | each `PackageExtractTask`, its thread and its future |
| `phase`, `result`, `allValid` | the command: plan, fetch, collect (`clear_invalid_caches`), link |

`Report` looks a package up for the table or the JSON shown before the fetch;
`Plan` and `PlanRenamed` are the fetcher's constructor (micromamba rewrites a
package's channel, so that the memo tables have it under another key);
`Receive`, `Arrive` and `DownloadFails` stand for the batch that `Downloader`
models; the actions of `Task` are `PackageExtractTask::run()` step by step;
`Collect` and `FetchEnds` end the fetch; `Lookup` is what linking asks.  `Kill`
and `Restart` begin another command on the caches as they are.  `PackageStore`
is what the transaction counts on: the set of packages that can be linked only
grows, and a fetch that succeeds leaves all of them linkable.  The exception is
`died` (`doubtful` in the store): packages whose directory was left by an extracting
subprocess that died and was taken for one that had extracted it all.  A package
is in `died` from `ChildFails` until its directory is cleared (`ClearPath`, `Collect`).

Abstracted: an archive is absent, cut short, wrong or good, a directory is one
of six contents; `IndexFirst` are the archives that have `info/index.json`
before the rest, as `.tar.bz2` archives do, so that a broken extraction may look whole.

### ChannelLoad

`load_channels()` (`src/api/channel_loader.cpp`) with the traversal of
`RepodataSubset` (`src/core/shard_traversal.cpp`) and the shard indexes
(`shard_index_loader.cpp`).  Subdirs are the positions of the vector of loaders;
a node is a package name in a subdir.

| Model | Code |
|---|---|
| `hasShards`, `cachedIndex`, `valid` | a subdir's metadata says that shards are there, its shard index is cached, `valid_cache_found()` |
| `roots`, `rootsAfterFlat` | `effective_shard_root_packages`, and their number after the first pass |
| `phase`, `pass`, `cur`, `mixed`, `expand` | where `load_all_subdirs()` is, `shard_then_expand`, `expand_shard_roots_from_loaded_shards` |
| `walk` | `RepodataSubset`: visited, pending and fetched nodes of the subdirs of one channel |
| `flat`, `shard`, `prioritized` | the repos in the database, full or made of shards, and whether their priority was set |
| `kept`, `firstPass` | history: repos of the failed attempt, and of the pass before the follow-up pass |
| `loadingFailed`, `isRetry`, `errors` | the same in `load_channels_impl()` |

Actions: `Check` (HEAD requests) and `FetchIndexes` (full indexes); for each
subdir `Skip`, `NotThere`, `LoadFlat`, or `OpenShards` with one `Batch` per
round of the breadth-first search, ended by `AddShards` or `ShardMissing`; `Fallback` to
the full index; then `FlatPassOver`, `LoadAgain`, `Restart`, `Finish`.  Each download and
each parse may fail, and `Interrupt` comes during downloads.  Names stand for all
their records; the records of other python versions that a shard drops are left out.

### SubdirIndex

`SubdirIndexLoader` (`src/core/subdir_index.cpp`) and
`load_subdir_in_database()` (`package_database_loader.cpp`) for one subdir.

| Model | Code |
|---|---|
| `json`, `state`, `solv` | in each cache, `<key>.json`, `<key>.state.json` and `<key>.solv`; a version of the index is its etag too |
| `now` and the `mtime`s | modification times, each write a new one; that a file is over its max-age is the flag `old` |
| `dirLock` | the `LockFile` of a cache directory |
| `proc` | the loader: `m_metadata` (`meta`), `m_valid_cache_path`, `m_expired_cache_path`, and where it is |
| `mixed`, `crossed` | history: a search has read two different etags; a command put another version into a cache that another command was using |

One action per system call that leaves something: `FindValid`, `FindExpired`,
`Pass` and `Refuse` for each cache searched; `Ask`; `RefreshInPlace` or `CopyJson`,
`CopySolv` after a 304, `Finalize` after a 200; `Touch`, `TouchSolv`,
`OpenState` (the file is truncated), `WriteState`; `LoadSolv`, `LoadJson`,
`WriteSolv`.  `Kill` comes anywhere; `Publish` and `Age` are the server and the clock.
Commands of several processes run at the same time.  A command uses a cache (`Uses`)
from its search to its load; the code locks the directory only while it puts an index
there, and single files while it refreshes them (`StateLocked`).

### Activation, EnvStack

`Activator` (`src/core/activation.cpp`): each command reads shell variables
and prints assignments that the shell evaluates.

| Model | Code |
|---|---|
| `path`, `prefix`, `shlvl` | `PATH`, `CONDA_PREFIX`, `CONDA_SHLVL` |
| `prefixAt`, `stackedAt` | `CONDA_PREFIX_<n>`, `CONDA_STACKED_<n>` |
| `value`, `saved` | variables of the environments, `__CONDA_SHLVL_<n>_<var>` |
| `prompt` | `{stacked_env}` in `CONDA_PROMPT_MODIFIER` |
| `before`, `twice` | history: the shell before each level, and whether an environment was shown at two levels |

Actions are the branches of `build_activate()` (`ActivateFirst`, `ActivateAgain`,
`ActivateBelow`, `ActivateStacked`, `ActivateInstead`), `Deactivate`, `Reactivate`.  An
environment's directories in `PATH` are one, and the value it gives to a variable
is its name.  `EnvStack` is the stack of environments a user has in mind.

### Executor

`MainExecutor` (`include/mamba/core/execution.hpp`) and `TaskSynchronizer`
(`tasksync.hpp`), together because the executor runs what the synchronizer wraps.

| Model | Code |
|---|---|
| `open`, `threads`, `mutex`, `handlers` | `is_open`, the vector of threads and its mutex, `close_handlers` |
| `call`, `closing` | where each thread is in `schedule()` or `take_ownership()`, and the main thread in `close()` |
| `pc` | where each task is: before its body, in it, or on its way out of `synchronized()` |
| `status`, `joinRequested`, `running` | who shares the `Status`, its flag, `m_running_tasks` |
| `syncMutex`, `joining`, `notified` | `m_mutex`, where `join_tasks()` is, the condition variable |
| `late` | history: tasks that began between the two tests of `join_tasks()` |

Each action is one step that other threads can see: a test, a lock, a change of a
count.  The condition of `join_tasks()` is two of them, `TestCount` and `TestExpired`.
Any thread may schedule tasks or hand over threads it started, as a lock file
with a timeout does in the main thread or within an extraction.

### History

`History` (`src/core/history.cpp`), `PackageDiff::from_revision()` and the
commands that write an entry (`src/api/install.cpp`, `update.cpp`, `remove.cpp`).
The specs a user gives have a name and perhaps a version, and no build.

| Model | Code |
|---|---|
| `entries` | `conda-meta/history`: what each entry unlinked and linked, the specs to update and to remove |
| `prefix` | the packages of `conda-meta` |
| `past`, `wanted` | history: the prefix after each revision, and the names the user asked for |

`FromRevision` follows each name through the revisions above the target as the
loops of `from_revision()` do; `RequestedSpecs` is `get_requested_specs_map()`.  The
actions are the commands, each with any outcome its jobs let the solver choose.

## 5. What is checked

Passing runs (distinct states in parentheses):

| Run | Properties | What it shows |
|---|---|---|
| `dl_batch` (254,856) | `WaitingCountExact`, `MirrorLoadExact`, `NoPartialFileLeft`, `OutcomeReported`, `Termination`, `NoStartWhileStopping` | the unsigned counter, the statistics of a shared mirror, and what is reported stay right through retries, mirror changes, throws and interruption; a batch that nobody interrupts ends |
| `tx_update` (45,868) | `RecordedIsWhole`, `DoneMeansTarget`, `NoOrphanFiles`, `InterruptedRestores`, `CancelledRestoresOthers`, `HistoryMatchesPrefix`, `TransactionEnds` | a prefix is as planned or as before, or wrong in the ways listed only, and every transaction ends |
| `lock_shared` (125,496) | `HeldLockIsReal`, `ExclusiveUntilReplaced`, `LockSpec`, `Served` | processes create, find, share and remove the file: who has the lock has the kernel's, and the lock is one, until a file in use is removed or a process drops its own lock; who asks for it gets it or an error |
| `pf_store` (407,780) | `UsableIsWhole`, `ReadyMeansFound`, `CachedAnswersHold`, `StoreSpec`, `CommandEnds` | the caches implement the store through failures, interruption, kills and subprocesses that die, archives with their index first included; only what such a subprocess left is excepted |
| `channel_load` (202,674) | `NoRootLost`, `SecondPassKeeps`, `OneCrossing`, `LoadEnds` | no requested name is lost without an error whatever fails, the follow-up pass loses nothing, one change of channel is followed when nothing fails, and loading ends though dependencies form a cycle |
| `index_cache` (3,183,739) | `UpToDateUnmixed`, `StateHonest`, `SolvHonest` | two processes at a time: unless a search reads two different etags or a command replaces an index that another is using, who asked the server is up to date, and no kill or refresh pairs a file with another's metadata |
| `activation` (82,998) | `PathShowsStack`, `OwnValues`, `StackSpec`, `RoundTrip`, `PromptFollows` | the shell's variables implement a stack of environments, and each deactivation returns to the shell from before |
| `executor` (204,945) | `NoWorkAfterJoin`, `NoThreadAfterClose`, `CloseReturnsUnlessEmbraced`, `JoinReturnsUnlessMissed` | no thread runs beyond `close()` and no task's body beyond `join_tasks()`; both return but in one way each |
| `history` (180,456) | `RevisionRestored`, `PruneSparesRequested` | going back to a revision brings back what was installed then; pruning spares what was asked for |

Runs that end in a violation, each a disagreement of the code with a comment or
a message of its own (`PROJECT.json`, findings):

| Run | Property | What happens |
|---|---|---|
| `tx_cancelled` | `CancelledRestoresAll` | the package that threw is on no rollback stack and stays half done, while the message says everything was rolled back |
| `lock_replaced` | `MutualExclusion` | the file is removed after its lock was released: two processes hold locks of two files of the same name |
| `executor_assert` | `IsJoined` | a task begins, runs and lets go of the `Status` between the two reads of the condition of `join_tasks()`, which returns with that task still counted: its `assert` fails |

The modules state some more properties that do not hold, each after the comment of
the code that promises it; section 7 tells how they fail.

### Bounds, and why they are enough

* `Downloader`: two requests, two mirrors.  One request may use both mirrors,
  the other, which only checks its file, shares the HTTP mirror, so that a
  mirror's statistics have two contributors; the OCI mirror has sequences of one
  and two transfers, and both requests may run at once.  `MaxRetries = 1` and
  `MaxMirrorTries = 3` reach a retry, a change of mirror and the fallback rounds;
  `PriorFailures = 1` a mirror that is bad from the beginning.
* `Transaction`: an update between two builds that share a path, a package added,
  one that pip has to be installed and one to be removed; a `.pyc` file of the noarch
  builds.  `MaxFailures = 2` lets an exception start a rollback and another stop
  it.
* `LockFile`: a replaced file takes three roles (one removes, one
  waits on the old inode, one creates a new one); the process that removed it and tries
  again plays the third.  Two threads in one process share its lock and close
  each other's descriptors.  As many inodes as threads, each of which may have another
  one open.  No process finds the file beforehand, but any may find what another
  created or left when it was killed.  Instances of three processes with four threads
  (1,057,767 states, `ExclusiveUntilReplaced` and `LockSpec`) pass as well.
* `PackageFetch`: a package with a checksum and one without; a cache that cannot
  be written before two that can, so that a package may be found where it cannot
  be cleared and extracted elsewhere than beside its tarball.  Two commands let
  one find what a killed one left.  `MaxFailures = 2` pays for a bad mirror and a
  failed extraction.  One archive has its index first; with two extraction threads its
  subprocess may die after it wrote the index.  Both packages are reported and one has
  another name by then.  `Before` is what commands that ended well leave.
* `ChannelLoad`: two channels, one of them with two subdirs, are what a change of
  channel and a dependency between subdirs of one channel need.  A chain of four
  packages, closed to a cycle, is put into the subdirs in every way, and any of the
  subdirs may have shards.  `MaxFailures = 1` lets any one download or parse fail.
* `SubdirIndex`: two caches, either of which may be read-only, are what mixing
  metadata and copying an expired index need; two versions, so that the server
  may move between a search and its answer; two processes and three commands, so that
  two run at a time and another finds what they, or a killed one, left.  The processes
  are interchangeable (symmetry).
* `Activation`: four environments and five levels let an environment come back at
  another level and levels be left and entered anew.  `Marked = FALSE`: no
  environment uses the marker `***unset***` (see the observations).
* `Executor`: three tasks, one of which may be a handler, one start or hand over
  another; one spurious wake-up.
* `History`: names do not depend on each other in what is checked, so one name is
  enough; three versions and five entries reach a removal, a new install and a
  rollback of a rollback.  There is one build of each version, because rebuilds are
  where the property fails (see the observations); instances of two names with
  three entries and of two builds of two versions pass as well.

### Fairness

* `Downloader`: weak fairness of its thread, of the end of each transfer
  (libcurl has a connection timeout and a lower speed limit) and of the clock.
* `Transaction`: weak fairness of the thread and of the compilation process.
* `LockFile`: threads go on and locks are released in the end; strong fairness
  of the grant, as the kernel queues processes that wait for a record lock.
* `PackageFetch`: the command's thread, the batch (`Termination` of
  `Downloader`; `MaxFailures` counts what may go wrong) and each extraction
  thread, which needs no help from another to move on once it has its place in
  the semaphore.  Nobody has to interrupt, kill or start a command.
* `ChannelLoad`: weak fairness of the loader, which runs alone and whose downloads
  end (`Termination` again).
* `Executor`: weak fairness of every thread, and of `close()` and `join_tasks()`
  once they were called; nobody has to call them.  A mutex is asked for finitely often,
  so that weak fairness is enough to get it.
* `SubdirIndex`, `Activation`, `History`: none, their properties are of safety.

In all of them what fails or interrupts is never fair.

## 6. What is proved

All theorems are checked by TLAPS to the last leaf and hold for every value of the
constants that satisfies the named assumptions of the modules.

**Downloader** (`DownloaderProofs`).  `TypeCorrect`; then `WaitingCount`,
`CompletionMap`, `Parallelism`, `StepsInRange`, `DeliversOnce` and
`NoStartAfterStop` from one inductive invariant, `LoopInv`.  The count and the
map alone are not inductive: whether a transfer's end puts its tracker back to
waiting or ends it depends on the state of the attempt, so `AttemptMatchesTracker`
says what a waiting and a running tracker's attempt can be.
`StoppedOnlyDraining` is what the action property needs.  The requests must be
finitely many.  The map, the parallelism, the range of the steps and that a
request is delivered once are proved and not part of a run.  How a batch ends is proved from `EndInv`: `MirrorLoad`
(`running_transfers` of each mirror, a cardinality, changes with exactly the tracker
that a step starts or ends), `FilesComplete` (a partial file belongs to a transfer that
is still in the completion map, `PartialIsPending`) and `OutcomesReported`.

**Transaction** (`PrefixProofs`).  `TypeCorrect` and `RecordsAreWhole`: at any
point where the process may be killed, a package that `conda-meta` records has
all its files, but for the package being worked on and those whose own steps threw.  The
invariant adds what the package being worked on is (`OpInv`), what each loop has
left to visit and has put on its stack (`LoopInv`), and that packages recorded
together all come from before or all from after the transaction (`DiskInv`), hence
share no path: this is why linking one cannot break another.  It assumes that
the installed packages share no file, and that the planned ones do not
(`TransactionAssumption`).  How a transaction ends is proved from three more:
`RunInv`, what is recorded, on the stacks and still to do add up to the plan, in every
phase, and every file belongs to a package that is recorded or being worked on;
from it follow `DoneIsTarget`, `NothingOrphaned` and `HistoryTells`.  `Restorable`
says that whatever was installed is recorded or on the stack of the unlinked packages;
from it follow `InterruptionRestores` and `CancellationRestores`, under
`NothingRelinked`: no package is linked while it stays installed.  The solver never
plans that; an explicit transaction may, and its rollback then takes the package
away, since it was linked (`transaction.cpp:322`).

**LockFile** (`LockFileProofs`).  `LocksAreReal`, `OnlyOneProcess`, `FileStays`
and the refinement `ImplementsLock`, for any processes, threads and inodes, with
timeouts, kills and spurious wakeups, whether the file is there beforehand or not.
There are no premises: what this code gets wrong is in the history variables, and each
is set by the one step that does it.  Who makes an owner has the registry of its process
(`MakerInv`) and who opened the file has an inode (`InodeInv`).  `SoundInv` says that the
locks of processes not in `unsound` are the kernel's, those granted to a thread that has
not noticed yet included: any other descriptor that is closed would have put the process
into `unsound`.  `NameInv` says that until an open file is removed every open file is the
one that has the name, which is why two of them are one.  `KeptInv` is for `FileStays`.

**PackageFetch** (`PackageFetchProofs`).  `UsableDirectories`, `CachedAnswers`,
the refinement `ImplementsStore` and `LinkingFindsAll`, for archives of either order and
any number of extraction threads; what subprocesses that died left is excepted by name
(`died`).  The invariant: while a package is worked on
no cache has it (`WorkInv`), only a validated tarball is extracted (`SourceInv`),
the memo tables are right as long as fetchers are being made and their "yes" is
right for ever (`MemoInv`), and everything a successful fetch counts as there is
there or in `died` (`ReadyInv`).  `WorkInv` is why clearing what went wrong takes nothing
away, which is the heart of the refinement.  TLC checked it before it was proved.
`LinkingFindsAll` needs besides that nothing that is remembered hides the directory a
package is extracted to (`SightInv`), which is so for all but the packages that are both
reported by `--json` and renamed (`TwoNames`).

**ChannelLoad** (`ChannelLoadProofs`).  `TypeCorrect` and `RootsLoaded`: a load
without error has every requested name, whichever downloads failed.  `RootsInRepos`
and `RootsInWalk` say that the requested names are never dropped from the roots and
that a walk has them visited or pending; `Progress`, that what the passes have gone
past is loaded, which needs `Modes`, what each pass may find: a follow-up pass
removes the sharded repos of the first, and goes past them again.
`FollowUpKeeps` says that it has all their names again.  This is not a matter of the
passes alone, since each walk may be over other shard indexes: the invariant is that
every name taken from shards lies in *every* set of nodes that has the roots and is
closed under dependencies within the channel (`Needed`), which stays true as roots
and indexes become more, and that the nodes of a walk with all its shards are such a set
(`WalkInv`).  `CrossingLoaded` says what a load without failures has across channels.
`Smooth` says that nothing is left out on the way; `RootsKnown`, which names have become
roots in which pass; `ReposHave`, that a subdir that was gone past has all that the
roots of its pass reach, and has told its own names to the follow-up pass.  With only one
sharded channel there is none, and none is needed, because what its packages mention is
already within reach: that `Reachable` is closed and idempotent are lemmas of their own.

**SubdirIndex** (`SubdirIndexProofs`).  `StateFilesHonest`, `SolvFilesHonest` and
`LoadsUpToDate`, for any number of processes that use the caches at the same time and
may be killed anywhere; excepted is what follows once a search met two etags (`mixed`) or
a command replaced an index with another version while another was using it
(`crossed`).  A state file is believed only with the modification time of its index, and
`TimesInv` says that no file is from later than now: a write of an index therefore
makes the state file beside it unreadable until its own is written.  `FoundInv`
relates what each loader remembers of its search to what is in the caches; `AskedInv`
carries the version the server had at the beginning along.  That one command leaves
the others' part of the invariant alone is the lemma `OthersKeep`: it writes only into
caches they do not use, or the same version.  That `Target` is a cache
that can be written is the least-number principle (`WFMin`).

**Activation** (`ActivationProofs`).  `TypeCorrect`; `ActiveHasOwnValues` and the
refinement `ImplementsStack` come from `LevelsInv` and `SavedInv`: there is an environment at each
level, and no `CONDA_PREFIX_<n>` and no stacking mark above the top, which is why a mark
left by an earlier stack is never taken for a new one; what is saved below a level is
saved because the environment of that level sets the variable.

`PathIsStack`, `DeactivationReturns` and `PromptTellsShown` are about lists that a loop
filters or cuts down.  They are written as what the list has at a set of positions, in
order (`Kept`), so that no induction is needed: the lemmas say that positions in a row
keep a part of the list (`KeptRow`) and that a position above the others adds one element
(`KeptAbove`).  Two shells that are one level apart therefore have prompts that differ
by one environment (`PromptGrows`).  `RoundInv` says, while no environment was shown at
two levels, that `PATH` shows the prompt, the latest first and then the user's; that the
shell from before each level shows its own prompt (`Fits`); and that undoing a level of
one gives the one below (`UndoesLevels`, `UndoesValues`).  It has to speak of all the
shells at once, because leaving the top makes the one below it the current one.  `PATH`
needs no history: a prompt is shown by one list only (`SameShows`).  That variables
return is proved for environments that mark none as unset (`Marked = FALSE`, as in the
run), since with the marker it is false (section 7); `PATH` and the prompt need no such
assumption.

**Executor** (`ExecutorProofs`).  `TypeCorrect`, `NothingAfterJoin`,
`NothingAfterClose`, for finitely many tasks.  For `join_tasks()` two things work
together: a task holds the `Status` from its test until after its body (`StatusInv`) and
is counted from before its body until it has let go (`CountInv`).  The two are tested one
after the other: whoever is counted after the first test began since (`JoinInv`), and
whoever could still enter its body holds the `Status` at the second.  For
`close()` every thread that runs is one of the executor's, a handler, or being handed
over by a task that is one of the executor's (`OwnedInv`): joining these joins all.

**History** (`PrefixProofs`).  `HistoryTypeCorrect`, `RevisionsRestore` and
`PruningSpares`, for any number of names, versions and builds and files of any length;
the packages that can exist are finitely many (`HistoryAssumption`).
The code reads the file in loops whose result depends on everything read before.  The
model writes each loop as a recursive function on the positions of a list, and its value
is proved by induction on the positions of an interval (`UpTo`), which follows from the
fact that a non-empty set of naturals has a least element; `RunExists` and `RunsAgree` say once and for all that
such a recursion has a value at each position, and one only.  From these follow what the
revisions (`RevisionsAppend`) and the requested specs (`SpecsAppend`) become when an
entry is written.

`from_revision()` is proved right along what it consumes.  A name goes through a course
of packages since the target, and the entries still to be consumed are the differences
of that course after a position.  Up to the position, the difference found so far leads
from what the target had to what the course has there (`Settled`); between the removal
and the installation of one revision, it leads to a prefix without the name (`Torn`).
Each call of the two lambdas goes from one to the other (`InstallStep`, `RemoveStep`,
`ComeBackStep`), each of the inner loops ends at `Settled` (`RemovedFollowed`,
`InstalledFollowed`), hence the outer one (`DiffSettled`).  "Leads to" compares versions
only, as the code does; `VersionsTell` turns it into "the same package" for names of
which no version was rebuilt.  That going back never leaves two packages of one name
holds without this premise (`RevisionInstallable`), and `HistoryTypeCorrect` needs it.

`HistoryInv` relates the file to the prefix: each revision tells the difference between
two prefixes in a row and the last of them is the current one (`Recorded`); whatever was
ever installed was linked by some entry (`EverLinked`), which is what "rebuilt" is about;
every name asked for has a requested spec (`Asked`), which is the one of the last entry
that names it (`LastAsked`), so that a package that still matches it is spared.

Only model-checked: everything about liveness (`Termination`, `TransactionEnds`,
`Served`, `CommandEnds`, `LoadEnds`, `CloseReturnsUnlessEmbraced`,
`JoinReturnsUnlessMissed`), because fairness and ENABLED are out of this prover's
reach.  Induction over data is as well; where a loop over a list had to be reasoned
about, the list is described by its positions (`Activation`) or the induction is over
them (`History`).  The modules declare no recursive operator.

## 7. Observations

Met while modelling; the findings of section 5 apart.

Downloader:

* `remote_max_retries`, "the maximum number of retries each HTTP connection should
  attempt" (`src/libmamba/src/api/configuration.cpp:1596`), bounds the mirrors
  tried (`downloader.cpp:1286`); the retries at one mirror are its own constant.
* An interrupted batch may spin for ever: when a transfer fails in a retriable way or
  ends an intermediate OCI step while the batch drains, its tracker waits again and nobody
  starts or stops it (`StopTerminates` fails; `downloader.cpp:1340`).
* A retry may start before its `m_next_retry` date when another mirror could be
  tried: the condition that allows one allows the other
  (`downloader.cpp:1039`).
* `mirror_map::add_mirrors_from` makes each mirror from `id().to_string()`, which
  is `MirrorID <url>` and no URL (`mirror.cpp:24`): `make_mirror()` returns null
  and no mirror is added (`mirror_map.cpp:70`).

Transaction:

* The record in `conda-meta` is written in place and its stream is not checked
  (`link.cpp:1498`).
* A lock of `conda-meta` that could not be had is not noticed: the transaction goes on
  (`transaction.cpp:528`).
* An explicit transaction that installs an installed package overwrites it, and
  an interruption then unlinks it: it is lost (`transaction.cpp:322`, `803`).
* Packages that pip uninstalls before the loops are not restored by a rollback.
* Without interoperability, a package to remove whose name is also a pip record is
  neither unlinked nor uninstalled, but its removal goes into the history
  (`HistoryMatchesPrefix` leaves such packages out).
* When the compilation process fails to start, `m_pyc_process` is null and is
  dereferenced (`transaction_context.cpp:250-260`).
* A kill between the last link and line 812 of `transaction.cpp` leaves a
  finished prefix without history entry.

Locks:

* `wait_for()` without predicate (`util.cpp:955`) returns after a spurious
  wakeup as it does after a notification; the result of the helper thread is then read
  before it was written.
* The default timeout, 0, waits for ever.
* When threads share a path, one may close the descriptor of a dying owner after
  another of the process locked anew, which drops the new lock (`SharedLockKept` fails;
  `util.cpp:872`).  This is the first way into `unsound`, the spurious wakeup the other.
* The registry's mutex is held while a thread waits for the file lock
  (`util.cpp:1138`): the other threads of the process wait with it, for any path.

Package fetch:

* `extract_subproc()` does not look at the exit status of the subprocess
  (`package_handling.cpp:771`).  One that dies after it wrote `info/index.json`, which
  `.tar.bz2` archives have first (`package_handling.cpp:206`), counts: the directory gets a
  record, is linked, and later commands take it for the package.  These are the packages
  in `died`, which the properties except; without the exception they fail.
* With `--json` and micromamba's other channel name for the same package
  (`transaction.cpp:936-965`), the memo "not extracted" stays under the first key and
  linking throws "Package cache error": `ReadyMeansFound` allows it for the packages in
  `Reported \cap Renamed` only, of which the checked instance has one.
* `extraction_guard` erases a broken directory for `.tar.bz2` archives only.
* `clear_cache()` clears beside the tarball, not where the package was
  extracted, and throws for a cache that cannot be written; the packages after the one
  that threw are not cleared.  Neither harms the store, as the refinement shows.
* `on_success` schedules the extraction before it sets `m_needs_download` and
  `m_downloaded_url` (`package_fetcher.cpp:214-219`), which the task reads for
  `urls.txt`.
* `write_repodata_record()` does not check its stream.
* Extracting changes the current directory of the process.
* A failed download ends the fetch while extraction threads use the fetchers and tasks
  of its frame (`NoTaskOutlivesFetch` fails; `transaction.cpp:1150`).

Channel loading (a property in parentheses is stated in the module and fails):

* A name that a full repo needs on behalf of a package from shards is not looked up
  in the shards (`Complete`): the roots are taken from the full repos once, before any
  shard is read (`channel_loader.cpp:921`).  A sharded channel that falls back to its
  full index does not extend the roots of the others either.
* A full index that a sharded subdir falls back to gets no priority of its channel
  (`PrioritiesSet`).
* A subdir of which nothing is reachable, after its channel's others were
  loaded, gives "No packages" and is downloaded in full.
* The retry loads into the same database: repos of the failed attempt are there
  twice.
* The request for a shard index sends the etag of `repodata.json`.
* An index of a platform other than noarch that cannot be had is dropped silently.
* `clear_valid_cache_files()` with an empty `m_valid_cache_path` works on a relative
  path.

Subdir index:

* Each cache searched overwrites `m_metadata`, while the expired path stays the first
  one found (`subdir_index.cpp:750`): the second's etag is sent, and after a 304 the
  first's index is refreshed and taken for valid, and a `.solv` file is written with the
  origin of one and the content of the other (`UpToDate` without the exception fails).
* A kill in the middle of a state file leaves one that cannot be parsed; its exception
  is not caught in `load_cache()`, so that every later command gives up
  (`NeverRefused`).
* The refresh after a 304 locks single files, not the directory, and nothing is locked
  from the search to the load: a command may find the index it searched, or is about to
  describe, replaced by another (`crossed`).  With one cache and two processes, one
  touches an index that the server confirmed, the other puts a newer one in its place, and
  the first stores its old etag with it (`StateHonestUnmixed` fails).

Activation:

* An environment that is stacked a second time, two levels above itself, loses both its
  places in `PATH` when it is left (`ActiveOnPath`).
* When an environment is replaced, a variable that the next one does not set goes back
  to what it overwrote: the value of an environment that was itself replaced
  (`ReplacedHasNoSay`).
* Leaving an environment that marks a variable with `***unset***` unsets the user's own
  value, which was never saved (`RoundTrip` fails with `Marked = TRUE`).
* `{stacked_env}` is wrong after activating the environment that is active or the one
  below it.

Executor:

* `close()` joins with the lock held (`execution.hpp:120`): a task that waits for it in
  `schedule()` or `take_ownership()` is joined for ever (`CloseReturns`).
* A task that finds the join requested lets go of the `Status` and notifies nobody
  (`tasksync.hpp:118`): `join_tasks()` may sleep for ever (`JoinReturns`).
* `notify_one()` comes after the mutex is released, when the object may be gone
  (`NoTouchAfterJoin`); a task that began between the two tests of `join_tasks()`
  (`tasksync.hpp:220`) even has to lock that object's mutex after the join.
* `take_ownership()` after `close()` destroys a joinable thread: `std::terminate()`.

History:

* `from_revision()` compares versions, not builds: a package that was rebuilt is not
  brought back (`RevisionAlwaysRestored`).
* Going back to a revision makes what it reinstalls into requested specs with version
  and build.
* Packages from a lock file are never recorded as asked for.
* A requested spec that no longer matches after `update --all` does not keep its
  package in `update --all --prune`.
* Dependents that a "remove" takes along stay in the map of requested specs.
* An explicit install over an installed name leaves both records.
* `environments.txt` is rewritten without a lock.

## 8. What is not modelled, and why

Components without a module are listed in `PROJECT.json` with the reason.  Of the
modelled ones: the construction of a transaction from a solution, and the
prefix's lock (`Transaction`); Windows and paths other than one (`LockFile`);
signatures, `urls.txt`, `safety_checks` other than `warn` and `disabled`, and the
creation of cache directories (`PackageFetch`); the decoding of indexes and shards, and
the python version that shards are filtered by (`ChannelLoad`); local channels,
`clear_valid_cache_files()`, headers embedded in an index and a reader that meets a
half-copied file, a copy being one step (`SubdirIndex`); activation
scripts, the syntax of each shell and the layout of the prompt (`Activation`);
`reset()`, tasks that throw and the thread that receives signals (`Executor`); the text
of the history file (`History`).  The parts without a module are the solver, whose search is
libsolv's, passes over values that keep no state (specs, configuration, trust roles,
queries), output, text manipulation and the programs around the library.
libcurl, the network and the file systems are external and do whatever they may.
