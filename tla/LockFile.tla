------------------------------ MODULE LockFile -------------------------------
(***************************************************************************)
(* LockFile (libmamba/src/core/util.cpp) on POSIX systems: the lock of one *)
(* path, taken by the threads of several processes.  A LockFileOwner opens *)
(* or creates <path>.lock, takes an fcntl() record lock on it, and when it *)
(* dies closes the file and removes it unless it existed before.  Within a *)
(* process a registry behind a mutex shares the owner that is alive.  The  *)
(* kernel keeps record locks per process and file, not per descriptor:     *)
(* closing any descriptor of the file drops them.                          *)
(***************************************************************************)
EXTENDS FiniteSets

CONSTANTS
  Processes,
  Threads,
  ProcessOf,        \* Threads -> Processes
  Inodes,           \* files the name of the lock file may stand for
  Preexisting,      \* the lock file was there before any process started
  Timeout,          \* lock_timeout is not 0
  SpuriousWakeups,  \* condition variables may wake up without a notification
  NoInode, NoProcess, NoThread

ASSUME LockFileAssumption ==
  /\ ProcessOf \in [Threads -> Processes]
  /\ {Preexisting, Timeout, SpuriousWakeups} \subseteq BOOLEAN
  /\ Preexisting => Inodes # {}
  /\ NoInode \notin Inodes /\ NoProcess \notin Processes /\ NoThread \notin Threads

VARIABLES
  path,      \* the inode behind the name of the lock file
  lock,      \* the process that has the record lock on each inode
  registry,  \* per process, the thread in LockedFilesRegistry::acquire_lock()
  owner,     \* per process, the LockFileOwner its registry has a weak_ptr to
  pc,        \* what each thread is doing
  my,        \* the LockFileOwner a thread constructs or destroys
  unsound,   \* history: processes that have, or are about to have, a lock the kernel does not hold
  replaced   \* history: the creator of a lock file removed it while it was open elsewhere

history == <<unsound, replaced>>
vars == <<path, lock, registry, owner, pc, my, history>>

\* m_fd and m_lockfile_existed.
NoOwner == [inode |-> NoInode, existed |-> FALSE]

\* The owner that is alive, with the threads that share it.
Dead == [inode |-> NoInode, existed |-> FALSE, users |-> {}]

Process(t) == ProcessOf[t]

Init ==
  /\ IF Preexisting THEN path \in Inodes ELSE path = NoInode
  /\ lock = [i \in Inodes |-> NoProcess]
  /\ registry = [p \in Processes |-> NoThread]
  /\ owner = [p \in Processes |-> Dead]
  /\ pc = [t \in Threads |-> "idle"]
  /\ my = [t \in Threads |-> NoOwner]
  /\ unsound = {} /\ replaced = FALSE

\* Inodes nothing refers to: the next file created may get any of them.
InUse == {path} \union {owner[p].inode : p \in Processes} \union {my[t].inode : t \in Threads}

-----------------------------------------------------------------------------
(***************************************************************************)
(* LockFile::LockFile().                                                   *)
(***************************************************************************)

\* acquire_lock() finds an owner that is alive.
Share(t) ==
  /\ pc[t] = "idle" /\ registry[Process(t)] = NoThread
  /\ owner[Process(t)].users # {}
  /\ owner' = [owner EXCEPT ![Process(t)].users = @ \union {t}]
  /\ pc' = [pc EXCEPT ![t] = "holding"]
  /\ UNCHANGED <<path, lock, registry, my, history>>

\* Otherwise it makes one, and keeps the mutex until that is done.
Begin(t) ==
  /\ pc[t] = "idle" /\ registry[Process(t)] = NoThread
  /\ owner[Process(t)].users = {}
  /\ registry' = [registry EXCEPT ![Process(t)] = t]
  /\ pc' = [pc EXCEPT ![t] = "looking"]
  /\ unsound' = unsound \ {Process(t)}
  /\ UNCHANGED <<path, lock, owner, my, replaced>>

CheckExisted(t) ==
  /\ pc[t] = "looking"
  /\ my' = [my EXCEPT ![t].existed = path # NoInode]
  /\ pc' = [pc EXCEPT ![t] = "opening"]
  /\ UNCHANGED <<path, lock, registry, owner, history>>

\* open() with O_CREAT.
Open(t) ==
  /\ pc[t] = "opening"
  /\ path' \in IF path # NoInode THEN {path} ELSE Inodes \ InUse
  /\ my' = [my EXCEPT ![t].inode = path']
  /\ pc' = [pc EXCEPT ![t] = "locking"]
  /\ UNCHANGED <<lock, registry, owner, history>>

\* The kernel lets a process have a lock it has already.
Available(t) == lock[my[t].inode] \in {NoProcess, Process(t)}

\* The owner enters the registry.
Holds(t) ==
  /\ owner' = [owner EXCEPT ![Process(t)] =
                 [inode |-> my[t].inode, existed |-> my[t].existed, users |-> {t}]]
  /\ my' = [my EXCEPT ![t] = NoOwner]
  /\ registry' = [registry EXCEPT ![Process(t)] = NoThread]
  /\ pc' = [pc EXCEPT ![t] = "holding"]

\* lock_non_blocking(), then lock_blocking().
TryLock(t) ==
  /\ pc[t] = "locking"
  /\ IF Available(t)
     THEN /\ lock' = [lock EXCEPT ![my[t].inode] = Process(t)]
          /\ Holds(t)
     ELSE /\ pc' = [pc EXCEPT ![t] = "waiting"]
          /\ UNCHANGED <<lock, registry, owner, my>>
  /\ UNCHANGED <<path, history>>

\* fcntl(F_SETLKW) returns; with a timeout it runs in a helper thread.
Granted(t) ==
  /\ pc[t] = "waiting" /\ Available(t)
  /\ lock' = [lock EXCEPT ![my[t].inode] = Process(t)]
  /\ pc' = [pc EXCEPT ![t] = "granted"]
  /\ UNCHANGED <<path, registry, owner, my, history>>

\* Mutant: a timeout is taken for a lock.
NoticeTimeout(t) ==
  /\ pc[t] \in {"granted", "waiting"}
  /\ Holds(t)
  /\ UNCHANGED <<path, lock, history>>

Notice(t) ==
  /\ pc[t] = "granted"
  /\ Holds(t)
  /\ UNCHANGED <<path, lock, history>>

\* Mutant: the wait is not cancelled when the timeout elapses.
GiveUpGranted(t) ==
  /\ Timeout /\ pc[t] = "granted"
  /\ pc' = [pc EXCEPT ![t] = "closing"]
  /\ UNCHANGED <<path, lock, registry, owner, my, history>>

\* The timeout elapses; the lock may have been granted meanwhile.
GiveUp(t) ==
  /\ Timeout /\ pc[t] \in {"waiting", "granted"}
  /\ pc' = [pc EXCEPT ![t] = "closing"]
  /\ UNCHANGED <<path, lock, registry, owner, my, history>>

\* wait_for() without a condition: after a spurious wakeup ret was not assigned
\* and may hold 0.
WakeUp(t) ==
  /\ SpuriousWakeups /\ Timeout /\ pc[t] = "waiting"
  /\ \/ Holds(t) /\ unsound' = unsound \union {Process(t)}
     \/ pc' = [pc EXCEPT ![t] = "closing"] /\ UNCHANGED <<registry, owner, my, unsound>>
  /\ UNCHANGED <<path, lock, replaced>>

-----------------------------------------------------------------------------
(***************************************************************************)
(* LockFile::~LockFile().                                                  *)
(***************************************************************************)

\* The last user destroys the owner, outside of the registry's mutex.
Release(t) ==
  /\ pc[t] = "holding"
  /\ IF owner[Process(t)].users = {t}
     THEN /\ owner' = [owner EXCEPT ![Process(t)] = Dead]
          /\ my' = [my EXCEPT ![t] = [inode |-> owner[Process(t)].inode,
                                      existed |-> owner[Process(t)].existed]]
          /\ pc' = [pc EXCEPT ![t] = "closing"]
     ELSE /\ owner' = [owner EXCEPT ![Process(t)].users = @ \ {t}]
          /\ pc' = [pc EXCEPT ![t] = "idle"]
          /\ UNCHANGED my
  /\ UNCHANGED <<path, lock, registry, history>>

\* The process has another descriptor of the file, and counts on its lock.
SharedInode(t) ==
  \/ owner[Process(t)].users # {} /\ owner[Process(t)].inode = my[t].inode
  \/ \E u \in Threads \ {t} :
       Process(u) = Process(t) /\ pc[u] = "granted" /\ my[u].inode = my[t].inode

\* close_fd() drops the record locks the process has on the file.
Close(t) ==
  /\ pc[t] = "closing"
  /\ lock' = [i \in Inodes |-> IF i = my[t].inode /\ lock[i] = Process(t)
                               THEN NoProcess ELSE lock[i]]
  /\ my' = [my EXCEPT ![t].inode = NoInode]
  /\ pc' = [pc EXCEPT ![t] = "removing"]
  /\ unsound' = IF SharedInode(t) THEN unsound \union {Process(t)} ELSE unsound
  /\ UNCHANGED <<path, registry, owner, replaced>>

\* What a thread does next: a constructor that failed lets the mutex go, and
\* its caller carries on without the lock.
AfterRemoval(t) ==
  /\ pc' = [pc EXCEPT ![t] = IF registry[Process(t)] = t THEN "unlocked" ELSE "idle"]
  /\ registry' = [registry EXCEPT ![Process(t)] = IF @ = t THEN NoThread ELSE @]
  /\ my' = [my EXCEPT ![t] = NoOwner]
  /\ UNCHANGED <<lock, owner, unsound>>

\* The file that has the name now is open in another thread or by an owner.
OpenElsewhere(t) ==
  /\ path # NoInode
  /\ \/ \E p \in Processes : owner[p].users # {} /\ owner[p].inode = path
     \/ \E u \in Threads \ {t} : my[u].inode = path

\* Mutant: the file is always removed.
RemoveAlways(t) ==
  /\ pc[t] = "removing"
  /\ path' = NoInode
  /\ replaced' = (replaced \/ (~my[t].existed /\ OpenElsewhere(t)))
  /\ AfterRemoval(t)

\* remove_lockfile() removes whatever file has the name now.
Remove(t) ==
  /\ pc[t] = "removing"
  /\ path' = IF my[t].existed THEN path ELSE NoInode
  /\ replaced' = (replaced \/ (~my[t].existed /\ OpenElsewhere(t)))
  /\ AfterRemoval(t)

WorkUnlocked(t) ==
  /\ pc[t] = "unlocked"
  /\ pc' = [pc EXCEPT ![t] = "idle"]
  /\ UNCHANGED <<path, lock, registry, owner, my, history>>

-----------------------------------------------------------------------------
\* A process dies and another one starts in its place; the file stays.
Kill(p) ==
  /\ lock' = [i \in Inodes |-> IF lock[i] = p THEN NoProcess ELSE lock[i]]
  /\ registry' = [registry EXCEPT ![p] = NoThread]
  /\ owner' = [owner EXCEPT ![p] = Dead]
  /\ pc' = [t \in Threads |-> IF Process(t) = p THEN "idle" ELSE pc[t]]
  /\ my' = [t \in Threads |-> IF Process(t) = p THEN NoOwner ELSE my[t]]
  /\ unsound' = unsound \ {p}
  /\ UNCHANGED <<path, replaced>>

Construct(t) ==
  \/ CheckExisted(t) \/ Open(t) \/ TryLock(t) \/ Notice(t) \/ GiveUp(t)
Destroy(t) == Close(t) \/ Remove(t) \/ WorkUnlocked(t)

Next ==
  \/ \E t \in Threads :
       \/ Share(t) \/ Begin(t) \/ Construct(t) \/ Granted(t) \/ WakeUp(t)
       \/ Release(t) \/ Destroy(t)
  \/ \E p \in Processes : Kill(p)

Spec == Init /\ [][Next]_vars

\* Threads keep running, and the kernel serves the processes that wait in turn.
RunningSpec ==
  Spec /\ \A t \in Threads :
    WF_vars(Construct(t)) /\ WF_vars(Destroy(t)) /\ SF_vars(Granted(t))

\* Locks are moreover released in the end.
FairSpec == RunningSpec /\ \A t \in Threads : WF_vars(Release(t))

-----------------------------------------------------------------------------
(***************************************************************************)
(* Correctness.                                                            *)
(***************************************************************************)

OwnerType == [inode : Inodes \union {NoInode}, existed : BOOLEAN]
LiveType == [inode : Inodes \union {NoInode}, existed : BOOLEAN, users : SUBSET Threads]
PcType == {"idle", "looking", "opening", "locking", "waiting", "granted", "holding",
           "closing", "removing", "unlocked"}

\* Every variable of the lock keeps its type.
TypeOK ==
  /\ path \in Inodes \union {NoInode}
  /\ lock \in [Inodes -> Processes \union {NoProcess}]
  /\ registry \in [Processes -> Threads \union {NoThread}]
  /\ owner \in [Processes -> LiveType]
  /\ pc \in [Threads -> PcType]
  /\ my \in [Threads -> OwnerType]
  /\ unsound \in SUBSET Processes /\ replaced \in BOOLEAN

Locks(p) == owner[p].users # {}

\* Two processes never have the lock of the path at the same time.  It does
\* not hold: the next properties say what it takes to break it.
MutualExclusion == \A p, q \in Processes : Locks(p) /\ Locks(q) => p = q

\* A process that is told it has the lock has the kernel's lock on its file,
\* unless a spurious wakeup was taken for it or the process itself closed
\* another descriptor of the file since.
HeldLockIsReal == \A p \in Processes \ unsound : Locks(p) => lock[owner[p].inode] = p

\* Two processes have the lock at the same time only once a process that had
\* found no lock file has removed one that was open elsewhere, whoever
\* created, waited for, shared, timed out on or died with the file before.
ExclusiveUntilReplaced ==
  ~replaced => \A p, q \in Processes \ unsound : Locks(p) /\ Locks(q) => p = q

\* The lock is released only once no instance of the process is alive.  It
\* does not hold when threads share the path: a dying owner's descriptor may
\* be closed after another thread of the process locked anew.
SharedLockKept ==
  [][\A p \in Processes :
       Locks(p) /\ owner'[p].users # {} /\ lock[owner[p].inode] = p
         => lock'[owner[p].inode] = p]_vars

\* A lock file that was there before is never taken away or replaced.
FileKept == [][Preexisting => path' = path]_vars

\* Whoever asks for the lock gets it, or an error when there is a timeout.
Asking(t) == pc[t] \in {"looking", "opening", "locking", "waiting", "granted"}
Served == \A t \in Threads : Asking(t) ~> ~Asking(t)

\* LockFile implements the lock its users count on, for the owners that have
\* the kernel's lock on the file the name stands for: they lose it when the
\* name or the kernel's lock is taken from them.
Users(p) == IF p \in unsound \/ owner[p].inode # path THEN {} ELSE owner[p].users
Lock == INSTANCE ProcessLock WITH users <- [p \in Processes |-> Users(p)]
LockSpec == Lock!Spec
=============================================================================
