--------------------------- MODULE LockFileProofs ----------------------------
(***************************************************************************)
(* LockFile for any number of processes and threads, whatever they do: the *)
(* lock file may come and go, processes may die, the lock may be shared,   *)
(* waits may time out and wake up spuriously.  Nothing is assumed; the     *)
(* properties themselves name the two ways in which the lock fails.        *)
(***************************************************************************)
EXTENDS LockFile, TLAPS

Making == {"looking", "opening", "locking", "waiting", "granted"}
Opened == {"locking", "waiting", "granted", "closing"}

\* Whoever makes an owner has the registry, which knows of no other owner.
MakerInv ==
  \A t \in Threads :
    pc[t] \in Making => registry[Process(t)] = t /\ owner[Process(t)].users = {}

\* Who has opened the file has an inode.
InodeInv ==
  /\ \A t \in Threads : pc[t] \in Opened => my[t].inode \in Inodes
  /\ \A p \in Processes : Locks(p) => owner[p].inode \in Inodes

\* The locks of processes that are not known to be unsound are the kernel's,
\* those granted to a thread that has not noticed yet included.
SoundInv ==
  /\ \A p \in Processes \ unsound : Locks(p) => lock[owner[p].inode] = p
  /\ \A t \in Threads :
       pc[t] = "granted" /\ Process(t) \notin unsound => lock[my[t].inode] = Process(t)

\* As long as no open file was removed, every open file has the name.
NameInv ==
  ~replaced =>
    /\ \A p \in Processes : Locks(p) => owner[p].inode = path
    /\ \A t \in Threads : my[t].inode # NoInode => my[t].inode = path

\* A file that was there before is known to have been by all who open it.
KeptInv ==
  Preexisting =>
    /\ path \in Inodes
    /\ \A t \in Threads :
         pc[t] \in Opened \union {"opening", "removing"} => my[t].existed
    /\ \A p \in Processes : Locks(p) => owner[p].existed

IInv == TypeOK /\ MakerInv /\ InodeInv /\ SoundInv /\ NameInv /\ KeptInv

-----------------------------------------------------------------------------
LEMMA InitialInvariant == Init => IInv
<1> SUFFICES ASSUME Init PROVE IInv
  OBVIOUS
<1>1. TypeOK
  <2>1. path \in Inodes \union {NoInode}
    BY DEF Init
  <2> QED
    BY <2>1 DEF Init, TypeOK, Dead, NoOwner, OwnerType, LiveType, PcType
<1>2. /\ \A t \in Threads : pc[t] = "idle" /\ my[t].inode = NoInode
      /\ \A p \in Processes : ~Locks(p)
  BY DEF Init, NoOwner, Locks, Dead
<1>3. MakerInv /\ InodeInv /\ SoundInv /\ NameInv
  BY <1>2 DEF MakerInv, InodeInv, SoundInv, NameInv, Making, Opened
<1>4. KeptInv
  BY <1>2, LockFileAssumption DEF KeptInv, Opened, Init
<1> QED
  BY <1>1, <1>3, <1>4 DEF IInv

\* Updates of one field keep the type of a record.
LEMMA Records ==
  /\ NoOwner \in OwnerType /\ Dead \in LiveType
  /\ \A o \in OwnerType, i \in Inodes \union {NoInode}, b \in BOOLEAN :
       [o EXCEPT !.inode = i] \in OwnerType /\ [o EXCEPT !.existed = b] \in OwnerType
  /\ \A l \in LiveType, u \in SUBSET Threads : [l EXCEPT !.users = u] \in LiveType
  /\ \A i \in Inodes \union {NoInode}, b \in BOOLEAN, u \in SUBSET Threads :
       /\ [inode |-> i, existed |-> b] \in OwnerType
       /\ [inode |-> i, existed |-> b, users |-> u] \in LiveType
  /\ \A o \in OwnerType : o.inode \in Inodes \union {NoInode} /\ o.existed \in BOOLEAN
  /\ \A l \in LiveType : /\ l.inode \in Inodes \union {NoInode} /\ l.existed \in BOOLEAN
                         /\ l.users \in SUBSET Threads
  BY DEF OwnerType, LiveType, NoOwner, Dead

-----------------------------------------------------------------------------
(***************************************************************************)
(* What each action does to the fields the invariants speak of.            *)
(***************************************************************************)
\* A thread keeps waiting or gives up; or it gets the lock, or thinks so.
Waits(t) == (TryLock(t) /\ ~Available(t)) \/ Granted(t) \/ GiveUp(t) \/ (WakeUp(t) /\ ~Holds(t))
GetsLock(t) == (TryLock(t) /\ Available(t)) \/ Notice(t) \/ (WakeUp(t) /\ Holds(t))

OnlyThread(t) == \A u \in Threads : u # t => pc'[u] = pc[u] /\ my'[u] = my[u]
OnlyProcess(p) == \A q \in Processes : q # p => owner'[q] = owner[q] /\ registry'[q] = registry[q]

LEMMA UsersEffect ==
  ASSUME TypeOK, NEW p \in Processes, NEW u,
         owner' = [owner EXCEPT ![p].users = u]
  PROVE  /\ owner'[p].users = u /\ owner'[p].inode = owner[p].inode
         /\ owner'[p].existed = owner[p].existed
         /\ \A q \in Processes : q # p => owner'[q] = owner[q]
<1>1. owner \in [Processes -> LiveType]
  BY DEF TypeOK
<1> QED
  BY <1>1 DEF LiveType

LEMMA ShareEffect ==
  ASSUME TypeOK, NEW t \in Threads, Share(t)
  PROVE  /\ pc[t] = "idle" /\ pc'[t] = "holding" /\ registry[Process(t)] = NoThread
         /\ Locks(Process(t)) /\ owner'[Process(t)].inode = owner[Process(t)].inode
         /\ owner'[Process(t)].existed = owner[Process(t)].existed
         /\ owner'[Process(t)].users = owner[Process(t)].users \union {t}
         /\ OnlyThread(t) /\ OnlyProcess(Process(t))
         /\ UNCHANGED <<path, lock, registry, my, history>>
<1> USE LockFileAssumption DEF Process
<1>1. /\ owner'[Process(t)].users = owner[Process(t)].users \union {t}
      /\ owner'[Process(t)].inode = owner[Process(t)].inode
      /\ owner'[Process(t)].existed = owner[Process(t)].existed
      /\ \A q \in Processes : q # Process(t) => owner'[q] = owner[q]
  BY UsersEffect DEF Share
<1>2. OnlyThread(t) /\ pc'[t] = "holding"
  BY DEF Share, TypeOK, OnlyThread
<1> QED
  BY <1>1, <1>2 DEF Share, Locks, OnlyProcess

LEMMA BeginEffect ==
  ASSUME TypeOK, NEW t \in Threads, Begin(t)
  PROVE  /\ pc[t] = "idle" /\ pc'[t] = "looking" /\ registry[Process(t)] = NoThread
         /\ owner[Process(t)].users = {} /\ registry'[Process(t)] = t
         /\ OnlyThread(t) /\ OnlyProcess(Process(t)) /\ unsound' = unsound \ {Process(t)}
         /\ UNCHANGED <<path, lock, owner, my, replaced>>
  BY LockFileAssumption DEF Begin, TypeOK, Process, OnlyThread, OnlyProcess

LEMMA CheckEffect ==
  ASSUME TypeOK, NEW t \in Threads, CheckExisted(t)
  PROVE  /\ pc[t] = "looking" /\ pc'[t] = "opening"
         /\ my'[t].existed = (path # NoInode) /\ my'[t].inode = my[t].inode
         /\ OnlyThread(t) /\ UNCHANGED <<path, lock, registry, owner, history>>
<1>1. my'[t].existed = (path # NoInode) /\ my'[t].inode = my[t].inode
  BY DEF CheckExisted, TypeOK, OwnerType
<1> QED
  BY <1>1 DEF CheckExisted, TypeOK, OnlyThread

LEMMA OpenEffect ==
  ASSUME TypeOK, NEW t \in Threads, Open(t)
  PROVE  /\ pc[t] = "opening" /\ pc'[t] = "locking"
         /\ my'[t].inode = path' /\ my'[t].existed = my[t].existed
         /\ \/ path' = path /\ path \in Inodes
            \/ /\ path = NoInode /\ path' \in Inodes
               /\ \A q \in Processes : owner[q].inode # path'
         /\ OnlyThread(t) /\ UNCHANGED <<lock, registry, owner, history>>
<1>1. my'[t].inode = path' /\ my'[t].existed = my[t].existed
  BY DEF Open, TypeOK, OwnerType
<1>2. \/ path' = path /\ path \in Inodes
      \/ path = NoInode /\ path' \in Inodes \ InUse
  BY DEF Open, TypeOK
<1> QED
  BY <1>1, <1>2 DEF Open, TypeOK, OnlyThread, InUse

HoldsEffect(t) ==
  /\ owner'[Process(t)].inode = my[t].inode /\ owner'[Process(t)].existed = my[t].existed
  /\ owner'[Process(t)].users = {t} /\ registry'[Process(t)] = NoThread
  /\ pc'[t] = "holding" /\ my'[t] = NoOwner
  /\ OnlyThread(t) /\ OnlyProcess(Process(t))

LEMMA HoldsMoves ==
  ASSUME TypeOK, NEW t \in Threads, Holds(t)
  PROVE  HoldsEffect(t)
  BY LockFileAssumption DEF Holds, HoldsEffect, TypeOK, Process, OnlyThread, OnlyProcess

\* A thread that locks or waits goes on without touching its process's owner.
LEMMA WaitEffect ==
  ASSUME TypeOK, NEW t \in Threads, Waits(t)
  PROVE  /\ pc[t] \in {"locking", "waiting", "granted"}
         /\ pc'[t] \in {"waiting", "granted", "closing"} /\ OnlyThread(t)
         /\ UNCHANGED <<path, registry, owner, my, history>>
         /\ \/ lock' = lock /\ pc'[t] # "granted"
            \/ /\ Granted(t) /\ pc[t] = "waiting" /\ Available(t)
               /\ lock' = [lock EXCEPT ![my[t].inode] = Process(t)]
  BY DEF Waits, TryLock, Granted, GiveUp, WakeUp, TypeOK, OnlyThread, history

\* A thread that gets the lock makes its owner known.
LEMMA LockEffect ==
  ASSUME TypeOK, NEW t \in Threads, GetsLock(t)
  PROVE  /\ pc[t] \in {"locking", "waiting", "granted"} /\ HoldsEffect(t)
         /\ UNCHANGED <<path, replaced>>
         /\ \/ /\ pc[t] = "locking" /\ Available(t) /\ UNCHANGED unsound
               /\ lock' = [lock EXCEPT ![my[t].inode] = Process(t)]
            \/ pc[t] = "granted" /\ UNCHANGED <<lock, unsound>>
            \/ unsound' = unsound \union {Process(t)} /\ UNCHANGED lock
<1>1. Holds(t)
  BY DEF GetsLock, TryLock, Notice
<1>2. HoldsEffect(t)
  BY <1>1, HoldsMoves
<1>3. pc'[t] = "holding"
  BY <1>2 DEF HoldsEffect
<1> QED
  BY <1>2, <1>3 DEF GetsLock, TryLock, Notice, WakeUp, history, TypeOK

LEMMA ReleaseEffect ==
  ASSUME TypeOK, NEW t \in Threads, Release(t)
  PROVE  /\ pc[t] = "holding" /\ OnlyThread(t) /\ OnlyProcess(Process(t))
         /\ owner'[Process(t)].users = owner[Process(t)].users \ {t}
         /\ UNCHANGED <<path, lock, registry, history>>
         /\ \/ /\ owner[Process(t)].users = {t} /\ pc'[t] = "closing"
               /\ my'[t].inode = owner[Process(t)].inode
               /\ my'[t].existed = owner[Process(t)].existed
            \/ /\ pc'[t] = "idle" /\ my' = my
               /\ owner'[Process(t)].inode = owner[Process(t)].inode
               /\ owner'[Process(t)].existed = owner[Process(t)].existed
<1> USE LockFileAssumption DEF Process
<1>1. CASE owner[Process(t)].users = {t}
  <2>1. owner'[Process(t)] = Dead /\ OnlyProcess(Process(t))
    <3>1. /\ owner' = [owner EXCEPT ![Process(t)] = Dead] /\ UNCHANGED registry
          /\ Process(t) \in Processes
      BY <1>1 DEF Release
    <3>2. owner \in [Processes -> LiveType]
      BY DEF TypeOK
    <3> QED
      BY <3>1, <3>2 DEF OnlyProcess
  <2>2. /\ my'[t] = [inode |-> owner[Process(t)].inode, existed |-> owner[Process(t)].existed]
        /\ pc'[t] = "closing" /\ OnlyThread(t)
    BY <1>1 DEF Release, TypeOK, OnlyThread
  <2> QED
    BY <1>1, <2>1, <2>2 DEF Release, Dead
<1>2. CASE owner[Process(t)].users # {t}
  <2>1. /\ owner'[Process(t)].users = owner[Process(t)].users \ {t}
        /\ owner'[Process(t)].inode = owner[Process(t)].inode
        /\ owner'[Process(t)].existed = owner[Process(t)].existed
    BY <1>2, UsersEffect DEF Release
  <2>2. OnlyProcess(Process(t)) /\ OnlyThread(t) /\ pc'[t] = "idle" /\ my' = my
    BY <1>2 DEF Release, TypeOK, OnlyProcess, OnlyThread
  <2> QED
    BY <2>1, <2>2 DEF Release
<1> QED
  BY <1>1, <1>2

LEMMA CloseEffect ==
  ASSUME TypeOK, NEW t \in Threads, Close(t)
  PROVE  /\ pc[t] = "closing" /\ pc'[t] = "removing" /\ OnlyThread(t)
         /\ my'[t].inode = NoInode /\ my'[t].existed = my[t].existed
         /\ UNCHANGED <<path, registry, owner, replaced>>
         /\ unsound' = IF SharedInode(t) THEN unsound \union {Process(t)} ELSE unsound
         /\ \A i \in Inodes : lock'[i] = IF i = my[t].inode /\ lock[i] = Process(t)
                                        THEN NoProcess ELSE lock[i]
<1>1. my'[t].inode = NoInode /\ my'[t].existed = my[t].existed
  BY DEF Close, TypeOK, OwnerType
<1> QED
  BY <1>1 DEF Close, TypeOK, OnlyThread

LEMMA WorkEffect ==
  ASSUME TypeOK, NEW t \in Threads, WorkUnlocked(t)
  PROVE  /\ pc[t] = "unlocked" /\ pc'[t] = "idle" /\ OnlyThread(t)
         /\ UNCHANGED <<path, lock, registry, owner, my, history>>
  BY DEF WorkUnlocked, TypeOK, OnlyThread

LEMMA RemoveEffect ==
  ASSUME TypeOK, NEW t \in Threads, Remove(t)
  PROVE  /\ pc[t] = "removing" /\ pc'[t] \in {"idle", "unlocked"} /\ OnlyThread(t)
         /\ path' = (IF my[t].existed THEN path ELSE NoInode) /\ my'[t] = NoOwner
         /\ replaced' = (replaced \/ (~my[t].existed /\ OpenElsewhere(t)))
         /\ \A p \in Processes : registry[p] # t => registry'[p] = registry[p]
         /\ UNCHANGED <<lock, owner, unsound>>
  BY LockFileAssumption DEF Remove, AfterRemoval, TypeOK, OnlyThread, Process

LEMMA KillEffect ==
  ASSUME TypeOK, NEW p \in Processes, Kill(p)
  PROVE  /\ owner'[p].users = {} /\ OnlyProcess(p)
         /\ \A t \in Threads : IF Process(t) = p THEN pc'[t] = "idle" /\ my'[t] = NoOwner
                                               ELSE pc'[t] = pc[t] /\ my'[t] = my[t]
         /\ \A i \in Inodes : lock[i] # p => lock'[i] = lock[i]
         /\ unsound' = unsound \ {p} /\ UNCHANGED <<path, replaced>>
  BY DEF Kill, TypeOK, OnlyProcess, Dead

\* The steps, sorted by what they do to owners and locks.
LEMMA Cases ==
  ASSUME Next
  PROVE  \/ \E t \in Threads :
              \/ Share(t) \/ Begin(t) \/ CheckExisted(t) \/ Open(t) \/ Waits(t) \/ GetsLock(t)
              \/ Release(t) \/ Close(t) \/ Remove(t) \/ WorkUnlocked(t)
         \/ \E p \in Processes : Kill(p)
  BY DEF Next, Construct, Destroy, Waits, GetsLock

-----------------------------------------------------------------------------
(***************************************************************************)
(* Each part of the invariant is kept by every step.                       *)
(***************************************************************************)
LEMMA TypeStep ==
  ASSUME TypeOK, Next
  PROVE  TypeOK'
<1> USE LockFileAssumption DEF TypeOK, Process, history
<1>2. ASSUME NEW t \in Threads, Share(t) PROVE TypeOK'
  <2>1. [owner[Process(t)] EXCEPT !.users = @ \union {t}] \in LiveType
    BY Records
  <2> QED
    BY <1>2, <2>1 DEF Share, PcType
<1>3. ASSUME NEW t \in Threads, Begin(t) PROVE TypeOK'
  BY <1>3 DEF Begin, PcType
<1>4. ASSUME NEW t \in Threads, CheckExisted(t) PROVE TypeOK'
  <2>1. [my[t] EXCEPT !.existed = path # NoInode] \in OwnerType
    BY Records
  <2> QED
    BY <1>4, <2>1 DEF CheckExisted, PcType
<1>5. ASSUME NEW t \in Threads, Open(t) PROVE TypeOK'
  <2>1. path' \in Inodes \union {NoInode}
    BY <1>5 DEF Open
  <2>2. [my[t] EXCEPT !.inode = path'] \in OwnerType
    BY <2>1, Records
  <2> QED
    BY <1>5, <2>1, <2>2 DEF Open, PcType
<1>6. ASSUME NEW t \in Threads, Holds(t)
      PROVE  /\ owner' \in [Processes -> LiveType] /\ my' \in [Threads -> OwnerType]
             /\ registry' \in [Processes -> Threads \union {NoThread}]
             /\ pc' \in [Threads -> PcType]
  <2>1. [inode |-> my[t].inode, existed |-> my[t].existed, users |-> {t}] \in LiveType
    BY Records
  <2> QED
    BY <1>6, <2>1, Records DEF Holds, PcType
<1>7. ASSUME NEW t \in Threads, TryLock(t) PROVE TypeOK'
  <2>1. CASE Available(t)
    BY <1>6, <1>7, <2>1 DEF TryLock
  <2>2. CASE ~Available(t)
    BY <1>7, <2>2 DEF TryLock, PcType
  <2> QED
    BY <2>1, <2>2
<1>8. ASSUME NEW t \in Threads, Granted(t) \/ GiveUp(t) PROVE TypeOK'
  BY <1>8 DEF Granted, GiveUp, PcType
<1>9. ASSUME NEW t \in Threads, Notice(t) PROVE TypeOK'
  BY <1>6, <1>9 DEF Notice
<1>10. ASSUME NEW t \in Threads, Release(t) PROVE TypeOK'
  <2>1. [owner[Process(t)] EXCEPT !.users = @ \ {t}] \in LiveType
    BY Records
  <2>2. [inode |-> owner[Process(t)].inode, existed |-> owner[Process(t)].existed] \in OwnerType
    BY Records
  <2>3. owner' \in [Processes -> LiveType]
    <3>1. /\ Process(t) \in Processes /\ Dead \in LiveType
          /\ \/ owner' = [owner EXCEPT ![Process(t)] = Dead]
             \/ owner' = [owner EXCEPT ![Process(t)].users = @ \ {t}]
      BY <1>10, Records DEF Release
    <3> QED
      BY <2>1, <3>1
  <2>4. my' \in [Threads -> OwnerType]
    BY <1>10, <2>2 DEF Release
  <2>5. pc' \in [Threads -> PcType]
    BY <1>10 DEF Release, PcType
  <2> QED
    BY <1>10, <2>3, <2>4, <2>5 DEF Release
<1>11. ASSUME NEW t \in Threads, Close(t) PROVE TypeOK'
  <2>1. [my[t] EXCEPT !.inode = NoInode] \in OwnerType
    BY Records
  <2>2. lock' \in [Inodes -> Processes \union {NoProcess}]
    BY <1>11 DEF Close
  <2> QED
    <3>1. my' \in [Threads -> OwnerType]
      BY <1>11, <2>1 DEF Close
    <3>2. pc' \in [Threads -> PcType]
      BY <1>11 DEF Close, PcType
    <3> QED
      BY <1>11, <2>2, <3>1, <3>2 DEF Close
<1>12. ASSUME NEW t \in Threads, Remove(t) \/ WorkUnlocked(t) PROVE TypeOK'
  <2>1. CASE Remove(t)
    <3>1. my' \in [Threads -> OwnerType] /\ path' \in Inodes \union {NoInode}
      BY <2>1, Records DEF Remove, AfterRemoval
    <3>2. pc' \in [Threads -> PcType]
      BY <2>1 DEF Remove, AfterRemoval, PcType
    <3>3. registry' \in [Processes -> Threads \union {NoThread}]
      BY <2>1 DEF Remove, AfterRemoval
    <3> QED
      BY <2>1, <3>1, <3>2, <3>3 DEF Remove, AfterRemoval
  <2>2. CASE WorkUnlocked(t)
    BY <2>2 DEF WorkUnlocked, PcType
  <2> QED
    BY <1>12, <2>1, <2>2
<1>13. ASSUME NEW p \in Processes, Kill(p) PROVE TypeOK'
  <2>1. lock' \in [Inodes -> Processes \union {NoProcess}]
    BY <1>13 DEF Kill
  <2>2. pc' \in [Threads -> PcType] /\ my' \in [Threads -> OwnerType]
    BY <1>13, Records DEF Kill, PcType
  <2> QED
    BY <1>13, <2>1, <2>2, Records DEF Kill
<1>14. ASSUME NEW t \in Threads, WakeUp(t) PROVE TypeOK'
  <2>1. CASE Holds(t)
    BY <1>6, <1>14, <2>1 DEF WakeUp
  <2>2. CASE ~Holds(t)
    BY <1>14, <2>2 DEF WakeUp, PcType
  <2> QED
    BY <2>1, <2>2
<1> QED
  BY <1>2, <1>3, <1>4, <1>5, <1>7, <1>8, <1>9, <1>10, <1>11, <1>12, <1>13, <1>14
  DEF Next, Construct, Destroy

\* A maker keeps the registry until it is done.
LEMMA MakerStep ==
  ASSUME TypeOK, MakerInv, Next
  PROVE  MakerInv'
<1> USE DEF MakerInv, Making, OnlyThread, OnlyProcess, Locks, HoldsEffect
<1>0. \A t \in Threads : Process(t) \in Processes
  BY LockFileAssumption DEF Process
<1>1. ASSUME NEW t \in Threads, Share(t) PROVE MakerInv'
  BY <1>0, <1>1, ShareEffect, LockFileAssumption
<1>2. ASSUME NEW t \in Threads, Begin(t) PROVE MakerInv'
  BY <1>0, <1>2, BeginEffect, LockFileAssumption
<1>3. ASSUME NEW t \in Threads, CheckExisted(t) PROVE MakerInv'
  BY <1>0, <1>3, CheckEffect
<1>4. ASSUME NEW t \in Threads, Open(t) PROVE MakerInv'
  BY <1>0, <1>4, OpenEffect
<1>5. ASSUME NEW t \in Threads, Waits(t) PROVE MakerInv'
  BY <1>0, <1>5, WaitEffect
<1>6. ASSUME NEW t \in Threads, GetsLock(t) PROVE MakerInv'
  BY <1>0, <1>6, LockEffect
<1>7. ASSUME NEW t \in Threads, Release(t) PROVE MakerInv'
  BY <1>0, <1>7, ReleaseEffect
<1>8. ASSUME NEW t \in Threads, Close(t) PROVE MakerInv'
  BY <1>0, <1>8, CloseEffect
<1>9. ASSUME NEW t \in Threads, Remove(t) PROVE MakerInv'
  BY <1>0, <1>9, RemoveEffect
<1>10. ASSUME NEW t \in Threads, WorkUnlocked(t) PROVE MakerInv'
  BY <1>0, <1>10, WorkEffect
<1>11. ASSUME NEW p \in Processes, Kill(p) PROVE MakerInv'
  BY <1>0, <1>11, KillEffect
<1> QED
  BY <1>1, <1>2, <1>3, <1>4, <1>5, <1>6, <1>7, <1>8, <1>9, <1>10, <1>11, Cases

\* An inode stays with whoever opened it.
LEMMA InodeStep ==
  ASSUME TypeOK, InodeInv, Next
  PROVE  InodeInv'
<1> USE DEF InodeInv, Opened, OnlyThread, OnlyProcess, Locks, HoldsEffect
<1>0. \A t \in Threads : Process(t) \in Processes
  BY LockFileAssumption DEF Process
<1>1. ASSUME NEW t \in Threads, Share(t) PROVE InodeInv'
  BY <1>0, <1>1, ShareEffect
<1>2. ASSUME NEW t \in Threads, Begin(t) PROVE InodeInv'
  BY <1>0, <1>2, BeginEffect
<1>3. ASSUME NEW t \in Threads, CheckExisted(t) PROVE InodeInv'
  BY <1>0, <1>3, CheckEffect
<1>4. ASSUME NEW t \in Threads, Open(t) PROVE InodeInv'
  BY <1>0, <1>4, OpenEffect
<1>5. ASSUME NEW t \in Threads, Waits(t) PROVE InodeInv'
  BY <1>0, <1>5, WaitEffect
<1>6. ASSUME NEW t \in Threads, GetsLock(t) PROVE InodeInv'
  BY <1>0, <1>6, LockEffect
<1>7. ASSUME NEW t \in Threads, Release(t) PROVE InodeInv'
  BY <1>0, <1>7, ReleaseEffect
<1>8. ASSUME NEW t \in Threads, Close(t) PROVE InodeInv'
  BY <1>0, <1>8, CloseEffect
<1>9. ASSUME NEW t \in Threads, Remove(t) PROVE InodeInv'
  BY <1>0, <1>9, RemoveEffect
<1>10. ASSUME NEW t \in Threads, WorkUnlocked(t) PROVE InodeInv'
  BY <1>0, <1>10, WorkEffect
<1>11. ASSUME NEW p \in Processes, Kill(p) PROVE InodeInv'
  BY <1>0, <1>11, KillEffect
<1> QED
  BY <1>1, <1>2, <1>3, <1>4, <1>5, <1>6, <1>7, <1>8, <1>9, <1>10, <1>11, Cases

\* A file that was there before is opened, and never removed.
LEMMA KeptStep ==
  ASSUME TypeOK, KeptInv, Next
  PROVE  KeptInv'
<1> USE DEF KeptInv, Opened, OnlyThread, OnlyProcess, Locks, HoldsEffect
<1>0. \A t \in Threads : Process(t) \in Processes
  BY LockFileAssumption DEF Process
<1>1. ASSUME NEW t \in Threads, Share(t) PROVE KeptInv'
  BY <1>0, <1>1, ShareEffect
<1>2. ASSUME NEW t \in Threads, Begin(t) PROVE KeptInv'
  BY <1>0, <1>2, BeginEffect
<1>3. ASSUME NEW t \in Threads, CheckExisted(t) PROVE KeptInv'
  BY <1>0, <1>3, CheckEffect, LockFileAssumption
<1>4. ASSUME NEW t \in Threads, Open(t) PROVE KeptInv'
  BY <1>0, <1>4, OpenEffect
<1>5. ASSUME NEW t \in Threads, Waits(t) PROVE KeptInv'
  BY <1>0, <1>5, WaitEffect
<1>6. ASSUME NEW t \in Threads, GetsLock(t) PROVE KeptInv'
  BY <1>0, <1>6, LockEffect
<1>7. ASSUME NEW t \in Threads, Release(t) PROVE KeptInv'
  BY <1>0, <1>7, ReleaseEffect
<1>8. ASSUME NEW t \in Threads, Close(t) PROVE KeptInv'
  BY <1>0, <1>8, CloseEffect
<1>9. ASSUME NEW t \in Threads, Remove(t) PROVE KeptInv'
  BY <1>0, <1>9, RemoveEffect
<1>10. ASSUME NEW t \in Threads, WorkUnlocked(t) PROVE KeptInv'
  BY <1>0, <1>10, WorkEffect
<1>11. ASSUME NEW p \in Processes, Kill(p) PROVE KeptInv'
  BY <1>0, <1>11, KillEffect
<1> QED
  BY <1>1, <1>2, <1>3, <1>4, <1>5, <1>6, <1>7, <1>8, <1>9, <1>10, <1>11, Cases

\* The name changes only when nobody else has the file open, or is remembered
\* to have changed.
LEMMA NameStep ==
  ASSUME TypeOK, InodeInv, NameInv, Next
  PROVE  NameInv'
<1> USE DEF NameInv, InodeInv, Opened, OnlyThread, OnlyProcess, Locks, HoldsEffect, history
<1>0. \A t \in Threads : Process(t) \in Processes
  BY LockFileAssumption DEF Process
<1>1. ASSUME NEW t \in Threads, Share(t) PROVE NameInv'
  BY <1>0, <1>1, ShareEffect
<1>2. ASSUME NEW t \in Threads, Begin(t) PROVE NameInv'
  BY <1>0, <1>2, BeginEffect
<1>3. ASSUME NEW t \in Threads, CheckExisted(t) PROVE NameInv'
  BY <1>0, <1>3, CheckEffect
<1>4. ASSUME NEW t \in Threads, Open(t) PROVE NameInv'
  <2>1. replaced' = replaced
    BY <1>4, OpenEffect
  <2>2. CASE path' = path
    BY <1>4, <2>1, <2>2, OpenEffect
  <2>3. CASE path' # path /\ ~replaced
    <3>1. path = NoInode /\ \A u \in Threads : my[u].inode = NoInode
      BY <1>4, <2>3, OpenEffect
    <3>2. \A p \in Processes : ~Locks(p)
      BY <2>3, <3>1, LockFileAssumption
    <3> QED
      BY <1>4, <2>1, <2>3, <3>1, <3>2, OpenEffect
  <2> QED
    BY <2>1, <2>2, <2>3
<1>5. ASSUME NEW t \in Threads, Waits(t) PROVE NameInv'
  BY <1>0, <1>5, WaitEffect
<1>6. ASSUME NEW t \in Threads, GetsLock(t) PROVE NameInv'
  <2>1. UNCHANGED <<path, replaced>> /\ HoldsEffect(t) /\ my[t].inode \in Inodes
    BY <1>6, LockEffect
  <2>2. CASE ~replaced
    <3>1. my[t].inode = path
      BY <2>1, <2>2, LockFileAssumption
    <3>2. owner'[Process(t)].inode = path /\ my'[t].inode = NoInode
      BY <2>1, <3>1 DEF NoOwner
    <3> QED
      BY <1>0, <2>1, <2>2, <3>2
  <2> QED
    BY <2>1, <2>2
<1>7. ASSUME NEW t \in Threads, Release(t) PROVE NameInv'
  BY <1>0, <1>7, ReleaseEffect
<1>8. ASSUME NEW t \in Threads, Close(t) PROVE NameInv'
  BY <1>0, <1>8, CloseEffect
<1>9. ASSUME NEW t \in Threads, Remove(t) PROVE NameInv'
  <2>1. CASE my[t].existed \/ path = NoInode
    <3>1. UNCHANGED <<path, owner>> /\ (replaced' \/ ~replaced)
      BY <1>9, <2>1, RemoveEffect
    <3>2. replaced' = replaced
      BY <1>9, <2>1, RemoveEffect DEF OpenElsewhere, TypeOK
    <3> QED
      BY <1>9, <3>1, <3>2, RemoveEffect DEF NoOwner
  <2>2. CASE ~my[t].existed /\ path # NoInode /\ ~replaced'
    <3>1. ~replaced /\ ~OpenElsewhere(t)
      BY <1>9, <2>2, RemoveEffect
    <3>2. /\ \A p \in Processes : ~Locks(p)
          /\ \A u \in Threads : u # t => my[u].inode = NoInode
      BY <2>2, <3>1 DEF OpenElsewhere
    <3> QED
      BY <1>9, <3>2, RemoveEffect DEF NoOwner
  <2> QED
    BY <2>1, <2>2
<1>10. ASSUME NEW t \in Threads, WorkUnlocked(t) PROVE NameInv'
  BY <1>0, <1>10, WorkEffect
<1>11. ASSUME NEW p \in Processes, Kill(p) PROVE NameInv'
  BY <1>0, <1>11, KillEffect DEF NoOwner
<1> QED
  BY <1>1, <1>2, <1>3, <1>4, <1>5, <1>6, <1>7, <1>8, <1>9, <1>10, <1>11, Cases

\* The kernel takes a lock away only when the process dies or closes the file.
LEMMA SoundStep ==
  ASSUME TypeOK, MakerInv, InodeInv, SoundInv, Next
  PROVE  SoundInv'
<1> USE DEF SoundInv, InodeInv, MakerInv, Making, Opened, OnlyThread, OnlyProcess, Locks, HoldsEffect, history
<1>0. \A t \in Threads : Process(t) \in Processes
  BY LockFileAssumption DEF Process
<1>1. ASSUME NEW t \in Threads, Share(t) PROVE SoundInv'
  BY <1>0, <1>1, ShareEffect
<1>2. ASSUME NEW t \in Threads, Begin(t) PROVE SoundInv'
  <2>1. \A u \in Threads : pc[u] = "granted" => Process(u) # Process(t)
    BY <1>2, BeginEffect, LockFileAssumption
  <2> QED
    BY <1>0, <1>2, <2>1, BeginEffect
<1>3. ASSUME NEW t \in Threads, CheckExisted(t) PROVE SoundInv'
  BY <1>0, <1>3, CheckEffect
<1>4. ASSUME NEW t \in Threads, Open(t) PROVE SoundInv'
  BY <1>0, <1>4, OpenEffect
<1>5. ASSUME NEW t \in Threads, Waits(t) PROVE SoundInv'
  <2>1. CASE ~Granted(t)
    <3>1. lock' = lock /\ pc'[t] # "granted"
      BY <1>5, <2>1, WaitEffect
    <3> QED
      BY <1>5, <3>1, WaitEffect
  <2>2. CASE Granted(t)
    <3>1. /\ my[t].inode \in Inodes /\ UNCHANGED <<owner, my, unsound>> /\ OnlyThread(t)
      BY <1>5, <2>2, WaitEffect DEF Granted
    <3>2. Available(t) /\ lock' = [lock EXCEPT ![my[t].inode] = Process(t)]
      BY <2>2 DEF Granted
    <3>3. lock'[my[t].inode] = Process(t) /\ \A i \in Inodes : i # my[t].inode => lock'[i] = lock[i]
      BY <3>1, <3>2 DEF TypeOK
    <3> HIDE DEF OnlyThread
    <3>4. \A p \in Processes \ unsound : Locks(p) => lock'[owner[p].inode] = p
      BY <1>0, <3>2, <3>3, LockFileAssumption DEF Available
    <3>5. \A u \in Threads : pc[u] = "granted" /\ Process(u) \notin unsound =>
                               lock'[my[u].inode] = Process(u)
      BY <1>0, <3>2, <3>3, LockFileAssumption DEF Available
    <3> QED
      BY <3>1, <3>3, <3>4, <3>5 DEF OnlyThread
  <2> QED
    BY <2>1, <2>2
<1>6. ASSUME NEW t \in Threads, GetsLock(t) PROVE SoundInv'
  <2>1. HoldsEffect(t) /\ my[t].inode \in Inodes
    BY <1>6, LockEffect
  <2>2. CASE /\ Available(t) /\ UNCHANGED unsound
             /\ lock' = [lock EXCEPT ![my[t].inode] = Process(t)]
    <3>1. lock'[my[t].inode] = Process(t) /\ \A i \in Inodes : i # my[t].inode => lock'[i] = lock[i]
      BY <2>1, <2>2 DEF TypeOK
    <3>2. \A p \in Processes \ unsound : Locks(p) => lock'[owner[p].inode] = p
      BY <1>0, <2>2, <3>1, LockFileAssumption DEF Available
    <3>3. \A u \in Threads : pc[u] = "granted" /\ Process(u) \notin unsound =>
                               lock'[my[u].inode] = Process(u)
      BY <1>0, <2>2, <3>1, LockFileAssumption DEF Available
    <3> QED
      BY <1>0, <2>1, <2>2, <3>1, <3>2, <3>3
  <2>3. CASE pc[t] = "granted" /\ UNCHANGED <<lock, unsound>>
    BY <1>0, <2>1, <2>3
  <2>4. CASE unsound' = unsound \union {Process(t)} /\ UNCHANGED lock
    BY <1>0, <2>1, <2>4
  <2> QED
    BY <1>6, <2>2, <2>3, <2>4, LockEffect
<1>7. ASSUME NEW t \in Threads, Release(t) PROVE SoundInv'
  BY <1>0, <1>7, ReleaseEffect
<1>8. ASSUME NEW t \in Threads, Close(t) PROVE SoundInv'
  <2>1. /\ UNCHANGED owner /\ pc'[t] = "removing" /\ OnlyThread(t)
        /\ unsound \subseteq unsound' /\ (SharedInode(t) => Process(t) \in unsound')
    BY <1>8, CloseEffect
  <2>2. \A i \in Inodes : lock'[i] # lock[i] => i = my[t].inode /\ lock[i] = Process(t)
    BY <1>8, CloseEffect
  <2>3. \A p \in Processes \ unsound' : Locks(p) => lock'[owner[p].inode] = p
    BY <1>0, <2>1, <2>2 DEF SharedInode
  <2>4. \A u \in Threads : u # t /\ pc[u] = "granted" /\ Process(u) \notin unsound' =>
                             lock'[my[u].inode] = Process(u)
    BY <1>0, <2>1, <2>2 DEF SharedInode
  <2> QED
    BY <2>1, <2>3, <2>4
<1>9. ASSUME NEW t \in Threads, Remove(t) PROVE SoundInv'
  BY <1>0, <1>9, RemoveEffect
<1>10. ASSUME NEW t \in Threads, WorkUnlocked(t) PROVE SoundInv'
  BY <1>0, <1>10, WorkEffect
<1>11. ASSUME NEW p \in Processes, Kill(p) PROVE SoundInv'
  BY <1>0, <1>11, KillEffect
<1> QED
  BY <1>1, <1>2, <1>3, <1>4, <1>5, <1>6, <1>7, <1>8, <1>9, <1>10, <1>11, Cases

LEMMA StepInvariant ==
  ASSUME IInv, [Next]_vars
  PROVE  IInv'
<1>1. CASE Next
  BY <1>1, TypeStep, MakerStep, InodeStep, KeptStep, NameStep, SoundStep DEF IInv
<1>2. CASE UNCHANGED vars
  BY <1>2 DEF vars, history, IInv, TypeOK, MakerInv, InodeInv, SoundInv, NameInv, KeptInv, Locks
<1> QED
  BY <1>1, <1>2

LEMMA Invariant == Spec => []IInv
<1>1. IInv /\ [Next]_vars => IInv'
  BY StepInvariant
<1> QED
  BY <1>1, InitialInvariant, PTL DEF Spec

-----------------------------------------------------------------------------
\* The variables of the lock keep their types.
THEOREM TypeCorrect == Spec => []TypeOK
<1>1. IInv => TypeOK
  BY DEF IInv
<1> QED
  BY <1>1, Invariant, PTL

\* A process that is told it has the lock has the record lock of the kernel on
\* its file, but for spurious wakeups and descriptors it closed itself.
THEOREM LocksAreReal == Spec => []HeldLockIsReal
<1>1. IInv => HeldLockIsReal
  BY DEF IInv, SoundInv, HeldLockIsReal
<1> QED
  BY <1>1, Invariant, PTL

\* Two processes have the lock at the same time only after a lock file was
\* removed while it was open elsewhere.
THEOREM OnlyOneProcess == Spec => []ExclusiveUntilReplaced
<1>1. IInv => ExclusiveUntilReplaced
  BY DEF IInv, SoundInv, NameInv, ExclusiveUntilReplaced
<1> QED
  BY <1>1, Invariant, PTL

\* A lock file that was there before is there for good: nobody removes it.
THEOREM FileStays == Spec => FileKept
<1>1. ASSUME IInv, [Next]_vars, Preexisting PROVE path' = path
  <2>1. path # NoInode
    BY <1>1, LockFileAssumption DEF IInv, KeptInv
  <2>2. ASSUME NEW t \in Threads, Remove(t) PROVE path' = path
    BY <1>1, <2>2 DEF IInv, KeptInv, Remove
  <2>3. ASSUME NEW t \in Threads, Open(t) PROVE path' = path
    BY <2>1, <2>3 DEF Open
  <2> QED
    BY <1>1, <2>2, <2>3
    DEF Next, Construct, Destroy, Share, Begin, CheckExisted, TryLock, Granted, Notice, GiveUp,
        WakeUp, Release, Close, WorkUnlocked, Kill, vars
<1>2. IInv /\ [Next]_vars => [Preexisting => path' = path]_vars
  BY <1>1
<1> QED
  BY <1>2, Invariant, PTL DEF Spec, FileKept

-----------------------------------------------------------------------------
\* At most one process has the kernel's lock on the file that has the name.
LEMMA OneUser ==
  ASSUME IInv
  PROVE  \A p, q \in Processes : Users(p) # {} /\ Users(q) # {} => p = q
  BY DEF IInv, SoundInv, Users, Locks

\* A step of LockFile is a step of the lock, or one its users do not see.
LEMMA LockStep ==
  ASSUME IInv, IInv', [Next]_vars
  PROVE  [Lock!Next]_([p \in Processes |-> Users(p)])
<1> DEFINE users == [p \in Processes |-> Users(p)]
<1>0. /\ TypeOK /\ \A t \in Threads : Process(t) \in Processes
  BY LockFileAssumption DEF IInv, Process
\* At most one process loses what it has.
<1>1. ASSUME \A p \in Processes : Users(p)' = Users(p) \/ Users(p)' = {}
      PROVE  Lock!Next \/ users' = users
  <2>1. CASE \A p \in Processes : Users(p)' = Users(p)
    BY <2>1
  <2>2. ASSUME NEW p \in Processes, Users(p)' # Users(p) PROVE Lock!Next
    <3>1. Users(p) # {} /\ Users(p)' = {}
      BY <1>1, <2>2
    <3>2. \A q \in Processes : q # p => Users(q)' = Users(q)
      BY <1>1, <3>1, OneUser
    <3>3. users' = [users EXCEPT ![p] = {}]
      BY <3>1, <3>2
    <3> QED
      BY <3>3 DEF Lock!Next, Lock!Lose
  <2> QED
    BY <2>1, <2>2
<1>2. ASSUME NEW p \in Processes, NEW t \in Threads,
             Users(p)' = Users(p) \union {t},
             \A q \in Processes : q # p => Users(q)' = Users(q)
      PROVE  Lock!Next
  <2>1. \A q \in Processes : Users(p)' # {} /\ Users(q)' # {} => q = p
    BY DEF IInv, SoundInv, Users, Locks
  <2>2. \A q \in Processes \ {p} : users[q] = {}
    BY <1>2, <2>1
  <2>3. users' = [users EXCEPT ![p] = @ \union {t}]
    BY <1>2
  <2> QED
    BY <2>2, <2>3 DEF Lock!Next, Lock!Lock
<1>3. ASSUME NEW p \in Processes, NEW t \in Threads,
             Users(p)' = Users(p) \ {t},
             \A q \in Processes : q # p => Users(q)' = Users(q)
      PROVE  Lock!Next \/ users' = users
  <2>1. users' = [users EXCEPT ![p] = @ \ {t}]
    BY <1>3
  <2>2. CASE t \in users[p]
    BY <2>1, <2>2 DEF Lock!Next, Lock!Unlock
  <2>3. CASE t \notin users[p]
    <3>1. \A q \in Processes : Users(q)' = Users(q)
      BY <1>3, <2>3
    <3> QED
      BY <3>1
  <2> QED
    BY <2>2, <2>3
<1> HIDE DEF users
<1> USE DEF Users, OnlyProcess, HoldsEffect, history, Locks
<1>4. ASSUME NEW t \in Threads, Share(t) PROVE Lock!Next \/ users' = users
  <2>1. CASE Process(t) \in unsound \/ owner[Process(t)].inode # path
    <3>1. \A p \in Processes : Users(p)' = Users(p) \/ Users(p)' = {}
      BY <1>0, <1>4, <2>1, ShareEffect
    <3> QED
      BY <1>1, <3>1
  <2>2. CASE Process(t) \notin unsound /\ owner[Process(t)].inode = path
    <3>1. /\ Users(Process(t))' = Users(Process(t)) \union {t}
          /\ \A q \in Processes : q # Process(t) => Users(q)' = Users(q)
      BY <1>0, <1>4, <2>2, ShareEffect
    <3> QED
      BY <1>0, <1>2, <3>1
  <2> QED
    BY <2>1, <2>2
<1>5. ASSUME NEW t \in Threads, GetsLock(t) PROVE Lock!Next \/ users' = users
  <2>1. /\ owner[Process(t)].users = {} /\ UNCHANGED path /\ HoldsEffect(t)
        /\ unsound' = unsound \/ unsound' = unsound \union {Process(t)}
    BY <1>0, <1>5, LockEffect DEF IInv, MakerInv, Making
  <2>2. \A q \in Processes : q # Process(t) => Users(q)' = Users(q)
    BY <2>1
  <2>3. Users(Process(t)) = {} /\ Users(Process(t))' \in {{}, {t}}
    BY <1>0, <2>1
  <2>4. CASE Users(Process(t))' = {t}
    BY <1>0, <1>2, <2>2, <2>3, <2>4
  <2>5. CASE Users(Process(t))' = {}
    BY <1>0, <1>1, <2>2, <2>3, <2>5
  <2> QED
    BY <2>3, <2>4, <2>5
<1>6. ASSUME NEW t \in Threads, Release(t) PROVE Lock!Next \/ users' = users
  <2>1. \A q \in Processes : q # Process(t) => Users(q)' = Users(q)
    BY <1>0, <1>6, ReleaseEffect
  <2>2. Users(Process(t))' = Users(Process(t)) \ {t}
    BY <1>0, <1>6, ReleaseEffect
  <2> QED
    BY <1>0, <1>3, <2>1, <2>2
<1>7. ASSUME NEW t \in Threads, Open(t) PROVE Lock!Next \/ users' = users
  <2>1. CASE path' = path
    <3>1. \A p \in Processes : Users(p)' = Users(p)
      BY <1>0, <1>7, <2>1, OpenEffect
    <3> QED
      BY <1>1, <3>1
  <2>2. CASE path' # path
    <3>1. \A p \in Processes : Users(p)' = {}
      BY <1>0, <1>7, <2>2, OpenEffect
    <3> QED
      BY <1>1, <3>1
  <2> QED
    BY <2>1, <2>2
<1>8. ASSUME NEW t \in Threads, Close(t) \/ Remove(t) PROVE Lock!Next \/ users' = users
  <2>1. owner' = owner /\ unsound \subseteq unsound'
    BY <1>0, <1>8, CloseEffect, RemoveEffect
  <2>2. path' = path \/ path' = NoInode
    BY <1>0, <1>8, CloseEffect, RemoveEffect
  <2>3. \A p \in Processes : owner[p].users # {} => owner[p].inode # NoInode
    BY LockFileAssumption DEF IInv, InodeInv
  <2>4. \A p \in Processes : Users(p)' = Users(p) \/ Users(p)' = {}
    BY <2>1, <2>2, <2>3
  <2> QED
    BY <1>1, <2>4
<1>9. ASSUME NEW t \in Threads, Begin(t) PROVE Lock!Next \/ users' = users
  <2>1. \A p \in Processes : Users(p)' = Users(p)
    BY <1>0, <1>9, BeginEffect
  <2> QED
    BY <1>1, <2>1
<1>10. ASSUME NEW t \in Threads, CheckExisted(t) \/ Waits(t) \/ WorkUnlocked(t)
       PROVE  Lock!Next \/ users' = users
  <2>1. UNCHANGED <<path, owner, unsound>>
    BY <1>0, <1>10, CheckEffect, WaitEffect, WorkEffect
  <2>2. \A p \in Processes : Users(p)' = Users(p)
    BY <2>1
  <2> QED
    BY <1>1, <2>2
<1>11. ASSUME NEW p \in Processes, Kill(p) PROVE Lock!Next \/ users' = users
  <2>1. \A q \in Processes : Users(q)' = Users(q) \/ Users(q)' = {}
    BY <1>0, <1>11, KillEffect
  <2> QED
    BY <1>1, <2>1
<1>12. ASSUME UNCHANGED vars PROVE Lock!Next \/ users' = users
  <2>1. \A p \in Processes : Users(p)' = Users(p)
    BY <1>12 DEF vars
  <2> QED
    BY <1>1, <2>1
<1>13. ASSUME Next PROVE Lock!Next \/ users' = users
  BY <1>4, <1>5, <1>6, <1>7, <1>8, <1>9, <1>10, <1>11, <1>13, Cases
<1> QED
  BY <1>12, <1>13 DEF users

\* LockFile implements the abstract lock for the owners that have the kernel's
\* lock on the file the name stands for.
THEOREM ImplementsLock == Spec => LockSpec
<1>1. Init => Lock!Init
  BY DEF Init, Lock!Init, Users, Dead
<1>2. IInv /\ IInv' /\ [Next]_vars => [Lock!Next]_([p \in Processes |-> Users(p)])
  BY LockStep
<1> QED
  BY <1>1, <1>2, Invariant, PTL DEF Spec, LockSpec, Lock!Spec
=============================================================================
