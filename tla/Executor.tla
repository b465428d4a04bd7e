------------------------------- MODULE Executor -------------------------------
(***************************************************************************)
(* MainExecutor (core/execution.hpp) and TaskSynchronizer                  *)
(* (core/tasksync.hpp) together: the executor runs callables, in threads   *)
(* of their own or as handlers of its closing (as the console and the log  *)
(* have it), that an object has wrapped so that none runs beyond the       *)
(* object's life.  The main thread schedules tasks and closes the          *)
(* executor; another thread destroys the object.  Both, and the tasks, may *)
(* schedule tasks or hand over a thread they have started (as a            *)
(* lock file with a timeout does).                                         *)
(***************************************************************************)
EXTENDS Naturals, FiniteSets

CONSTANTS
    Tasks,         \* callables
    Main,          \* the thread that closes the executor
    Owner,         \* the thread that destroys the object
    NoThread,      \* nobody
    MaxSpurious    \* bound: spurious wake-ups of the condition variable

ASSUME ExecutorAssumption ==
    /\ IsFiniteSet(Tasks) /\ MaxSpurious \in Nat
    /\ {Main, Owner, NoThread} \cap Tasks = {}
    /\ Main # Owner /\ Main # NoThread /\ Owner # NoThread

Callers == Tasks \cup {Main, Owner}

VARIABLES
    open,          \* is_open
    threads,       \* the executor's vector of threads
    mutex,         \* who has locked it
    handlers,      \* close_handlers
    call,          \* the schedule() or take_ownership() a thread is in
    closing,       \* where close() is
    terminated,    \* std::terminate() was called
    pc,            \* where each task is
    status,        \* who has a shared_ptr to the Status
    joinRequested, \* Status::join_requested
    running,       \* m_running_tasks
    syncMutex,     \* who has locked m_mutex
    joining,       \* where join_tasks() is
    notified,      \* a notification has reached the waiting thread
    spurious,      \* spurious wake-ups so far
    missed,        \* history: a task let go of the Status and told nobody
    late           \* history: tasks that began between the two tests of join_tasks()

executor == <<open, threads, mutex, handlers, closing, terminated>>
synchronizer == <<status, joinRequested, running, syncMutex, joining, notified, spurious, missed,
                  late>>
vars == <<executor, call, pc, synchronizer>>

NoCall == [at |-> "none", kind |-> "none", arg |-> NoThread]
Calls == [at : {"none", "wait", "locked"}, kind : {"none", "schedule", "own"},
          arg : Tasks \cup {NoThread}]
Places == {"new", "bare", "enter", "holds", "skip", "begin", "work", "release", "end", "notify", "done"}

(* Every variable of the executor and of the synchronizer keeps its type.  *)
TypeOK ==
    /\ open \in BOOLEAN /\ threads \in SUBSET Tasks /\ mutex \in Callers \cup {NoThread}
    /\ handlers \in SUBSET Tasks
    /\ call \in [Callers -> Calls]
    /\ closing \in {"no", "handlers", "begun", "joins", "closed"} /\ terminated \in BOOLEAN
    /\ pc \in [Tasks -> Places]
    /\ status \in SUBSET (Tasks \cup {Owner}) /\ joinRequested \in BOOLEAN /\ running \in Nat
    /\ syncMutex \in {Owner, NoThread} /\ joining \in {"no", "test", "expires", "sleeps", "waits", "joined"}
    /\ notified \in BOOLEAN /\ spurious \in 0..MaxSpurious /\ missed \in BOOLEAN
    /\ late \in SUBSET Tasks

Init ==
    /\ open = TRUE /\ threads = {} /\ mutex = NoThread /\ handlers = {}
    /\ call = [c \in Callers |-> NoCall]
    /\ closing = "no" /\ terminated = FALSE
    /\ pc = [t \in Tasks |-> "new"]
    /\ status = {Owner} /\ joinRequested = FALSE /\ running = 0
    /\ syncMutex = NoThread /\ joining = "no" /\ notified = FALSE /\ spurious = 0
    /\ missed = FALSE /\ late = {}

-----------------------------------------------------------------------------
(* schedule() and take_ownership(): a test of is_open without the lock and *)
(* one with it.  A thread that is refused is destroyed joinable, which     *)
(* terminates the process; a task that is refused is just dropped.         *)

CanCall(c) ==
    /\ ~terminated /\ call[c] = NoCall
    /\ \/ c = Main /\ closing = "no"
       \/ c = Owner /\ joining = "no"
       \/ c \in Tasks \ handlers /\ pc[c] = "work"
IsNew(t) == pc[t] = "new" /\ t \notin handlers /\ \A d \in Callers : call[d].arg # t

Schedule(c, t) ==
    /\ CanCall(c) /\ IsNew(t)
    /\ open /\ call' = [call EXCEPT ![c] = [at |-> "wait", kind |-> "schedule", arg |-> t]]
    /\ UNCHANGED <<executor, pc, synchronizer>>

(* The thread runs already, and nothing is wrapped.                        *)
TakeOwnership(c, t) ==
    /\ CanCall(c) /\ IsNew(t)
    /\ pc' = [pc EXCEPT ![t] = "bare"]
    /\ \/ open /\ call' = [call EXCEPT ![c] = [at |-> "wait", kind |-> "own", arg |-> t]]
          /\ UNCHANGED terminated
       \/ ~open /\ terminated' = TRUE /\ UNCHANGED call
    /\ UNCHANGED <<open, threads, mutex, handlers, closing, synchronizer>>

LockThreads(c) ==
    /\ ~terminated /\ call[c].at = "wait" /\ mutex = NoThread
    /\ mutex' = c /\ call' = [call EXCEPT ![c].at = "locked"]
    /\ UNCHANGED <<open, threads, handlers, closing, terminated, pc, synchronizer>>

(* Mutant: is_open is not tested again.                                    *)
AddThreadUnchecked(c) ==
    LET t == call[c].arg IN
    /\ ~terminated /\ call[c].at = "locked"
    /\ threads' = threads \cup {t}
    /\ pc' = IF call[c].kind = "schedule" THEN [pc EXCEPT ![t] = "enter"] ELSE pc
    /\ mutex' = NoThread /\ call' = [call EXCEPT ![c] = NoCall]
    /\ UNCHANGED <<open, handlers, closing, terminated, synchronizer>>
AddThread(c) ==
    LET t == call[c].arg IN
    /\ ~terminated /\ call[c].at = "locked"
    /\ \/ /\ open /\ threads' = threads \cup {t} /\ UNCHANGED terminated
          /\ pc' = IF call[c].kind = "schedule" THEN [pc EXCEPT ![t] = "enter"] ELSE pc
       \/ /\ ~open /\ terminated' = (call[c].kind = "own") /\ UNCHANGED <<threads, pc>>
    /\ mutex' = NoThread /\ call' = [call EXCEPT ![c] = NoCall]
    /\ UNCHANGED <<open, handlers, closing, synchronizer>>

-----------------------------------------------------------------------------
(* on_close() and close(), which runs the handlers one after the other and *)
(* joins the threads with the lock held.                                   *)

OnClose(t) ==
    /\ CanCall(Main) /\ IsNew(t)
    /\ open /\ handlers' = handlers \cup {t}
    /\ UNCHANGED <<open, threads, mutex, call, closing, terminated, pc, synchronizer>>

(* Mutant: the lock is taken before the handlers run, and again to join.   *)
CloseLocksTwice ==
    /\ ~terminated /\ closing = "no" /\ call[Main] = NoCall /\ mutex = NoThread
    /\ open' = FALSE /\ closing' = "handlers" /\ mutex' = Main
    /\ UNCHANGED <<threads, handlers, call, terminated, pc, synchronizer>>
Close ==
    /\ ~terminated /\ closing = "no" /\ call[Main] = NoCall
    /\ open' = FALSE /\ closing' = "handlers"
    /\ UNCHANGED <<threads, mutex, handlers, call, terminated, pc, synchronizer>>

InvokeHandler(t) ==
    /\ ~terminated /\ closing = "handlers"
    /\ t \in handlers /\ pc[t] = "new" /\ \A u \in handlers : pc[u] \in {"new", "done"}
    /\ pc' = [pc EXCEPT ![t] = "enter"]
    /\ UNCHANGED <<executor, call, synchronizer>>

HandlersDone ==
    /\ ~terminated /\ closing = "handlers" /\ \A t \in handlers : pc[t] = "done"
    /\ closing' = "begun"
    /\ UNCHANGED <<open, threads, mutex, handlers, call, terminated, pc, synchronizer>>

CloseLocks ==
    /\ ~terminated /\ closing = "begun" /\ mutex = NoThread
    /\ mutex' = Main /\ closing' = "joins"
    /\ UNCHANGED <<open, threads, handlers, call, terminated, pc, synchronizer>>

CloseJoins ==
    /\ ~terminated /\ closing = "joins"
    /\ \A t \in threads : pc[t] = "done"
    /\ threads' = {} /\ mutex' = NoThread /\ closing' = "closed"
    /\ UNCHANGED <<open, handlers, call, terminated, pc, synchronizer>>

-----------------------------------------------------------------------------
(* TaskSynchronizer::synchronized(): the wrapped callable.                 *)

At(t, place) == ~terminated /\ pc[t] = place
Moves(t, place) == pc' = [pc EXCEPT ![t] = place]

LockStatus(t) ==
    /\ At(t, "enter")
    /\ \/ status # {} /\ status' = status \cup {t} /\ Moves(t, "holds")
       \/ status = {} /\ UNCHANGED status /\ Moves(t, "done")
    /\ UNCHANGED <<executor, call, joinRequested, running, syncMutex, joining, notified, spurious,
                   missed, late>>

TestJoin(t) ==
    /\ At(t, "holds") /\ Moves(t, IF joinRequested THEN "skip" ELSE "begin")
    /\ UNCHANGED <<executor, call, synchronizer>>

Skip(t) ==
    /\ At(t, "skip") /\ status' = status \ {t} /\ Moves(t, "done")
    /\ missed' = (missed \/ joining \in {"sleeps", "waits"})
    /\ UNCHANGED <<executor, call, joinRequested, running, syncMutex, joining, notified, spurious,
                   late>>

NotifyBegin(t) ==
    /\ At(t, "begin") /\ running' = running + 1 /\ Moves(t, "work")
    /\ late' = IF joining = "expires" THEN late \cup {t} ELSE late
    /\ UNCHANGED <<executor, call, status, joinRequested, syncMutex, joining, notified, spurious,
                   missed>>

(* A thread that was handed over ends.                                     *)
BareEnds(t) ==
    /\ At(t, "bare") /\ Moves(t, "done")
    /\ UNCHANGED <<executor, call, synchronizer>>

WorkEnds(t) ==
    /\ At(t, "work") /\ call[t] = NoCall /\ Moves(t, "release")
    /\ UNCHANGED <<executor, call, synchronizer>>

ResetStatus(t) ==
    /\ At(t, "release") /\ status' = status \ {t} /\ Moves(t, "end")
    /\ UNCHANGED <<executor, call, joinRequested, running, syncMutex, joining, notified, spurious,
                   missed, late>>

(* Mutant: the count goes down without the mutex.                          *)
NotifyEndUnlocked(t) ==
    /\ At(t, "end") /\ running' = running - 1 /\ Moves(t, "notify")
    /\ UNCHANGED <<executor, call, status, joinRequested, syncMutex, joining, notified, spurious,
                   missed, late>>
NotifyEnd(t) ==
    /\ At(t, "end") /\ syncMutex = NoThread
    /\ running' = running - 1 /\ Moves(t, "notify")
    /\ UNCHANGED <<executor, call, status, joinRequested, syncMutex, joining, notified, spurious,
                   missed, late>>

NotifyOne(t) ==
    /\ At(t, "notify") /\ Moves(t, "done") /\ notified' = (notified \/ joining = "waits")
    /\ UNCHANGED <<executor, call, status, joinRequested, running, syncMutex, joining, spurious,
                   missed, late>>

-----------------------------------------------------------------------------
(* join_tasks(), called by the destructor.                                 *)

Join ==
    /\ ~terminated /\ joining = "no" /\ call[Owner] = NoCall /\ syncMutex = NoThread
    /\ syncMutex' = Owner /\ joinRequested' = TRUE /\ status' = status \ {Owner}
    /\ joining' = "test"
    /\ UNCHANGED <<executor, call, pc, running, notified, spurious, missed, late>>

(* The condition reads the count and then, if no task is running, whether  *)
(* the Status has expired.  Tasks take no lock to count themselves or to   *)
(* let go of the Status, and may do both in between.                       *)
TestCount ==
    /\ ~terminated /\ joining = "test"
    /\ joining' = IF running = 0 THEN "expires" ELSE "sleeps"
    /\ UNCHANGED <<executor, call, pc, status, joinRequested, running, syncMutex, notified, spurious,
                   missed, late>>

(* Mutant: only the number of running tasks is looked at.                  *)
TestNothing ==
    /\ ~terminated /\ joining = "expires"
    /\ joining' = "joined" /\ syncMutex' = NoThread
    /\ UNCHANGED <<executor, call, pc, status, joinRequested, running, notified, spurious, missed,
                   late>>
TestExpired ==
    /\ ~terminated /\ joining = "expires"
    /\ \/ status = {} /\ joining' = "joined" /\ syncMutex' = NoThread /\ UNCHANGED late
       \/ status # {} /\ joining' = "sleeps" /\ UNCHANGED syncMutex /\ late' = {}
    /\ UNCHANGED <<executor, call, pc, status, joinRequested, running, notified, spurious, missed>>

(* wait() unlocks the mutex and goes to sleep in one step.                 *)
Sleep ==
    /\ ~terminated /\ joining = "sleeps" /\ joining' = "waits" /\ syncMutex' = NoThread
    /\ UNCHANGED <<executor, call, pc, status, joinRequested, running, notified, spurious, missed,
                   late>>

WakeUp ==
    /\ ~terminated /\ joining = "waits" /\ syncMutex = NoThread
    /\ \/ notified /\ UNCHANGED spurious
       \/ ~notified /\ spurious < MaxSpurious /\ spurious' = spurious + 1
    /\ notified' = FALSE /\ joining' = "test" /\ syncMutex' = Owner
    /\ UNCHANGED <<executor, call, pc, status, joinRequested, running, missed, late>>

-----------------------------------------------------------------------------
TaskStep(t) ==
    \/ LockStatus(t) \/ TestJoin(t) \/ Skip(t) \/ NotifyBegin(t) \/ WorkEnds(t) \/ BareEnds(t)
    \/ ResetStatus(t) \/ NotifyEnd(t) \/ NotifyOne(t)
CallStep(c) == LockThreads(c) \/ AddThread(c)
CloseStep == (\E t \in Tasks : InvokeHandler(t)) \/ HandlersDone \/ CloseLocks \/ CloseJoins
JoinStep == TestCount \/ TestExpired \/ Sleep \/ (notified /\ WakeUp)

Next ==
    \/ \E c \in Callers, t \in Tasks : Schedule(c, t) \/ TakeOwnership(c, t)
    \/ \E c \in Callers : CallStep(c)
    \/ \E t \in Tasks : TaskStep(t) \/ OnClose(t)
    \/ Close \/ CloseStep \/ Join \/ TestCount \/ TestExpired \/ Sleep \/ WakeUp

Spec == Init /\ [][Next]_vars
(* Threads run on; whoever may close or join need not do so.  A mutex is   *)
(* asked for finitely often, so weak fairness is enough to have it.        *)
FairSpec ==
    /\ Spec
    /\ \A t \in Tasks : WF_vars(TaskStep(t) \/ CallStep(t))
    /\ WF_vars(CallStep(Main) \/ CloseStep) /\ WF_vars(CallStep(Owner) \/ JoinStep)

-----------------------------------------------------------------------------
(* "A synchronized callable will never execute outside the lifetime of     *)
(* this object": once join_tasks() has returned no task is in its body or  *)
(* will enter it.  Only tasks that began between the two tests of the      *)
(* condition, and have run their body by then, have yet to be uncounted.   *)
NoWorkAfterJoin ==
    joining = "joined" => \A t \in Tasks : /\ pc[t] \notin {"begin", "work", "release"}
                                          /\ pc[t] = "end" => t \in late

(* "After calling this, is_joined() will return true", which join_tasks()  *)
(* asserts.  It does not hold: see late.                                   *)
IsJoined == joining = "joined" => running = 0

(* close() "only returns once all tasks scheduled before this call are     *)
(* finished and all owned execution resources are released": no thread     *)
(* runs on, not even one that a task started meanwhile; only one that is   *)
(* still being handed over, which take_ownership() will refuse.            *)
HandingOver(c, t) == call[c].kind = "own" /\ call[c].arg = t
NoThreadAfterClose ==
    closing = "closed" /\ ~terminated =>
        \A t \in Tasks : pc[t] \in {"new", "done"} \/ HandingOver(Owner, t)

(* A thread in schedule() or take_ownership() waits for the lock that      *)
(* close() holds while it joins that very thread.                          *)
Embraced == closing = "joins" /\ \E t \in threads : call[t].at = "wait"

(* close() returns, unless a task it joins waits for its lock or a thread  *)
(* was handed over too late.                                               *)
CloseReturnsUnlessEmbraced == closing = "handlers" ~> closing = "closed" \/ Embraced \/ terminated

(* join_tasks() returns, unless a task that was skipped has let go of the  *)
(* Status without notifying anyone, or close() has the tasks.              *)
JoinReturnsUnlessMissed == joining = "test" ~> joining = "joined" \/ missed \/ Embraced \/ terminated

(* The same without exceptions, as the comments of close() and of          *)
(* join_tasks() have it.  They do not hold.                                *)
CloseReturns == closing = "handlers" ~> closing = "closed" \/ terminated
JoinReturns == joining = "test" ~> joining = "joined" \/ Embraced \/ terminated
(* Nor does this: m_task_end_condition may be used after the object's      *)
(* destructor has returned.                                                *)
NoTouchAfterJoin == joining = "joined" => \A t \in Tasks : pc[t] # "notify"
=============================================================================
