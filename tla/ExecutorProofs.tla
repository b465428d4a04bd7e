---------------------------- MODULE ExecutorProofs ----------------------------
(***************************************************************************)
(* Nothing runs beyond close() or join_tasks(), for any number of tasks,   *)
(* calls from tasks and spurious wake-ups.                                 *)
(*                                                                         *)
(* For join_tasks() a task holds the Status from its test of it until      *)
(* after its body (StatusInv), so that none is in between once the Status  *)
(* has expired, and is counted from before its body until after it has let *)
(* go of the Status (CountInv): whoever is counted when join_tasks()       *)
(* returns began after the count was read (JoinInv).  For close() every    *)
(* thread that runs is the executor's, a handler, or being handed over     *)
(* (OwnedInv), by a task that is itself the executor's or by the owner:    *)
(* joining the threads joins all but the latter.                           *)
(***************************************************************************)
EXTENDS Executor, FiniteSetTheorems, TLAPS

InCall(c) == call[c].at # "none"
CallInv ==
    /\ \A c \in Callers : ~InCall(c) => call[c] = NoCall
    /\ \A c \in Callers : InCall(c) =>
         /\ call[c].arg \in Tasks \ handlers
         /\ \/ call[c].kind = "schedule" /\ pc[call[c].arg] = "new"
            \/ call[c].kind = "own"
    /\ \A c, d \in Callers : InCall(c) /\ call[d].arg = call[c].arg => c = d

Handed(t) == \E c \in Callers : InCall(c) /\ call[c].kind = "own" /\ call[c].arg = t
OwnedInv ==
    ~terminated =>
      /\ \A t \in Tasks : \/ pc[t] \in {"new", "done"} \/ t \in threads \cup handlers
                          \/ pc[t] = "bare" /\ Handed(t)
      /\ \A c \in Tasks : InCall(c) => pc[c] = "work" /\ c \in threads
CloseInv ==
    /\ open = (closing = "no")
    /\ closing \in {"begun", "joins", "closed"} => \A t \in handlers : pc[t] = "done"
    /\ closing = "closed" => threads = {}
MainInv == closing # "no" => call[Main] = NoCall

Holding == {"holds", "skip", "begin", "work", "release"}
StatusInv == \A t \in Tasks : pc[t] \in Holding => t \in status
Counted == {t \in Tasks : pc[t] \in {"work", "release", "end"}}
CountInv == running = Cardinality(Counted)
JoinInv ==
    /\ joining = "joined" => status = {}
    /\ joining \in {"expires", "joined"} => Counted \subseteq late

IInv == TypeOK /\ CallInv /\ OwnedInv /\ CloseInv /\ MainInv /\ StatusInv /\ CountInv
        /\ JoinInv

-----------------------------------------------------------------------------
(* How the count of running tasks changes.                                 *)

(* Only finitely many tasks are counted at a time.                         *)
LEMMA CountedFinite == IsFiniteSet(Counted) /\ Cardinality(Counted) \in Nat
  <1>1. IsFiniteSet(Counted)
    BY ExecutorAssumption, FS_Subset DEF Counted
  <1> QED
    BY <1>1, FS_CardinalityType

(* A task that is counted was not counted before.                          *)
LEMMA CountUp ==
    ASSUME TypeOK, CountInv, NEW t \in Tasks, NotifyBegin(t)
    PROVE  CountInv' /\ running' \in Nat
  <1>1. pc' = [pc EXCEPT ![t] = "work"] /\ pc[t] = "begin" /\ running' = running + 1
    BY DEF NotifyBegin, At, Moves
  <1>2. Counted' = Counted \cup {t} /\ t \notin Counted
    BY <1>1 DEF Counted, TypeOK
  <1>3. Cardinality(Counted \cup {t}) = Cardinality(Counted) + 1
    BY <1>2, CountedFinite, FS_AddElement
  <1> QED
    BY <1>1, <1>2, <1>3 DEF CountInv, TypeOK

(* A task that stops being counted was counted, so that the count stays a  *)
(* natural number.                                                         *)
LEMMA CountDown ==
    ASSUME TypeOK, CountInv, NEW t \in Tasks, NotifyEnd(t)
    PROVE  CountInv' /\ running' \in Nat
  <1>1. pc' = [pc EXCEPT ![t] = "notify"] /\ pc[t] = "end" /\ running' = running - 1
    BY DEF NotifyEnd, At, Moves
  <1>2. Counted' = Counted \ {t} /\ t \in Counted
    BY <1>1 DEF Counted, TypeOK
  <1>3. Cardinality(Counted \ {t}) = Cardinality(Counted) - 1 /\ Cardinality(Counted) # 0
    BY <1>2, CountedFinite, FS_RemoveElement, FS_EmptySet
  <1> QED
    BY <1>1, <1>2, <1>3, CountedFinite DEF CountInv, TypeOK

-----------------------------------------------------------------------------
(* The invariant holds before anything is scheduled.                       *)
LEMMA Initially == Init => IInv
  <1> SUFFICES ASSUME Init PROVE IInv
    OBVIOUS
  <1>1. TypeOK
    <2>1. call \in [Callers -> Calls]
      BY DEF Init, NoCall, Calls
    <2>2. pc \in [Tasks -> Places] /\ running \in Nat
      BY DEF Init, Places
    <2>3. spurious \in 0..MaxSpurious
      BY ExecutorAssumption DEF Init
    <2> QED
      BY <2>1, <2>2, <2>3 DEF Init, TypeOK
  <1>2. CallInv /\ OwnedInv /\ CloseInv /\ MainInv /\ StatusInv /\ JoinInv
    <2>1. \A c \in Callers : call[c] = NoCall /\ ~InCall(c)
      <3> SUFFICES ASSUME NEW c \in Callers PROVE call[c] = NoCall /\ ~InCall(c)
        OBVIOUS
      <3>1. call[c] = NoCall
        BY DEF Init
      <3>2. call[c].at = "none"
        BY <3>1 DEF NoCall
      <3> QED
        BY <3>1, <3>2 DEF InCall
    <2>2. CallInv /\ OwnedInv
      <3>1. CallInv
        BY <2>1 DEF CallInv
      <3>2. \A t \in Tasks : pc[t] = "new"
        BY DEF Init
      <3>3. \A c \in Tasks : ~InCall(c)
        <4>1. Tasks \subseteq Callers
          BY DEF Callers
        <4> QED
          BY <2>1, <4>1
      <3> QED
        BY <3>1, <3>2, <3>3 DEF OwnedInv
    <2> QED
      BY <2>2 DEF Init, CloseInv, MainInv, StatusInv, JoinInv, Holding
  <1>3. Counted = {}
    BY DEF Counted, Init
  <1>4. CountInv
    BY <1>3, FS_EmptySet DEF CountInv, Init
  <1> QED
    BY <1>1, <1>2, <1>4 DEF IInv

(* Every variable keeps its type.                                          *)
LEMMA TypeStep == TypeOK /\ CallInv /\ CountInv /\ [Next]_vars => TypeOK'
  <1> SUFFICES ASSUME TypeOK, CallInv, CountInv, [Next]_vars PROVE TypeOK'
    OBVIOUS
  <1> USE DEF TypeOK, executor, synchronizer, Callers, Calls, Places, NoCall
  <1>1. ASSUME NEW c \in Callers, NEW t \in Tasks, Schedule(c, t) PROVE TypeOK'
    BY <1>1 DEF Schedule
  <1>2. ASSUME NEW c \in Callers, NEW t \in Tasks, TakeOwnership(c, t) PROVE TypeOK'
    <2>1. CASE ~open /\ terminated' = TRUE /\ UNCHANGED call
      BY <1>2, <2>1 DEF TakeOwnership
    <2>2. CASE /\ open /\ call' = [call EXCEPT ![c] = [at |-> "wait", kind |-> "own", arg |-> t]]
               /\ UNCHANGED terminated
      <3>1. call' \in [Callers -> Calls]
        BY <2>2
      <3> QED
        BY <1>2, <2>2, <3>1 DEF TakeOwnership
    <2> QED
      BY <1>2, <2>1, <2>2 DEF TakeOwnership
  <1>3. ASSUME NEW c \in Callers, LockThreads(c) PROVE TypeOK'
    BY <1>3 DEF LockThreads
  <1>4. ASSUME NEW c \in Callers, AddThread(c) PROVE TypeOK'
    <2>1. call[c].arg \in Tasks
      BY <1>4 DEF AddThread, CallInv, InCall
    <2> QED
      BY ZenonT(40), <1>4, <2>1 DEF AddThread
  <1>5. ASSUME NEW t \in Tasks, OnClose(t) PROVE TypeOK'
    BY <1>5 DEF OnClose
  <1>6. CASE Close \/ HandlersDone \/ CloseLocks \/ CloseJoins
    BY ZenonT(40), <1>6 DEF Close, HandlersDone, CloseLocks, CloseJoins
  <1>7. ASSUME NEW t \in Tasks, InvokeHandler(t) PROVE TypeOK'
    BY <1>7 DEF InvokeHandler
  <1>8. ASSUME NEW t \in Tasks, NotifyBegin(t) PROVE TypeOK'
    <2>1. running' \in Nat /\ late' \in SUBSET Tasks
      BY <1>8, CountUp DEF NotifyBegin
    <2> QED
      BY <1>8, <2>1 DEF NotifyBegin, Moves
  <1>9. ASSUME NEW t \in Tasks, NotifyEnd(t) PROVE TypeOK'
    <2>1. running' \in Nat
      BY <1>9, CountDown
    <2> QED
      BY <1>9, <2>1 DEF NotifyEnd, Moves
  <1>10. ASSUME NEW t \in Tasks,
                LockStatus(t) \/ TestJoin(t) \/ BareEnds(t) \/ WorkEnds(t) \/ ResetStatus(t)
         PROVE  TypeOK'
    BY <1>10 DEF LockStatus, TestJoin, BareEnds, WorkEnds, ResetStatus, Moves
  <1>11. ASSUME NEW t \in Tasks, Skip(t) \/ NotifyOne(t) PROVE TypeOK'
    <2>1. notified' \in BOOLEAN /\ missed' \in BOOLEAN
      BY <1>11 DEF Skip, NotifyOne
    <2> QED
      BY <1>11, <2>1 DEF Skip, NotifyOne, Moves
  <1>12. CASE Join \/ Sleep
    BY <1>12 DEF Join, Sleep
  <1>13. CASE WakeUp
    <2>1. spurious' \in 0..MaxSpurious
      BY <1>13, ExecutorAssumption DEF WakeUp
    <2> QED
      BY <1>13, <2>1 DEF WakeUp
  <1>14. CASE TestCount \/ TestExpired
    <2>1. /\ joining' \in {"joined", "expires", "sleeps"} /\ syncMutex' \in {Owner, NoThread}
          /\ late' \in SUBSET Tasks
      BY <1>14 DEF TestCount, TestExpired
    <2> QED
      BY <1>14, <2>1 DEF TestCount, TestExpired
  <1>15. CASE UNCHANGED vars
    BY <1>15 DEF vars
  <1> QED
    BY <1>1, <1>2, <1>3, <1>4, <1>5, <1>6, <1>7, <1>8, <1>9, <1>10, <1>11, <1>12, <1>13, <1>14,
       <1>15
    DEF Next, CallStep, TaskStep, CloseStep

-----------------------------------------------------------------------------
(* A call's task is new and nobody else's, a caller is at work.            *)

(* At most one call is about to start a given task's thread.               *)
LEMMA CallKept == TypeOK /\ CallInv /\ [Next]_vars => CallInv'
  <1> SUFFICES ASSUME TypeOK, CallInv, [Next]_vars PROVE CallInv'
    OBVIOUS
  <1> USE DEF executor, synchronizer, InCall, CallInv
  <1>1. ASSUME NEW c \in Callers, NEW t \in Tasks, Schedule(c, t) PROVE CallInv'
    <2>1. call' = [call EXCEPT ![c] = [at |-> "wait", kind |-> "schedule", arg |-> t]]
          /\ UNCHANGED <<pc, handlers>> /\ call \in [Callers -> Calls]
      BY <1>1 DEF Schedule, TypeOK
    <2>2. /\ call[c] = NoCall /\ pc[t] = "new" /\ t \notin handlers
          /\ \A d \in Callers : call[d].arg # t
      BY <1>1 DEF Schedule, IsNew, CanCall
    <2>3. call[c].at = "none" /\ call[c].arg \notin Tasks
      BY <2>2, ExecutorAssumption DEF NoCall
    <2>4. call'[c] = [at |-> "wait", kind |-> "schedule", arg |-> t]
          /\ \A d \in Callers \ {c} : call'[d] = call[d]
      BY <2>1
    <2> QED
      BY <2>1, <2>2, <2>3, <2>4
  <1>2. ASSUME NEW c \in Callers, NEW t \in Tasks, TakeOwnership(c, t) PROVE CallInv'
    BY <1>2 DEF TakeOwnership, TypeOK, IsNew, CanCall, NoCall, Callers
  <1>3. ASSUME NEW c \in Callers, LockThreads(c) PROVE CallInv'
    BY <1>3 DEF LockThreads, TypeOK, Calls
  <1>4. ASSUME NEW c \in Callers, AddThread(c) PROVE CallInv'
    BY <1>4, ExecutorAssumption DEF AddThread, TypeOK, NoCall
  <1>5. ASSUME NEW t \in Tasks, OnClose(t) PROVE CallInv'
    BY <1>5 DEF OnClose, IsNew
  <1>6. CASE Close \/ HandlersDone \/ CloseLocks \/ CloseJoins
    BY <1>6 DEF Close, HandlersDone, CloseLocks, CloseJoins
  <1>7. ASSUME NEW t \in Tasks, InvokeHandler(t) PROVE CallInv'
    BY <1>7 DEF InvokeHandler, TypeOK
  <1>8. ASSUME NEW t \in Tasks, TaskStep(t) PROVE CallInv'
    <2>1. /\ UNCHANGED <<handlers, call>> /\ pc[t] # "new"
          /\ \E place \in Places : pc' = [pc EXCEPT ![t] = place]
      BY <1>8 DEF TaskStep, LockStatus, TestJoin, Skip, NotifyBegin, BareEnds, WorkEnds,
                  ResetStatus, NotifyEnd, NotifyOne, At, Moves, Places
    <2> QED
      BY <2>1 DEF TypeOK
  <1>9. CASE Join \/ TestCount \/ TestExpired \/ Sleep \/ WakeUp \/ UNCHANGED vars
    BY <1>9 DEF Join, TestCount, TestExpired, Sleep, WakeUp, vars
  <1> QED
    BY <1>1, <1>2, <1>3, <1>4, <1>5, <1>6, <1>7, <1>8, <1>9 DEF Next, CallStep, CloseStep

-----------------------------------------------------------------------------
(* Who owns the threads that run.                                          *)

(* A step of a task's thread moves that task alone, never back to its      *)
(* beginning.                                                              *)
LEMMA TaskMoves ==
    ASSUME TypeOK, CallInv, NEW t \in Tasks, TaskStep(t)
    PROVE  /\ UNCHANGED <<executor, call>> /\ ~terminated /\ pc[t] \notin {"new", "done"}
           /\ \E place \in Places \ {"new", "bare"} :
                 /\ pc' = [pc EXCEPT ![t] = place]
                 /\ pc[t] = "bare" => place = "done"
           /\ pc[t] = "work" => call[t] = NoCall
  BY DEF TaskStep, LockStatus, TestJoin, Skip, NotifyBegin, BareEnds, WorkEnds, ResetStatus,
         NotifyEnd, NotifyOne, At, Moves, Places

(* A task that calls the executor is at work on a thread the executor      *)
(* owns.                                                                   *)
LEMMA CallerOwned ==
    ASSUME TypeOK, OwnedInv, NEW c \in Tasks, CanCall(c)
    PROVE  pc[c] = "work" /\ c \in threads
  BY ExecutorAssumption DEF CanCall, OwnedInv

(* Every thread that runs is the executor's, a handler, or being handed    *)
(* over.                                                                   *)
LEMMA OwnedKept == TypeOK /\ CallInv /\ OwnedInv /\ [Next]_vars => OwnedInv'
  <1> SUFFICES ASSUME TypeOK, CallInv, OwnedInv, [Next]_vars PROVE OwnedInv'
    OBVIOUS
  <1> USE DEF executor, synchronizer, InCall
  <1>0. Tasks \subseteq Callers
    BY DEF Callers
  <1>1. ASSUME NEW c \in Callers, NEW t \in Tasks, Schedule(c, t) PROVE OwnedInv'
    <2>1. call' = [call EXCEPT ![c] = [at |-> "wait", kind |-> "schedule", arg |-> t]]
          /\ UNCHANGED <<pc, threads, handlers, terminated>> /\ ~terminated /\ call[c] = NoCall
      BY <1>1 DEF Schedule, CanCall
    <2>2. c \in Tasks => pc[c] = "work" /\ c \in threads
      BY <1>1, CallerOwned DEF Schedule
    <2>3. call[c].at = "none"
      BY <2>1 DEF NoCall
    <2>4. \A d \in Callers \ {c} : call'[d] = call[d]
      BY <2>1 DEF TypeOK
    <2>5. ASSUME NEW u \in Tasks, Handed(u) PROVE Handed(u)'
      BY <2>3, <2>4, <2>5, <1>0 DEF Handed
    <2> QED
      BY <2>1, <2>2, <2>4, <2>5, <1>0 DEF OwnedInv
  <1>2. ASSUME NEW c \in Callers, NEW t \in Tasks, TakeOwnership(c, t) PROVE OwnedInv'
    <2> SUFFICES ASSUME ~terminated' PROVE OwnedInv'
      BY DEF OwnedInv
    <2>1. /\ call' = [call EXCEPT ![c] = [at |-> "wait", kind |-> "own", arg |-> t]]
          /\ pc' = [pc EXCEPT ![t] = "bare"] /\ pc[t] = "new"
          /\ UNCHANGED <<threads, handlers>> /\ ~terminated /\ call[c] = NoCall
      BY <1>2 DEF TakeOwnership, CanCall, IsNew
    <2>2. c \in Tasks => pc[c] = "work" /\ c \in threads
      BY <1>2, <2>1, CallerOwned DEF TakeOwnership
    <2>3. call[c].at = "none"
      BY <2>1 DEF NoCall
    <2>4. /\ call'[c] = [at |-> "wait", kind |-> "own", arg |-> t]
          /\ \A d \in Callers \ {c} : call'[d] = call[d]
      BY <2>1 DEF TypeOK
    <2>5. ASSUME NEW u \in Tasks, Handed(u) PROVE Handed(u)'
      BY <2>3, <2>4, <2>5, <1>0 DEF Handed
    <2>6. Handed(t)'
      BY <2>1, <2>4 DEF Handed
    <2>7. pc'[t] = "bare" /\ \A u \in Tasks \ {t} : pc'[u] = pc[u]
      BY <2>1 DEF TypeOK
    <2> QED
      BY <2>1, <2>2, <2>4, <2>5, <2>6, <2>7, <1>0 DEF OwnedInv
  <1>3. ASSUME NEW c \in Callers, LockThreads(c) PROVE OwnedInv'
    <2>1. /\ UNCHANGED <<pc, threads, handlers, terminated>> /\ call[c].at = "wait"
          /\ call' = [call EXCEPT ![c].at = "locked"]
      BY <1>3 DEF LockThreads
    <2>2. /\ call'[c].at = "locked" /\ call'[c].kind = call[c].kind /\ call'[c].arg = call[c].arg
          /\ \A d \in Callers \ {c} : call'[d] = call[d]
      BY <2>1 DEF TypeOK, Calls
    <2>3. \A d \in Callers : InCall(d)' = InCall(d)
      BY <2>1, <2>2
    <2>4. ASSUME NEW u \in Tasks, Handed(u) PROVE Handed(u)'
      BY <2>2, <2>3, <2>4, <1>0 DEF Handed
    <2> QED
      BY <2>1, <2>3, <2>4, <1>0 DEF OwnedInv
  <1>4. ASSUME NEW c \in Callers, AddThread(c) PROVE OwnedInv'
    <2> SUFFICES ASSUME ~terminated' PROVE OwnedInv'
      BY DEF OwnedInv
    <2> DEFINE t == call[c].arg
    <2>1. /\ call[c].at = "locked" /\ call' = [call EXCEPT ![c] = NoCall] /\ ~terminated
          /\ UNCHANGED handlers /\ t \in Tasks
      BY <1>4 DEF AddThread, CallInv
    <2>2. call'[c].at = "none" /\ \A d \in Callers \ {c} : call'[d] = call[d]
      BY <2>1 DEF TypeOK, NoCall
    <2>3. ASSUME NEW u \in Tasks, Handed(u), u # t PROVE Handed(u)'
      BY <2>2, <2>3, <1>0 DEF Handed
    <2>4. CASE open
      <3>1. /\ threads' = threads \cup {t}
            /\ pc' = IF call[c].kind = "schedule" THEN [pc EXCEPT ![t] = "enter"] ELSE pc
        BY <1>4, <2>4 DEF AddThread
      <3>2. \A u \in Tasks \ {t} : pc'[u] = pc[u]
        BY <3>1 DEF TypeOK
      <3>3. \A d \in Tasks : InCall(d)' => InCall(d) /\ pc'[d] = pc[d]
        <4>1. SUFFICES ASSUME NEW d \in Tasks, InCall(d)' PROVE InCall(d) /\ pc'[d] = pc[d]
          OBVIOUS
        <4>2. InCall(d)
          BY <4>1, <2>2, <1>0
        <4>3. d # t \/ call[c].kind # "schedule"
          BY <4>2, <2>1 DEF CallInv, OwnedInv
        <4> QED
          BY <4>2, <4>3, <3>1, <3>2
      <3> QED
        BY <2>1, <2>3, <3>1, <3>2, <3>3 DEF OwnedInv
    <2>5. CASE ~open
      <3>1. UNCHANGED <<threads, pc>> /\ call[c].kind # "own"
        BY <1>4, <2>5 DEF AddThread
      <3>2. ASSUME NEW u \in Tasks, Handed(u) PROVE Handed(u)'
        BY <2>2, <3>1, <3>2, <1>0 DEF Handed
      <3>3. \A d \in Tasks : InCall(d)' => InCall(d)
        BY <2>2, <1>0
      <3> QED
        BY <2>1, <3>1, <3>2, <3>3 DEF OwnedInv
    <2> QED
      BY <2>4, <2>5
  <1>5. ASSUME NEW t \in Tasks, OnClose(t) PROVE OwnedInv'
    BY <1>5 DEF OnClose, OwnedInv, Handed
  <1>6. CASE Close \/ HandlersDone \/ CloseLocks
    BY <1>6 DEF Close, HandlersDone, CloseLocks, OwnedInv, Handed
  <1>7. CASE CloseJoins
    <2>1. /\ ~terminated /\ \A t \in threads : pc[t] = "done"
          /\ UNCHANGED <<pc, call, handlers>>
      BY <1>7 DEF CloseJoins
    <2>2. \A c \in Tasks : ~InCall(c)
      BY <2>1 DEF OwnedInv
    <2> QED
      BY <2>1, <2>2 DEF OwnedInv, Handed
  <1>8. ASSUME NEW t \in Tasks, InvokeHandler(t) PROVE OwnedInv'
    <2>1. /\ t \in handlers /\ pc[t] = "new" /\ pc' = [pc EXCEPT ![t] = "enter"] /\ ~terminated
          /\ UNCHANGED <<executor, call>>
      BY <1>8 DEF InvokeHandler
    <2>2. \A u \in Tasks \ {t} : pc'[u] = pc[u]
      BY <2>1 DEF TypeOK
    <2>3. ~InCall(t)
      BY <2>1 DEF OwnedInv
    <2> QED
      BY <2>1, <2>2, <2>3 DEF OwnedInv, Handed
  <1>9. ASSUME NEW t \in Tasks, TaskStep(t) PROVE OwnedInv'
    <2>1. PICK place \in Places \ {"new", "bare"} :
             pc' = [pc EXCEPT ![t] = place] /\ (pc[t] = "bare" => place = "done")
      BY <1>9, TaskMoves
    <2>2. /\ UNCHANGED <<executor, call>> /\ ~terminated /\ pc[t] \notin {"new", "done"}
          /\ (pc[t] = "work" => call[t] = NoCall)
      BY <1>9, TaskMoves
    <2>3. pc'[t] = place /\ \A u \in Tasks \ {t} : pc'[u] = pc[u]
      BY <2>1 DEF TypeOK
    <2>4. ~InCall(t)
      BY <2>2 DEF OwnedInv, NoCall
    <2> QED
      BY <2>1, <2>2, <2>3, <2>4 DEF OwnedInv, Handed
  <1>10. CASE Join \/ TestCount \/ TestExpired \/ Sleep \/ WakeUp \/ UNCHANGED vars
    BY <1>10 DEF Join, TestCount, TestExpired, Sleep, WakeUp, vars, OwnedInv, Handed
  <1> QED
    BY <1>1, <1>2, <1>3, <1>4, <1>5, <1>6, <1>7, <1>8, <1>9, <1>10 DEF Next, CallStep, CloseStep

-----------------------------------------------------------------------------
(* What closing has done so far.                                           *)

(* close() goes on only when the handlers have ended and ends with no      *)
(* thread left.                                                            *)
LEMMA CloseKept == TypeOK /\ CallInv /\ CloseInv /\ [Next]_vars => CloseInv'
  <1> SUFFICES ASSUME TypeOK, CallInv, CloseInv, [Next]_vars PROVE CloseInv'
    OBVIOUS
  <1> USE DEF executor, synchronizer, CloseInv
  <1>1. ASSUME NEW c \in Callers, NEW t \in Tasks, Schedule(c, t) PROVE CloseInv'
    BY <1>1 DEF Schedule
  <1>2. ASSUME NEW c \in Callers, NEW t \in Tasks, TakeOwnership(c, t) PROVE CloseInv'
    BY <1>2 DEF TakeOwnership, IsNew, TypeOK
  <1>3. ASSUME NEW c \in Callers, LockThreads(c) PROVE CloseInv'
    BY <1>3 DEF LockThreads
  <1>4. ASSUME NEW c \in Callers, AddThread(c) PROVE CloseInv'
    <2>1. call[c].arg \in Tasks \ handlers
      BY <1>4 DEF AddThread, CallInv, InCall
    <2> QED
      BY <1>4, <2>1 DEF AddThread, TypeOK
  <1>5. ASSUME NEW t \in Tasks, OnClose(t) PROVE CloseInv'
    BY <1>5 DEF OnClose
  <1>6. CASE Close \/ HandlersDone \/ CloseLocks \/ CloseJoins
    BY <1>6 DEF Close, HandlersDone, CloseLocks, CloseJoins
  <1>7. ASSUME NEW t \in Tasks, InvokeHandler(t) PROVE CloseInv'
    BY <1>7 DEF InvokeHandler
  <1>8. ASSUME NEW t \in Tasks, TaskStep(t) PROVE CloseInv'
    <2>1. PICK place \in Places \ {"new", "bare"} : pc' = [pc EXCEPT ![t] = place]
      BY <1>8, TaskMoves
    <2>2. UNCHANGED executor /\ pc[t] # "done"
      BY <1>8, TaskMoves
    <2> QED
      BY <2>1, <2>2 DEF TypeOK
  <1>9. CASE Join \/ TestCount \/ TestExpired \/ Sleep \/ WakeUp \/ UNCHANGED vars
    BY <1>9 DEF Join, TestCount, TestExpired, Sleep, WakeUp, vars
  <1> QED
    BY <1>1, <1>2, <1>3, <1>4, <1>5, <1>6, <1>7, <1>8, <1>9 DEF Next, CallStep, CloseStep

(* The main thread calls nothing once it closes the executor.              *)
LEMMA MainKept == TypeOK /\ MainInv /\ [Next]_vars => MainInv'
  <1> SUFFICES ASSUME TypeOK, MainInv, [Next]_vars PROVE MainInv'
    OBVIOUS
  <1> USE DEF executor, synchronizer, MainInv
  <1>0. Main \notin Tasks /\ Main # Owner /\ Main \in Callers /\ call \in [Callers -> Calls]
    BY ExecutorAssumption DEF TypeOK, Callers
  <1>1. ASSUME NEW c \in Callers, NEW t \in Tasks, Schedule(c, t) \/ TakeOwnership(c, t)
        PROVE  MainInv'
    <2>1. UNCHANGED closing /\ CanCall(c)
      BY <1>1 DEF Schedule, TakeOwnership
    <2>2. c = Main => closing = "no"
      BY <1>0, <2>1 DEF CanCall
    <2>3. \/ UNCHANGED call
          \/ call' = [call EXCEPT ![c] = [at |-> "wait", kind |-> "schedule", arg |-> t]]
          \/ call' = [call EXCEPT ![c] = [at |-> "wait", kind |-> "own", arg |-> t]]
      BY <1>1 DEF Schedule, TakeOwnership
    <2>4. c # Main => call'[Main] = call[Main]
      BY <1>0, <2>3
    <2> QED
      BY <2>1, <2>2, <2>4
  <1>2. ASSUME NEW c \in Callers, CallStep(c) PROVE MainInv'
    <2>1. UNCHANGED closing /\ call[c].at # "none"
      BY <1>2 DEF CallStep, LockThreads, AddThread
    <2>2. c = Main => closing = "no"
      BY <2>1 DEF NoCall
    <2>3. call' = [call EXCEPT ![c].at = "locked"] \/ call' = [call EXCEPT ![c] = NoCall]
      BY <1>2 DEF CallStep, LockThreads, AddThread
    <2>4. c # Main => call'[Main] = call[Main]
      BY <1>0, <2>3
    <2> QED
      BY <2>1, <2>2, <2>4
  <1>3. ASSUME NEW t \in Tasks, OnClose(t) \/ InvokeHandler(t) \/ TaskStep(t) PROVE MainInv'
    <2>1. OnClose(t) => UNCHANGED <<call, closing>>
      BY DEF OnClose
    <2>2. InvokeHandler(t) => UNCHANGED <<call, closing>>
      BY DEF InvokeHandler
    <2>3. TaskStep(t) => UNCHANGED <<call, closing>>
      BY DEF TaskStep, LockStatus, TestJoin, Skip, NotifyBegin, BareEnds, WorkEnds, ResetStatus,
             NotifyEnd, NotifyOne
    <2> QED
      BY <1>3, <2>1, <2>2, <2>3
  <1>4. CASE Close \/ HandlersDone \/ CloseLocks \/ CloseJoins
    BY <1>4 DEF Close, HandlersDone, CloseLocks, CloseJoins
  <1>5. CASE Join \/ TestCount \/ TestExpired \/ Sleep \/ WakeUp \/ UNCHANGED vars
    BY <1>5 DEF Join, TestCount, TestExpired, Sleep, WakeUp, vars
  <1> QED
    BY <1>1, <1>2, <1>3, <1>4, <1>5 DEF Next, CloseStep

-----------------------------------------------------------------------------
(* What callers and close() do to the tasks disturbs neither the Status    *)
(* nor the count.                                                          *)

Outside ==
    \/ \E c \in Callers, t \in Tasks : Schedule(c, t) \/ TakeOwnership(c, t)
    \/ \E c \in Callers : CallStep(c)
    \/ \E t \in Tasks : OnClose(t)
    \/ Close \/ CloseStep

(* Calls of schedule() and take_ownership() and the steps of close() leave *)
(* the synchronizer alone.                                                 *)
LEMMA OutsideKeeps ==
    ASSUME TypeOK, CallInv, Outside
    PROVE  /\ UNCHANGED synchronizer
           /\ \A t \in Tasks : pc'[t] = pc[t] \/ (pc[t] = "new" /\ pc'[t] \in {"bare", "enter"})
  <1> DEFINE Quiet == /\ UNCHANGED synchronizer
                      /\ \A t \in Tasks : \/ pc'[t] = pc[t]
                                          \/ pc[t] = "new" /\ pc'[t] \in {"bare", "enter"}
  <1>1. ASSUME NEW c \in Callers, NEW t \in Tasks, Schedule(c, t) PROVE Quiet
    BY <1>1 DEF Schedule
  <1>2. ASSUME NEW c \in Callers, NEW t \in Tasks, TakeOwnership(c, t) PROVE Quiet
    BY <1>2 DEF TakeOwnership, IsNew, TypeOK
  <1>3. ASSUME NEW c \in Callers, LockThreads(c) PROVE Quiet
    BY <1>3 DEF LockThreads
  <1>4. ASSUME NEW c \in Callers, AddThread(c) PROVE Quiet
    <2>1. call[c].kind = "schedule" => pc[call[c].arg] = "new"
      BY <1>4 DEF AddThread, CallInv, InCall
    <2> QED
      BY <1>4, <2>1 DEF AddThread, TypeOK
  <1>5. ASSUME NEW t \in Tasks, OnClose(t) PROVE Quiet
    BY <1>5 DEF OnClose
  <1>6. CASE Close \/ HandlersDone \/ CloseLocks \/ CloseJoins
    BY <1>6 DEF Close, HandlersDone, CloseLocks, CloseJoins
  <1>7. ASSUME NEW t \in Tasks, InvokeHandler(t) PROVE Quiet
    BY <1>7 DEF InvokeHandler, TypeOK
  <1> QED
    BY <1>1, <1>2, <1>3, <1>4, <1>5, <1>6, <1>7 DEF Outside, CallStep, CloseStep

(* A task holds its Status from the test of it until after its body.       *)
LEMMA StatusKept == TypeOK /\ CallInv /\ StatusInv /\ [Next]_vars => StatusInv'
  <1> SUFFICES ASSUME TypeOK, CallInv, StatusInv, [Next]_vars PROVE StatusInv'
    OBVIOUS
  <1> USE DEF StatusInv, Holding
  <1>1. CASE Outside
    <2>1. UNCHANGED status
      BY <1>1, OutsideKeeps DEF synchronizer
    <2> QED
      BY <1>1, <2>1, OutsideKeeps
  <1>2. ASSUME NEW t \in Tasks, TaskStep(t) PROVE StatusInv'
    BY <1>2 DEF TaskStep, LockStatus, TestJoin, Skip, NotifyBegin, BareEnds, WorkEnds, ResetStatus,
                NotifyEnd, NotifyOne, At, Moves, TypeOK, synchronizer
  <1>3. CASE Join
    BY <1>3, ExecutorAssumption DEF Join
  <1>4. CASE TestCount \/ TestExpired \/ Sleep \/ WakeUp
    BY <1>4 DEF TestCount, TestExpired, Sleep, WakeUp
  <1>5. CASE UNCHANGED vars
    BY <1>5 DEF vars, synchronizer
  <1> QED
    BY <1>1, <1>2, <1>3, <1>4, <1>5 DEF Next, Outside

(* The count is the number of tasks between its two changes.               *)
LEMMA CountKept == TypeOK /\ CallInv /\ CountInv /\ [Next]_vars => CountInv'
  <1> SUFFICES ASSUME TypeOK, CallInv, CountInv, [Next]_vars PROVE CountInv'
    OBVIOUS
  <1>0. Counted' = Counted /\ UNCHANGED running => CountInv'
    BY DEF CountInv
  <1>1. CASE Outside
    <2>1. UNCHANGED running
      BY <1>1, OutsideKeeps DEF synchronizer
    <2>2. Counted' = Counted
      BY <1>1, OutsideKeeps DEF Counted
    <2> QED
      BY <1>0, <2>1, <2>2
  <1>2. ASSUME NEW t \in Tasks, NotifyBegin(t) PROVE CountInv'
    BY <1>2, CountUp
  <1>3. ASSUME NEW t \in Tasks, NotifyEnd(t) PROVE CountInv'
    BY <1>3, CountDown
  <1>4. ASSUME NEW t \in Tasks,
               \/ LockStatus(t) \/ TestJoin(t) \/ Skip(t) \/ WorkEnds(t) \/ BareEnds(t)
               \/ ResetStatus(t) \/ NotifyOne(t)
        PROVE  CountInv'
    <2>1. /\ UNCHANGED running
          /\ \E place \in Places : /\ pc' = [pc EXCEPT ![t] = place]
                                   /\ (pc[t] \in {"work", "release", "end"}) =
                                        (place \in {"work", "release", "end"})
      BY <1>4 DEF LockStatus, TestJoin, Skip, WorkEnds, BareEnds, ResetStatus, NotifyOne, At, Moves,
                  Places, synchronizer
    <2>2. Counted' = Counted
      BY <2>1 DEF Counted, TypeOK
    <2> QED
      BY <1>0, <2>1, <2>2
  <1>5. CASE Join \/ TestCount \/ TestExpired \/ Sleep \/ WakeUp \/ UNCHANGED vars
    <2>1. UNCHANGED <<running, pc>>
      BY <1>5 DEF Join, TestCount, TestExpired, Sleep, WakeUp, vars, synchronizer
    <2> QED
      BY <1>0, <2>1 DEF Counted
  <1> QED
    BY <1>1, <1>2, <1>3, <1>4, <1>5 DEF Next, Outside, TaskStep

(* After join_tasks() nobody holds the Status, so nobody can get it again, *)
(* and no task is counted that was when the count was read.                *)
LEMMA JoinKept ==
    TypeOK /\ CallInv /\ StatusInv /\ CountInv /\ JoinInv /\ [Next]_vars => JoinInv'
  <1> SUFFICES ASSUME TypeOK, CallInv, StatusInv, CountInv, JoinInv, [Next]_vars PROVE JoinInv'
    OBVIOUS
  <1> USE DEF JoinInv
  <1>1. CASE Outside
    <2>1. UNCHANGED <<joining, status, late>>
      BY <1>1, OutsideKeeps DEF synchronizer
    <2>2. Counted' = Counted
      BY <1>1, OutsideKeeps DEF Counted
    <2> QED
      BY <2>1, <2>2
  <1>2. ASSUME NEW t \in Tasks, NotifyBegin(t) PROVE JoinInv'
    <2>1. t \in status /\ UNCHANGED <<joining, status>>
      BY <1>2 DEF NotifyBegin, At, StatusInv, Holding
    <2>2. Counted' = Counted \cup {t}
      BY <1>2 DEF NotifyBegin, At, Moves, Counted, TypeOK
    <2>3. joining = "expires" => late' = late \cup {t}
      BY <1>2 DEF NotifyBegin
    <2> QED
      BY <2>1, <2>2, <2>3
  <1>3. ASSUME NEW t \in Tasks,
               \/ LockStatus(t) \/ TestJoin(t) \/ Skip(t) \/ WorkEnds(t) \/ BareEnds(t)
               \/ ResetStatus(t) \/ NotifyEnd(t) \/ NotifyOne(t)
        PROVE  JoinInv'
    <2>1. UNCHANGED <<joining, late>>
      BY <1>3 DEF LockStatus, TestJoin, Skip, WorkEnds, BareEnds, ResetStatus, NotifyEnd, NotifyOne,
                  synchronizer
    <2>2. status = {} => status' = {}
      BY <1>3 DEF LockStatus, TestJoin, Skip, WorkEnds, BareEnds, ResetStatus, NotifyEnd, NotifyOne,
                  synchronizer
    <2>3. \/ pc' = [pc EXCEPT ![t] = "holds"] \/ pc' = [pc EXCEPT ![t] = "skip"]
          \/ pc' = [pc EXCEPT ![t] = "begin"] \/ pc' = [pc EXCEPT ![t] = "notify"]
          \/ pc' = [pc EXCEPT ![t] = "done"]
          \/ pc[t] = "work" /\ pc' = [pc EXCEPT ![t] = "release"]
          \/ pc[t] = "release" /\ pc' = [pc EXCEPT ![t] = "end"]
      BY <1>3 DEF LockStatus, TestJoin, Skip, WorkEnds, BareEnds, ResetStatus, NotifyEnd, NotifyOne,
                  At, Moves
    <2>4. Counted' \subseteq Counted
      BY <2>3 DEF Counted, TypeOK
    <2> QED
      BY <2>1, <2>2, <2>4
  <1>4. CASE TestCount
    <2>1. UNCHANGED <<pc, status, late>> /\ joining' \in {"expires", "sleeps"}
      BY <1>4 DEF TestCount
    <2>2. joining' = "expires" => Counted = {}
      BY <1>4, CountedFinite, FS_EmptySet DEF TestCount, CountInv
    <2> QED
      BY <2>1, <2>2 DEF Counted
  <1>5. CASE TestExpired
    BY <1>5 DEF TestExpired, Counted
  <1>6. CASE Join \/ Sleep \/ WakeUp
    BY <1>6 DEF Join, Sleep, WakeUp, Counted
  <1>7. CASE UNCHANGED vars
    BY <1>7 DEF vars, synchronizer, Counted
  <1> QED
    BY <1>1, <1>2, <1>3, <1>4, <1>5, <1>6, <1>7 DEF Next, Outside, TaskStep

-----------------------------------------------------------------------------
(* The parts together are inductive.                                       *)
LEMMA Invariance == Spec => []IInv
  <1>1. Init => IInv
    BY Initially
  <1>2. IInv /\ [Next]_vars => IInv'
    BY TypeStep, CallKept, OwnedKept, CloseKept, MainKept, StatusKept, CountKept, JoinKept DEF IInv
  <1> QED
    BY <1>1, <1>2, PTL DEF Spec

(* The executor and the synchronizer keep their types; in particular       *)
(* m_running_tasks never goes below zero.                                  *)
THEOREM TypeCorrect == Spec => []TypeOK
  <1>1. IInv => TypeOK
    BY DEF IInv
  <1> QED
    BY <1>1, Invariance, PTL

(* Once join_tasks() has returned, no synchronized callable is in its body *)
(* or will enter it, however many tasks there are and however they race    *)
(* with the destructor; those still to be uncounted began, and ran,        *)
(* between its two tests.                                                  *)
THEOREM NothingAfterJoin == Spec => []NoWorkAfterJoin
  <1>1. IInv => NoWorkAfterJoin
    <2> SUFFICES ASSUME IInv, joining = "joined", NEW t \in Tasks
                 PROVE  /\ pc[t] \notin {"begin", "work", "release"}
                        /\ pc[t] = "end" => t \in late
      BY DEF NoWorkAfterJoin
    <2>1. status = {} /\ Counted \subseteq late
      BY DEF IInv, JoinInv
    <2>2. pc[t] \notin Holding
      BY <2>1 DEF IInv, StatusInv
    <2> QED
      BY <2>1, <2>2 DEF Holding, Counted
  <1> QED
    BY <1>1, Invariance, PTL

(* Once close() has returned no thread runs on: neither one that was       *)
(* scheduled, nor a handler's, nor one that was handed over, whoever       *)
(* started it; only one that is being refused.                             *)
THEOREM NothingAfterClose == Spec => []NoThreadAfterClose
  <1>1. IInv => NoThreadAfterClose
    <2> SUFFICES ASSUME IInv, closing = "closed", ~terminated, NEW t \in Tasks
                 PROVE  pc[t] \in {"new", "done"} \/ HandingOver(Owner, t)
      BY DEF NoThreadAfterClose
    <2>1. threads = {} /\ (\A u \in handlers : pc[u] = "done") /\ ~InCall(Main)
      BY DEF IInv, CloseInv, MainInv, InCall, NoCall
    <2>2. Handed(t) => HandingOver(Owner, t)
      BY <2>1 DEF IInv, OwnedInv, Handed, HandingOver, Callers
    <2> QED
      BY <2>1, <2>2 DEF IInv, OwnedInv
  <1> QED
    BY <1>1, Invariance, PTL
=============================================================================
