-------------------------- MODULE DownloaderProofs --------------------------
(***************************************************************************)
(* Proofs about Downloader, for any set of requests, any mirrors and any   *)
(* limits: the inductive invariant of the batch loop and what it implies.  *)
(***************************************************************************)
EXTENDS Downloader, FiniteSetTheorems, WellFoundedInduction, TLAPS

-----------------------------------------------------------------------------
(***************************************************************************)
(* Mirror selection.                                                       *)
(***************************************************************************)

\* A non-empty set of indexes has a first element, so find_mirror() returns
\* one of the mirrors its predicate accepted.
LEMMA FirstInSet ==
  ASSUME NEW S, S \subseteq Nat, S # {}
  PROVE  First(S) \in S
<1>1. PICK x \in S : \A y \in S : ~(<<y, x>> \in OpToRel(<, Nat))
  BY NatLessThanWellFounded, WFMin
<1>2. OpToRel(<, Nat) = {p \in Nat \X Nat : p[1] < p[2]}
  BY DEF OpToRel
<1>3. ASSUME NEW y \in S
      PROVE  x <= y
  <2>1. ~(<<y, x>> \in {p \in Nat \X Nat : p[1] < p[2]})
    BY <1>1, <1>2
  <2> QED
    BY <2>1
<1> QED
  BY <1>3 DEF First

\* select_new_mirror() yields a mirror of the request's mirror set or none.
LEMMA SelectNewMirrorType ==
  ASSUME NEW r \in Requests, NEW tr, NEW st
  PROVE  SelectNewMirror(r, tr, st) \in Mirrors \union {NoMirror}
<1> DEFINE U == UntriedMirrors(r, tr, st)
           F == FallbackRounds(r, st)
           R == RoundMirrors(r, st, First(F))
<1>1. MirrorsOf[r] \in Seq(Mirrors) /\ Len(MirrorsOf[r]) \in Nat
  BY DownloaderAssumption
<1>2. \A i \in 1..Len(MirrorsOf[r]) : MirrorsOf[r][i] \in Mirrors
  BY <1>1
<1>3. CASE U # {}
  <2>1. U \subseteq Nat /\ U \subseteq 1..Len(MirrorsOf[r])
    BY <1>1 DEF UntriedMirrors
  <2>2. First(U) \in U
    BY <1>3, <2>1, FirstInSet
  <2> QED
    BY <1>2, <1>3, <2>1, <2>2 DEF SelectNewMirror
<1>4. CASE U = {} /\ F # {}
  <2>1. F \subseteq Nat
    BY DEF FallbackRounds
  <2>2. First(F) \in F
    BY <1>4, <2>1, FirstInSet
  <2>3. R # {} /\ R \subseteq Nat /\ R \subseteq 1..Len(MirrorsOf[r])
    <3>1. R # {}
      BY <2>2 DEF FallbackRounds
    <3> QED
      BY <3>1, <1>1 DEF RoundMirrors
  <2>4. First(R) \in R
    BY <2>3, FirstInSet
  <2> QED
    BY <1>2, <1>4, <2>3, <2>4 DEF SelectNewMirror
<1>5. CASE U = {} /\ F = {}
  BY <1>5 DEF SelectNewMirror
<1> QED
  BY <1>3, <1>4, <1>5

-----------------------------------------------------------------------------
(***************************************************************************)
(* Type correctness.                                                       *)
(***************************************************************************)

\* Starting or failing a transfer of an attempt gives an attempt.
LEMMA StartedAttemptType ==
  ASSUME NEW a \in Attempt
  PROVE  StartedAttempt(a) \in Attempt
<1>1. a.retries + 1 \in Nat /\ a.step + 1 \in Nat
  BY DEF Attempt
<1> QED
  BY <1>1 DEF Attempt, AttemptState, StartedAttempt

LEMMA FailedAttemptType ==
  ASSUME NEW a \in Attempt, NEW o
  PROVE  FailedAttempt(a, o) \in Attempt
<1>1. (IF o = "retriable" THEN "pending" ELSE a.wait) \in {"none", "pending", "elapsed"}
  BY DEF Attempt
<1> QED
  BY <1>1 DEF Attempt, AttemptState, FailedAttempt

\* An attempt in another state, or whose wait is over, is an attempt.
LEMMA StateUpdateType ==
  \A a \in Attempt, s \in AttemptState : [a EXCEPT !.state = s] \in Attempt
BY DEF Attempt

LEMMA WaitUpdateType == \A a \in Attempt : [a EXCEPT !.wait = "elapsed"] \in Attempt
BY DEF Attempt

\* A tracker whose attempt only changes its state keeps the types.
LEMMA SetStateType ==
  ASSUME TypeOK, NEW r \in Requests, NEW s \in AttemptState,
         attempt' = [attempt EXCEPT ![r].state = s]
  PROVE  attempt' \in [Requests -> Attempt]
<1>1. [attempt[r] EXCEPT !.state = s] \in Attempt
  BY StateUpdateType DEF TypeOK
<1> QED
  BY <1>1 DEF TypeOK

\* The types hold once the trackers are constructed.
LEMMA TypeInit == Init => TypeOK
<1> SUFFICES ASSUME Init
             PROVE  TypeOK
  OBVIOUS
<1>1. PICK n \in [Requests -> 0..3], sel \in [Requests -> Mirrors \union {NoMirror}] :
        /\ \A r \in Requests :
             /\ sel[r] = SelectNewMirror(r, {}, stats)
             /\ n[r] \in IF sel[r] = NoMirror THEN {0} ELSE StepCounts[sel[r]]
        /\ attempt = [r \in Requests |-> NewAttempt(sel[r], n[r])]
        /\ tried = [r \in Requests |-> {sel[r]} \ {NoMirror}]
        /\ tracker = [r \in Requests |->
                        IF sel[r] = NoMirror THEN "FAILED" ELSE "WAITING"]
        /\ result = [r \in Requests |->
                        IF sel[r] = NoMirror THEN "error" ELSE "none"]
  BY DEF Init
<1>2. attempt \in [Requests -> Attempt]
  <2>1. \A r \in Requests : NewAttempt(sel[r], n[r]) \in Attempt
    BY DEF NewAttempt, Attempt, AttemptState
  <2> QED
    BY <1>1, <2>1
<1>3. /\ tracker \in [Requests -> TrackerState]
      /\ tried \in [Requests -> SUBSET Mirrors]
      /\ result \in [Requests -> {"none", "success", "error", "stop"}]
  BY <1>1 DEF TrackerState
<1>4. stats \in [Mirrors -> MirrorStats]
  <2>1. PICK prior \in [Mirrors -> 0..PriorFailures] :
          stats = [m \in Mirrors |-> [running |-> 0, ok |-> 0, failed |-> prior[m]]]
    BY DEF Init
  <2>2. \A m \in Mirrors : prior[m] \in Nat
    BY <2>1, DownloaderAssumption
  <2> QED
    BY <2>1, <2>2 DEF MirrorStats
<1>5. waiting \in Int
  <2>1. IsFiniteSet({r \in Requests : tracker[r] = "WAITING"})
    BY FS_Subset, DownloaderAssumption
  <2> QED
    BY <2>1, FS_CardinalityType DEF Init
<1> QED
  BY <1>2, <1>3, <1>4, <1>5 DEF Init, TypeOK, Phases

\* The statistics keep their type when a transfer ends.
LEMMA TransferDoneType ==
  ASSUME TypeOK, NEW r \in Requests, NEW success \in BOOLEAN
  PROVE  TransferDone(r, success) \in [Mirrors -> MirrorStats]
<1> DEFINE m == attempt[r].mirror
           new == [running |-> stats[m].running - 1,
                   ok      |-> IF success /\ Recorded(r)
                               THEN stats[m].ok + 1 ELSE stats[m].ok,
                   failed  |-> IF ~success /\ Recorded(r)
                               THEN stats[m].failed + 1 ELSE stats[m].failed]
<1>1. m \in Mirrors => new \in MirrorStats
  <2> SUFFICES ASSUME m \in Mirrors PROVE new \in MirrorStats
    OBVIOUS
  <2>1. stats[m] \in MirrorStats
    BY DEF TypeOK
  <2>2. stats[m].running \in Int /\ stats[m].ok \in Nat /\ stats[m].failed \in Nat
    BY <2>1 DEF MirrorStats
  <2> QED
    BY <2>2 DEF MirrorStats
<1>2. TransferDone(r, success) = [stats EXCEPT ![m] = new]
  BY DEF TransferDone
<1>3. stats \in [Mirrors -> MirrorStats]
  BY DEF TypeOK
<1> HIDE DEF new, m
<1> QED
  BY <1>1, <1>2, <1>3

\* What a completion callback leaves behind has the right types.
LEMMA CompletedType ==
  ASSUME TypeOK, NEW r \in Requests, Completed(r)
  PROVE  /\ completion' \in SUBSET Requests
         /\ waiting' \in Int
         /\ result' \in [Requests -> {"none", "success", "error", "stop"}]
         /\ phase' \in Phases
BY DEF TypeOK, Completed, ResultOf

\* So does a message that reports a failure.
LEMMA FailingType ==
  ASSUME TypeOK, NEW r \in Requests, Failing(r)
  PROVE  /\ stats' \in [Mirrors -> MirrorStats]
         /\ file' \in [Requests -> {"absent", "partial", "whole"}]
         /\ msg' \in [Requests -> Outcome \union {"none"}]
         /\ sig' = sig /\ accepted' = accepted
BY TransferDoneType DEF TypeOK, Failing, Popped, CleanedFile

\* Every step of the batch keeps the types.
LEMMA TypeStep == TypeOK /\ [Next]_vars => TypeOK'
<1> SUFFICES ASSUME TypeOK, [Next]_vars
             PROVE  TypeOK'
  OBVIOUS
<1>1. CASE CheckLoop
  BY <1>1 DEF CheckLoop, TypeOK, Phases
<1>2. CASE RequestStop
  <2>1. \A r \in Requests : [attempt[r] EXCEPT !.state = "SEQUENCE_STOPPED"] \in Attempt
    BY StateUpdateType DEF TypeOK, AttemptState
  <2>2. attempt' \in [Requests -> Attempt]
    BY <1>2, <2>1 DEF RequestStop, TypeOK
  <2>3. waiting' \in Int
    <3>1. IsFiniteSet(ForceStopped)
      BY FS_Subset, DownloaderAssumption DEF ForceStopped
    <3> QED
      BY <1>2, <3>1, FS_CardinalityType DEF RequestStop, TypeOK
  <2> QED
    BY <1>2, <2>2, <2>3 DEF RequestStop, TypeOK, TrackerState, Phases
<1>3. ASSUME NEW r \in Requests, StartTransfer(r)
      PROVE  TypeOK'
  <2> DEFINE m == attempt[r].mirror
  <2>1. attempt' \in [Requests -> Attempt]
    BY <1>3, StartedAttemptType DEF StartTransfer, TypeOK
  <2>2. stats' \in [Mirrors -> MirrorStats]
    <3>1. m \in Mirrors => [stats[m] EXCEPT !.running = @ + 1] \in MirrorStats
      BY DEF TypeOK, MirrorStats
    <3>2. stats' = [stats EXCEPT ![m] = [stats[m] EXCEPT !.running = @ + 1]]
      BY <1>3 DEF StartTransfer
    <3> HIDE DEF m
    <3> QED
      BY <3>1, <3>2 DEF TypeOK
  <2> QED
    BY <1>3, <2>1, <2>2 DEF StartTransfer, TypeOK, TrackerState
<1>4. CASE PrepareDone
  BY <1>4 DEF PrepareDone, TypeOK, Phases
<1>5. ASSUME NEW r \in Requests, StepSucceeds(r)
      PROVE  TypeOK'
  <2>1. attempt' \in [Requests -> Attempt]
    BY <1>5, SetStateType DEF StepSucceeds, AttemptState
  <2>2. stats' \in [Mirrors -> MirrorStats]
    BY <1>5, TransferDoneType DEF StepSucceeds
  <2> QED
    BY <1>5, <2>1, <2>2, CompletedType DEF StepSucceeds, Popped, TypeOK, TrackerState
<1>6. ASSUME NEW r \in Requests, RequestSucceeds(r)
      PROVE  TypeOK'
  <2>1. attempt' \in [Requests -> Attempt]
    BY <1>6, SetStateType DEF RequestSucceeds, AttemptState
  <2>2. stats' \in [Mirrors -> MirrorStats]
    BY <1>6, TransferDoneType DEF RequestSucceeds
  <2>3. accepted' \in [Requests -> Nat] /\ tracker' \in [Requests -> TrackerState]
    BY <1>6 DEF RequestSucceeds, TypeOK, TrackerState
  <2>4. msg' \in [Requests -> Outcome \union {"none"}] /\ sig' \in BOOLEAN
    BY <1>6 DEF RequestSucceeds, Popped, TypeOK
  <2> QED
    BY <1>6, <2>1, <2>2, <2>3, <2>4, CompletedType DEF RequestSucceeds, TypeOK
<1>7. ASSUME NEW r \in Requests, RetryLater(r)
      PROVE  TypeOK'
  <2>1. attempt' \in [Requests -> Attempt]
    BY <1>7, FailedAttemptType DEF RetryLater, TypeOK
  <2> QED
    BY <1>7, <2>1, CompletedType, FailingType DEF RetryLater, TypeOK, TrackerState
<1>8. ASSUME NEW r \in Requests, SwitchMirror(r)
      PROVE  TypeOK'
  <2> DEFINE m == SelectNewMirror(r, tried[r], stats')
  <2>1. m \in Mirrors
    BY <1>8, SelectNewMirrorType DEF SwitchMirror
  <2>2. PICK n \in StepCounts[m] : attempt' = [attempt EXCEPT ![r] = NewAttempt(m, n)]
    BY <1>8 DEF SwitchMirror
  <2>3. NewAttempt(m, n) \in Attempt
    BY <2>1, <2>2, DownloaderAssumption DEF NewAttempt, Attempt, AttemptState
  <2>4. attempt' \in [Requests -> Attempt]
    BY <2>2, <2>3 DEF TypeOK
  <2>5. tried' \in [Requests -> SUBSET Mirrors]
    BY <1>8, <2>1 DEF SwitchMirror, TypeOK
  <2> QED
    BY <1>8, <2>4, <2>5, CompletedType, FailingType
    DEF SwitchMirror, TypeOK, TrackerState
<1>9. ASSUME NEW r \in Requests, GiveUp(r)
      PROVE  TypeOK'
  <2>1. attempt' \in [Requests -> Attempt] /\ tracker' \in [Requests -> TrackerState]
    BY <1>9, SetStateType DEF GiveUp, TypeOK, TrackerState, AttemptState
  <2>2. CASE ThrowsOnFailure(r)
    BY <1>9, <2>1, <2>2, FailingType DEF GiveUp, TypeOK, Phases
  <2>3. CASE ~ThrowsOnFailure(r)
    BY <1>9, <2>1, <2>3, FailingType, CompletedType DEF GiveUp, TypeOK
  <2> QED
    BY <2>2, <2>3
<1>10. ASSUME NEW r \in Requests, TransferStopped(r)
       PROVE  TypeOK'
  <2>1. attempt' \in [Requests -> Attempt]
    BY <1>10, SetStateType DEF TransferStopped, AttemptState
  <2> QED
    BY <1>10, <2>1 DEF TransferStopped, Popped, TypeOK, TrackerState
<1>11. CASE UpdateDone
  BY <1>11 DEF UpdateDone, TypeOK, Phases
<1>12. CASE DrainCheck
  BY <1>12 DEF DrainCheck, TypeOK, Phases
<1>13. CASE DrainAgain
  BY <1>13 DEF DrainAgain, TypeOK, Phases
<1>14. ASSUME NEW r \in Requests, CurlWrite(r)
       PROVE  TypeOK'
  BY <1>14 DEF CurlWrite, TypeOK
<1>15. ASSUME NEW r \in Requests, NEW o \in Outcome, CurlDone(r, o)
       PROVE  TypeOK'
  BY <1>15 DEF CurlDone, TypeOK, Outcome
<1>16. ASSUME NEW r \in Requests, RetryElapse(r)
       PROVE  TypeOK'
  <2>1. attempt' \in [Requests -> Attempt]
    BY <1>16, WaitUpdateType DEF RetryElapse, TypeOK
  <2> QED
    BY <1>16, <2>1 DEF RetryElapse, TypeOK
<1>17. CASE Interrupt
  BY <1>17 DEF Interrupt, TypeOK
<1>18. CASE UNCHANGED vars
  BY <1>18 DEF vars, TypeOK
<1> QED
  BY <1>1, <1>2, <1>3, <1>4, <1>5, <1>6, <1>7, <1>8, <1>9, <1>10, <1>11,
     <1>12, <1>13, <1>14, <1>15, <1>16, <1>17, <1>18
  DEF Next, DownloaderThread, HandleMessage, Terminated

\* Every variable keeps its type in every batch, for any requests, mirrors
\* and limits.
THEOREM TypeCorrect == Spec => []TypeOK
<1> QED
  BY TypeInit, TypeStep, PTL DEF Spec

-----------------------------------------------------------------------------
(***************************************************************************)
(* The inductive invariant of the batch loop.                              *)
(***************************************************************************)

\* An attempt that can go on: it has not started, it has steps left, or its
\* last transfer, which has a generator, is to be repeated.
Resumable(a) ==
  \/ a.state = "WAITING_SEQUENCE_START" /\ a.step = 0 /\ a.steps >= 1
  \/ a.state = "LAST_REQUEST_FINISHED" /\ a.step < a.steps
  \/ a.state = "LAST_REQUEST_FAILED" /\ a.step \in 1..a.steps

\* What the state of a tracker says of its attempt.
AttemptMatchesTracker ==
  \A r \in Requests :
    /\ tracker[r] = "WAITING" => attempt[r].mirror \in Mirrors /\ Resumable(attempt[r])
    /\ tracker[r] = "RUNNING" => attempt[r].mirror \in Mirrors
                                 /\ attempt[r].step \in 1..attempt[r].steps

\* Trackers are stopped, and transfers aborted, only once the loop drains.
StoppedOnlyDraining ==
  (\E r \in Requests : tracker[r] = "STOPPED" \/ msg[r] = "aborted")
    => phase \in {"drainCheck", "drain", "returned", "thrown"}

LoopInv ==
  /\ TypeOK
  /\ WaitingCountExact
  /\ CompletionMatchesRunning
  /\ ParallelismBounded
  /\ AttemptMatchesTracker
  /\ AcceptedOnce
  /\ StoppedOnlyDraining

\* The sets the loop counts are finite.
LEMMA FiniteSets ==
  ASSUME TypeOK
  PROVE  /\ IsFiniteSet(Active) /\ Cardinality(Active) \in Nat
         /\ IsFiniteSet(completion) /\ Cardinality(completion) \in Nat
<1>1. Active \in SUBSET Requests /\ completion \in SUBSET Requests
  BY DEF Active, TypeOK
<1>2. IsFiniteSet(Active) /\ IsFiniteSet(completion)
  BY <1>1, FS_Subset, DownloaderAssumption
<1> QED
  BY <1>2, FS_CardinalityType

\* How the number of active trackers follows one tracker's change of state.
LEMMA ActiveUpdate ==
  ASSUME TypeOK, NEW r \in Requests, NEW s \in TrackerState,
         tracker[r] \in {"WAITING", "RUNNING"},
         tracker' = [tracker EXCEPT ![r] = s]
  PROVE  Cardinality(Active') = IF s \in {"WAITING", "RUNNING"}
                                THEN Cardinality(Active)
                                ELSE Cardinality(Active) - 1
<1>1. CASE s \in {"WAITING", "RUNNING"}
  <2>1. Active' = Active
    BY <1>1 DEF Active, TypeOK
  <2> QED
    BY <1>1, <2>1
<1>2. CASE s \notin {"WAITING", "RUNNING"}
  <2>1. Active' = Active \ {r} /\ r \in Active
    BY <1>2 DEF Active, TypeOK
  <2> QED
    BY <1>2, <2>1, FS_RemoveElement, FiniteSets
<1> QED
  BY <1>1, <1>2

\* The accounting of update_downloads() after a callback that returned.
LEMMA AfterCallback ==
  ASSUME LoopInv, NEW r \in Requests, r \in completion, phase # "thrown",
         NEW s \in {"WAITING", "FINISHED", "FAILED", "STOPPED"},
         tracker' = [tracker EXCEPT ![r] = s],
         completion' = completion \ {r},
         waiting' = IF s = "WAITING" THEN waiting ELSE waiting - 1
  PROVE  WaitingCountExact' /\ CompletionMatchesRunning' /\ ParallelismBounded'
<1>1. tracker[r] = "RUNNING" /\ waiting = Cardinality(Active) /\ completion = Running
  BY DEF LoopInv, CompletionMatchesRunning, WaitingCountExact, Running
<1>2. WaitingCountExact'
  BY <1>1, ActiveUpdate DEF WaitingCountExact, TrackerState, LoopInv
<1>3. CompletionMatchesRunning'
  BY <1>1 DEF LoopInv, TypeOK, CompletionMatchesRunning, Running
<1>4. ParallelismBounded'
  <2>1. Cardinality(completion') = Cardinality(completion) - 1
    BY FS_RemoveElement, FiniteSets DEF LoopInv
  <2> QED
    BY <2>1, FiniteSets, DownloaderAssumption DEF LoopInv, ParallelismBounded
<1> QED
  BY <1>2, <1>3, <1>4

\* Nothing of the loop's accounting depends on what these steps change.
LEMMA AccountingUnchanged ==
  ASSUME LoopInv, UNCHANGED <<tracker, waiting, completion>>,
         phase # "thrown"
  PROVE  WaitingCountExact' /\ CompletionMatchesRunning' /\ ParallelismBounded'
BY DEF LoopInv, WaitingCountExact, CompletionMatchesRunning, ParallelismBounded,
       Active, Running

\* The loop starts with every constructed tracker waiting.
LEMMA LoopInit == Init => LoopInv
<1> SUFFICES ASSUME Init
             PROVE  LoopInv
  OBVIOUS
<1>1. TypeOK
  BY TypeInit
<1>2. PICK n \in [Requests -> 0..3], sel \in [Requests -> Mirrors \union {NoMirror}] :
        /\ \A r \in Requests :
             /\ sel[r] = SelectNewMirror(r, {}, stats)
             /\ n[r] \in IF sel[r] = NoMirror THEN {0} ELSE StepCounts[sel[r]]
        /\ attempt = [r \in Requests |-> NewAttempt(sel[r], n[r])]
        /\ tried = [r \in Requests |-> {sel[r]} \ {NoMirror}]
        /\ tracker = [r \in Requests |->
                        IF sel[r] = NoMirror THEN "FAILED" ELSE "WAITING"]
        /\ result = [r \in Requests |->
                        IF sel[r] = NoMirror THEN "error" ELSE "none"]
  BY DEF Init
<1>3. \A r \in Requests : tracker[r] \in {"FAILED", "WAITING"}
  BY <1>2
<1>4. WaitingCountExact
  <2>1. Active = {r \in Requests : tracker[r] = "WAITING"}
    BY <1>3 DEF Active
  <2> QED
    BY <2>1 DEF Init, WaitingCountExact
<1>5. CompletionMatchesRunning
  BY <1>3 DEF Init, CompletionMatchesRunning, Running
<1>6. ParallelismBounded
  BY FS_EmptySet, DownloaderAssumption DEF Init, ParallelismBounded
<1>7. AttemptMatchesTracker
  <2> SUFFICES ASSUME NEW r \in Requests, tracker[r] = "WAITING"
               PROVE  attempt[r].mirror \in Mirrors /\ Resumable(attempt[r])
    BY <1>3 DEF AttemptMatchesTracker
  <2>1. sel[r] \in Mirrors /\ n[r] \in StepCounts[sel[r]]
    BY <1>2
  <2>2. n[r] \in 1..3
    BY <2>1, DownloaderAssumption
  <2> QED
    BY <1>2, <2>1, <2>2 DEF NewAttempt, Resumable
<1>8. AcceptedOnce
  BY <1>3 DEF Init, AcceptedOnce
<1>9. StoppedOnlyDraining
  BY <1>3 DEF Init, StoppedOnlyDraining
<1> QED
  BY <1>1, <1>4, <1>5, <1>6, <1>7, <1>8, <1>9 DEF LoopInv

\* A message is handled for a tracker that runs a transfer of its sequence.
LEMMA PoppedRunning ==
  ASSUME LoopInv, NEW r \in Requests, Popped(r)
  PROVE  /\ r \in completion /\ tracker[r] = "RUNNING" /\ phase \in {"update", "drain"}
         /\ attempt[r] \in Attempt
         /\ attempt[r].mirror \in Mirrors
         /\ attempt[r].step \in 1..attempt[r].steps
         /\ accepted[r] = 0
<1>1. r \in completion /\ phase \in {"update", "drain"}
  BY DEF Popped
<1>2. tracker[r] = "RUNNING"
  BY <1>1 DEF LoopInv, CompletionMatchesRunning, Running
<1> QED
  BY <1>1, <1>2 DEF LoopInv, AttemptMatchesTracker, AcceptedOnce, TypeOK

\* Every step of the batch keeps the invariant of the loop.
LEMMA LoopStep == LoopInv /\ [Next]_vars => LoopInv'
<1> SUFFICES ASSUME LoopInv, [Next]_vars
             PROVE  LoopInv'
  OBVIOUS
<1>0. TypeOK /\ TypeOK'
  BY TypeStep DEF LoopInv
<1>1. CASE CheckLoop
  <2>1. UNCHANGED <<tracker, waiting, completion, attempt, accepted, msg>> /\ phase = "check"
    BY <1>1 DEF CheckLoop
  <2>2. StoppedOnlyDraining'
    BY <2>1 DEF LoopInv, StoppedOnlyDraining
  <2> QED
    BY <1>0, <2>1, <2>2, AccountingUnchanged DEF LoopInv, AttemptMatchesTracker, AcceptedOnce
<1>2. CASE RequestStop
  <2>1. /\ phase = "check" /\ phase' = "drainCheck" /\ completion' = completion
        /\ accepted' = accepted
        /\ tracker' = [r \in Requests |-> IF r \in ForceStopped
                                          THEN "STOPPED" ELSE tracker[r]]
        /\ waiting' = waiting - Cardinality(ForceStopped)
    BY <1>2 DEF RequestStop
  <2>2. \A r \in Requests : r \notin ForceStopped => attempt'[r] = attempt[r]
    BY <1>2 DEF RequestStop
  <2>3. WaitingCountExact'
    <3>1. \A r \in Requests : r \in Active' <=> r \in Active /\ r \notin ForceStopped
      BY <2>1 DEF Active, ForceStopped
    <3>2. Active' \subseteq Requests /\ Active \subseteq Requests
      BY DEF Active
    <3>3. Active' = Active \ ForceStopped
      BY <3>1, <3>2
    <3>4. Active \cap ForceStopped = ForceStopped
      <4>1. ForceStopped \subseteq Active
        BY DEF Active, ForceStopped
      <4> QED
        BY <4>1
    <3>5. Cardinality(Active') = Cardinality(Active) - Cardinality(ForceStopped)
      <4>1. IsFiniteSet(Active)
        BY <1>0, FiniteSets
      <4>2. Cardinality(Active \ ForceStopped)
              = Cardinality(Active) - Cardinality(Active \cap ForceStopped)
        BY <4>1, FS_Difference
      <4> QED
        BY <3>3, <3>4, <4>2
    <3> QED
      BY <2>1, <3>5 DEF LoopInv, WaitingCountExact
  <2>4. CompletionMatchesRunning' /\ ParallelismBounded'
    BY <2>1 DEF LoopInv, CompletionMatchesRunning, ParallelismBounded, Running, ForceStopped
  <2>5. AttemptMatchesTracker'
    BY <2>1, <2>2 DEF LoopInv, AttemptMatchesTracker, ForceStopped
  <2>6. AcceptedOnce'
    BY <2>1 DEF LoopInv, AcceptedOnce, ForceStopped
  <2>7. StoppedOnlyDraining'
    BY <2>1 DEF StoppedOnlyDraining
  <2> QED
    BY <1>0, <2>3, <2>4, <2>5, <2>6, <2>7 DEF LoopInv
<1>3. ASSUME NEW r \in Requests, StartTransfer(r)
      PROVE  LoopInv'
  <2>1. /\ phase = "prepare" /\ tracker[r] = "WAITING" /\ HasCapacity
        /\ tracker' = [tracker EXCEPT ![r] = "RUNNING"]
        /\ attempt' = [attempt EXCEPT ![r] = StartedAttempt(attempt[r])]
        /\ completion' = completion \union {r}
        /\ UNCHANGED <<phase, waiting, accepted, msg>>
    BY <1>3 DEF StartTransfer, CanStartTransfer
  <2>2. WaitingCountExact'
    BY <1>0, <2>1, ActiveUpdate DEF LoopInv, WaitingCountExact, TrackerState
  <2>3. CompletionMatchesRunning'
    BY <1>0, <2>1 DEF LoopInv, CompletionMatchesRunning, Running, TypeOK
  <2>4. ParallelismBounded'
    <3>1. r \notin completion
      BY <2>1 DEF LoopInv, CompletionMatchesRunning, Running
    <3>2. Cardinality(completion') = Cardinality(completion) + 1
      BY <1>0, <2>1, <3>1, FS_AddElement, FiniteSets
    <3> QED
      BY <1>0, <2>1, <3>2, FiniteSets, DownloaderAssumption
      DEF HasCapacity, ParallelismBounded
  <2>5. AttemptMatchesTracker'
    <3>1. attempt[r].mirror \in Mirrors /\ Resumable(attempt[r]) /\ attempt[r] \in Attempt
      BY <1>0, <2>1 DEF LoopInv, AttemptMatchesTracker, TypeOK
    <3>2. /\ StartedAttempt(attempt[r]).mirror \in Mirrors
          /\ StartedAttempt(attempt[r]).step \in 1..StartedAttempt(attempt[r]).steps
      BY <3>1 DEF StartedAttempt, Resumable, Attempt
    <3> QED
      BY <1>0, <2>1, <3>2 DEF LoopInv, AttemptMatchesTracker, TypeOK
  <2>6. AcceptedOnce'
    BY <1>0, <2>1 DEF LoopInv, AcceptedOnce, TypeOK
  <2>7. StoppedOnlyDraining'
    BY <1>0, <2>1 DEF LoopInv, StoppedOnlyDraining, TypeOK
  <2> QED
    BY <1>0, <2>2, <2>3, <2>4, <2>5, <2>6, <2>7 DEF LoopInv
<1>4. CASE PrepareDone
  <2>1. /\ UNCHANGED <<tracker, waiting, completion, attempt, accepted, msg>>
        /\ phase = "prepare"
    BY <1>4 DEF PrepareDone
  <2>2. StoppedOnlyDraining'
    BY <2>1 DEF LoopInv, StoppedOnlyDraining
  <2> QED
    BY <1>0, <2>1, <2>2, AccountingUnchanged DEF LoopInv, AttemptMatchesTracker, AcceptedOnce
<1>5. ASSUME NEW r \in Requests, StepSucceeds(r)
      PROVE  LoopInv'
  <2>1. /\ Popped(r) /\ msg' = [msg EXCEPT ![r] = "none"]
        /\ ~HasFinished(attempt[r])
        /\ tracker' = [tracker EXCEPT ![r] = "WAITING"]
        /\ attempt' = [attempt EXCEPT ![r].state = "LAST_REQUEST_FINISHED"]
        /\ completion' = completion \ {r}
        /\ waiting' = waiting
        /\ UNCHANGED <<phase, accepted>>
    BY <1>0, <1>5 DEF StepSucceeds, Completed, Popped, TypeOK
  <2>2. WaitingCountExact' /\ CompletionMatchesRunning' /\ ParallelismBounded'
    BY <2>1, PoppedRunning, AfterCallback
  <2>3. AttemptMatchesTracker'
    <3> DEFINE new == [attempt[r] EXCEPT !.state = "LAST_REQUEST_FINISHED"]
    <3>1. new.mirror \in Mirrors /\ Resumable(new)
      BY <2>1, PoppedRunning DEF HasFinished, Resumable, Attempt
    <3>2. attempt' = [attempt EXCEPT ![r] = new]
      BY <2>1
    <3> HIDE DEF new
    <3>3. attempt'[r] = new /\ \A q \in Requests : q # r => attempt'[q] = attempt[q]
      BY <1>0, <3>2 DEF LoopInv, TypeOK
    <3>4. /\ tracker'[r] = "WAITING"
          /\ \A q \in Requests : q # r => tracker'[q] = tracker[q]
      BY <1>0, <2>1 DEF LoopInv, TypeOK
    <3>5. AttemptMatchesTracker
      BY <1>0 DEF LoopInv
    <3> SUFFICES ASSUME NEW q \in Requests
                 PROVE  /\ tracker'[q] = "WAITING" => /\ attempt'[q].mirror \in Mirrors
                                                      /\ Resumable(attempt'[q])
                        /\ tracker'[q] = "RUNNING" =>
                             /\ attempt'[q].mirror \in Mirrors
                             /\ attempt'[q].step \in 1..attempt'[q].steps
      BY DEF AttemptMatchesTracker, Resumable
    <3>6. CASE q = r
      BY <3>1, <3>3, <3>4, <3>6
    <3>7. CASE q # r
      BY <3>3, <3>4, <3>5, <3>7 DEF AttemptMatchesTracker
    <3> QED
      BY <3>6, <3>7
  <2>4. AcceptedOnce' /\ StoppedOnlyDraining'
    BY <1>0, <2>1, PoppedRunning DEF LoopInv, AcceptedOnce, StoppedOnlyDraining, TypeOK
  <2> QED
    BY <1>0, <2>2, <2>3, <2>4 DEF LoopInv
<1>6. ASSUME NEW r \in Requests, RequestSucceeds(r)
      PROVE  LoopInv'
  <2>1. /\ Popped(r) /\ msg' = [msg EXCEPT ![r] = "none"]
        /\ tracker' = [tracker EXCEPT ![r] = "FINISHED"]
        /\ \A q \in Requests \ {r} : attempt'[q] = attempt[q]
        /\ accepted' = [accepted EXCEPT ![r] = @ + 1]
        /\ completion' = completion \ {r}
        /\ waiting' = waiting - 1
        /\ UNCHANGED phase
    BY <1>0, <1>6 DEF RequestSucceeds, Completed, Popped, TypeOK
  <2>2. WaitingCountExact' /\ CompletionMatchesRunning' /\ ParallelismBounded'
    BY <2>1, PoppedRunning, AfterCallback
  <2>3. AttemptMatchesTracker'
    BY <1>0, <2>1 DEF LoopInv, AttemptMatchesTracker, TypeOK
  <2>4. AcceptedOnce'
    BY <1>0, <2>1, PoppedRunning DEF LoopInv, AcceptedOnce, TypeOK
  <2>5. StoppedOnlyDraining'
    BY <1>0, <2>1 DEF LoopInv, StoppedOnlyDraining, TypeOK
  <2> QED
    BY <1>0, <2>2, <2>3, <2>4, <2>5 DEF LoopInv
<1>7. ASSUME NEW r \in Requests, RetryLater(r)
      PROVE  LoopInv'
  <2> DEFINE new == FailedAttempt(attempt[r], msg[r])
  <2>1. /\ Popped(r) /\ msg' = [msg EXCEPT ![r] = "none"]
        /\ tracker' = [tracker EXCEPT ![r] = "WAITING"]
        /\ attempt' = [attempt EXCEPT ![r] = new]
        /\ completion' = completion \ {r}
        /\ waiting' = waiting
        /\ UNCHANGED <<phase, accepted>>
    BY <1>0, <1>7 DEF RetryLater, Failing, Completed, Popped, TypeOK
  <2>2. WaitingCountExact' /\ CompletionMatchesRunning' /\ ParallelismBounded'
    BY <2>1, PoppedRunning, AfterCallback
  <2>3. AttemptMatchesTracker'
    <3>1. new.mirror \in Mirrors /\ Resumable(new)
      BY <2>1, PoppedRunning DEF FailedAttempt, Resumable, Attempt
    <3> HIDE DEF new
    <3> QED
      BY <1>0, <2>1, <3>1 DEF LoopInv, AttemptMatchesTracker, TypeOK
  <2>4. AcceptedOnce' /\ StoppedOnlyDraining'
    BY <1>0, <2>1, PoppedRunning DEF LoopInv, AcceptedOnce, StoppedOnlyDraining, TypeOK
  <2> QED
    BY <1>0, <2>2, <2>3, <2>4 DEF LoopInv
<1>8. ASSUME NEW r \in Requests, SwitchMirror(r)
      PROVE  LoopInv'
  <2> DEFINE m == SelectNewMirror(r, tried[r], stats')
  <2>1. m \in Mirrors
    BY <1>8, SelectNewMirrorType DEF SwitchMirror
  <2>2. PICK n \in StepCounts[m] : attempt' = [attempt EXCEPT ![r] = NewAttempt(m, n)]
    BY <1>8 DEF SwitchMirror
  <2>3. /\ Popped(r) /\ msg' = [msg EXCEPT ![r] = "none"]
        /\ tracker' = [tracker EXCEPT ![r] = "WAITING"]
        /\ completion' = completion \ {r}
        /\ waiting' = waiting
        /\ UNCHANGED <<phase, accepted>>
    BY <1>0, <1>8 DEF SwitchMirror, Failing, Completed, Popped, TypeOK
  <2>4. WaitingCountExact' /\ CompletionMatchesRunning' /\ ParallelismBounded'
    BY <2>3, PoppedRunning, AfterCallback
  <2>5. AttemptMatchesTracker'
    <3>1. n \in 1..3
      BY <2>1, <2>2, DownloaderAssumption
    <3> HIDE DEF m
    <3>2. NewAttempt(m, n).mirror \in Mirrors /\ Resumable(NewAttempt(m, n))
      BY <2>1, <3>1 DEF NewAttempt, Resumable
    <3> QED
      BY <1>0, <2>2, <2>3, <3>2 DEF LoopInv, AttemptMatchesTracker, TypeOK
  <2>6. AcceptedOnce' /\ StoppedOnlyDraining'
    BY <1>0, <2>3, PoppedRunning DEF LoopInv, AcceptedOnce, StoppedOnlyDraining, TypeOK
  <2> QED
    BY <1>0, <2>4, <2>5, <2>6 DEF LoopInv
<1>9. ASSUME NEW r \in Requests, GiveUp(r)
      PROVE  LoopInv'
  <2>1. /\ Popped(r) /\ msg' = [msg EXCEPT ![r] = "none"]
        /\ tracker' = [tracker EXCEPT ![r] = "FAILED"]
        /\ \A q \in Requests \ {r} : attempt'[q] = attempt[q]
        /\ accepted' = accepted
    BY <1>0, <1>9 DEF GiveUp, Failing, Popped, TypeOK
  <2>2. WaitingCountExact' /\ CompletionMatchesRunning' /\ ParallelismBounded'
    <3>1. CASE ThrowsOnFailure(r)
      <4>1. phase' = "thrown" /\ completion' = completion
        BY <1>9, <3>1 DEF GiveUp
      <4> QED
        BY <4>1 DEF LoopInv, WaitingCountExact, CompletionMatchesRunning, ParallelismBounded
    <3>2. CASE ~ThrowsOnFailure(r)
      <4>1. completion' = completion \ {r} /\ waiting' = waiting - 1
        BY <1>0, <1>9, <2>1, <3>2 DEF GiveUp, Completed, TypeOK
      <4> QED
        BY <2>1, <4>1, PoppedRunning, AfterCallback
    <3> QED
      BY <3>1, <3>2
  <2>3. AttemptMatchesTracker'
    BY <1>0, <2>1 DEF LoopInv, AttemptMatchesTracker, TypeOK
  <2>4. AcceptedOnce'
    BY <1>0, <2>1, PoppedRunning DEF LoopInv, AcceptedOnce, TypeOK
  <2>5. StoppedOnlyDraining'
    <3>1. phase' \in {phase, "thrown"}
      BY <1>9 DEF GiveUp, Completed
    <3> QED
      BY <1>0, <2>1, <3>1, PoppedRunning DEF LoopInv, StoppedOnlyDraining, TypeOK
  <2> QED
    BY <1>0, <2>2, <2>3, <2>4, <2>5 DEF LoopInv
<1>10. ASSUME NEW r \in Requests, TransferStopped(r)
       PROVE  LoopInv'
  <2>1. /\ Popped(r) /\ msg' = [msg EXCEPT ![r] = "none"]
        /\ msg[r] = "aborted"
        /\ tracker' = [tracker EXCEPT ![r] = "STOPPED"]
        /\ \A q \in Requests \ {r} : attempt'[q] = attempt[q]
        /\ completion' = completion \ {r}
        /\ waiting' = waiting - 1
        /\ UNCHANGED <<phase, accepted>>
    BY <1>0, <1>10 DEF TransferStopped, Popped, TypeOK
  <2>2. WaitingCountExact' /\ CompletionMatchesRunning' /\ ParallelismBounded'
    BY <2>1, PoppedRunning, AfterCallback
  <2>3. AttemptMatchesTracker'
    BY <1>0, <2>1 DEF LoopInv, AttemptMatchesTracker, TypeOK
  <2>4. AcceptedOnce'
    BY <1>0, <2>1, PoppedRunning DEF LoopInv, AcceptedOnce, TypeOK
  <2>5. StoppedOnlyDraining'
    BY <1>0, <2>1, PoppedRunning DEF LoopInv, StoppedOnlyDraining, TypeOK
  <2> QED
    BY <1>0, <2>2, <2>3, <2>4, <2>5 DEF LoopInv
<1>11. CASE UpdateDone
  <2>1. /\ UNCHANGED <<tracker, waiting, completion, attempt, accepted, msg>>
        /\ phase = "update"
    BY <1>11 DEF UpdateDone
  <2>2. StoppedOnlyDraining'
    BY <2>1 DEF LoopInv, StoppedOnlyDraining
  <2> QED
    BY <1>0, <2>1, <2>2, AccountingUnchanged DEF LoopInv, AttemptMatchesTracker, AcceptedOnce
<1>12. CASE DrainCheck \/ DrainAgain
  <2>1. /\ UNCHANGED <<tracker, waiting, completion, attempt, accepted, msg>>
        /\ phase \in {"drainCheck", "drain"} /\ phase' \in {"drainCheck", "drain", "returned"}
    BY <1>12 DEF DrainCheck, DrainAgain
  <2>2. StoppedOnlyDraining'
    BY <2>1 DEF StoppedOnlyDraining
  <2> QED
    BY <1>0, <2>1, <2>2, AccountingUnchanged DEF LoopInv, AttemptMatchesTracker, AcceptedOnce
<1>13. CASE \/ \E r \in Requests : CurlWrite(r)
            \/ \E r \in Requests, o \in Outcome : CurlDone(r, o)
            \/ Interrupt
            \/ UNCHANGED vars
  <2>1. UNCHANGED <<phase, tracker, waiting, completion, attempt, accepted>>
    BY <1>13 DEF CurlWrite, CurlDone, Interrupt, vars
  <2>2. StoppedOnlyDraining'
    <3>1. CASE UNCHANGED msg
      BY <2>1, <3>1 DEF LoopInv, StoppedOnlyDraining
    <3>2. ASSUME NEW r \in Requests, NEW o \in Outcome, CurlDone(r, o)
          PROVE  StoppedOnlyDraining'
      <4>1. /\ msg' = [msg EXCEPT ![r] = o]
            /\ o = "aborted" => phase \in {"drainCheck", "drain"}
        BY <3>2 DEF CurlDone
      <4> QED
        BY <1>0, <2>1, <4>1 DEF LoopInv, StoppedOnlyDraining, TypeOK
    <3> QED
      BY <1>13, <3>1, <3>2 DEF CurlWrite, Interrupt, vars
  <2> QED
    BY <1>0, <2>1, <2>2 DEF LoopInv, AttemptMatchesTracker, AcceptedOnce,
       WaitingCountExact, CompletionMatchesRunning, ParallelismBounded, Active, Running
<1>14. ASSUME NEW r \in Requests, RetryElapse(r)
       PROVE  LoopInv'
  <2> DEFINE new == [attempt[r] EXCEPT !.wait = "elapsed"]
  <2>1. /\ attempt' = [attempt EXCEPT ![r] = new]
        /\ UNCHANGED <<phase, tracker, waiting, completion, accepted, msg>>
    BY <1>14 DEF RetryElapse
  <2>2. attempt[r] \in Attempt
    BY <1>0 DEF TypeOK
  <2>3. /\ new.mirror = attempt[r].mirror /\ new.step = attempt[r].step
        /\ new.steps = attempt[r].steps /\ new.state = attempt[r].state
    BY <2>2 DEF Attempt
  <2>4. AttemptMatchesTracker'
    <3> HIDE DEF new
    <3> QED
      BY <1>0, <2>1, <2>3 DEF LoopInv, AttemptMatchesTracker, Resumable, TypeOK
  <2> QED
    BY <1>0, <2>1, <2>4 DEF LoopInv, AcceptedOnce, StoppedOnlyDraining,
       WaitingCountExact, CompletionMatchesRunning, ParallelismBounded, Active, Running
<1> QED
  BY <1>1, <1>2, <1>3, <1>4, <1>5, <1>6, <1>7, <1>8, <1>9, <1>10, <1>11,
     <1>12, <1>13, <1>14
  DEF Next, DownloaderThread, HandleMessage, Terminated

-----------------------------------------------------------------------------
(***************************************************************************)
(* Mirror accounting, destination files and reported results.              *)
(***************************************************************************)

\* The running transfers of one mirror.
LoadOn(m) == {r \in Running : attempt[r].mirror = m}

\* A truncated file belongs to a transfer libcurl has not reported as ended
\* well: that transfer's message will have it erased.
PartialIsPending ==
  phase # "thrown" =>
    \A r \in Requests :
      file[r] = "partial" => r \in completion /\ msg[r] \notin {"ok", "rejected"}

\* The last result of a tracker that has ended agrees with how it ended.
ResultsAgree ==
  phase # "thrown" /\ FailFast =>
    \A r \in Requests :
      /\ tracker[r] = "FINISHED" => result[r] = "success"
      /\ tracker[r] = "STOPPED" => result[r] = "stop"
      /\ tracker[r] = "FAILED" => result[r] = "error" \/ r \in IgnoreFailure

\* download() returns when no tracker has work left.
ReturnedDone == phase = "returned" => waiting = 0

EndInv ==
  /\ LoopInv
  /\ MirrorLoadExact
  /\ PartialIsPending
  /\ ResultsAgree
  /\ ReturnedDone

\* What handling one message changes: the trackers and attempts of the other
\* requests are left alone, and the tracker no longer runs.
LEMMA OneMessage ==
  ASSUME LoopInv, NEW r \in Requests, HandleMessage(r)
  PROVE  /\ r \in completion /\ r \in Running /\ Popped(r)
         /\ attempt[r].mirror \in Mirrors
         /\ phase \in {"update", "drain"} /\ phase' \in {phase, "thrown"}
         /\ \A q \in Requests \ {r} :
              /\ tracker'[q] = tracker[q] /\ attempt'[q] = attempt[q]
              /\ result'[q] = result[q] /\ file'[q] = file[q]
              /\ msg'[q] = msg[q] /\ (q \in completion' <=> q \in completion)
         /\ tracker'[r] # "RUNNING"
<1>1. Popped(r)
  BY DEF HandleMessage, StepSucceeds, RequestSucceeds, RetryLater, SwitchMirror,
     GiveUp, Failing, TransferStopped
<1>2. /\ r \in completion /\ tracker[r] = "RUNNING" /\ attempt[r].mirror \in Mirrors
      /\ phase \in {"update", "drain"}
  BY <1>1, PoppedRunning
<1>3. TypeOK
  BY DEF LoopInv
<1>4. \A q \in Requests : q # r => msg'[q] = msg[q]
  BY <1>1, <1>3 DEF Popped, TypeOK
<1>5. \A q \in Requests : q # r => file'[q] = file[q]
  BY <1>3 DEF TypeOK, HandleMessage, StepSucceeds, RequestSucceeds, RetryLater,
     SwitchMirror, GiveUp, Failing, TransferStopped
<1>6. \A q \in Requests : q # r => attempt'[q] = attempt[q]
  BY <1>3 DEF TypeOK, HandleMessage, StepSucceeds, RequestSucceeds, RetryLater,
     SwitchMirror, GiveUp, TransferStopped
<1>7. /\ \A q \in Requests : q # r => tracker'[q] = tracker[q]
      /\ tracker'[r] # "RUNNING"
  BY <1>3 DEF TypeOK, HandleMessage, StepSucceeds, RequestSucceeds, RetryLater,
     SwitchMirror, GiveUp, TransferStopped
<1>8. /\ \A q \in Requests : q # r => result'[q] = result[q]
      /\ \A q \in Requests : q # r => (q \in completion' <=> q \in completion)
      /\ phase' \in {phase, "thrown"}
  BY <1>3 DEF TypeOK, HandleMessage, StepSucceeds, RequestSucceeds, RetryLater,
     SwitchMirror, GiveUp, TransferStopped, Completed
<1> QED
  BY <1>1, <1>2, <1>4, <1>5, <1>6, <1>7, <1>8 DEF Running

\* A mirror's load grows by the tracker that starts on it.
LEMMA LoadAfterStart ==
  ASSUME LoopInv, NEW r \in Requests, StartTransfer(r), NEW m \in Mirrors
  PROVE  Cardinality(LoadOn(m)') = IF m = attempt[r].mirror
                                   THEN Cardinality(LoadOn(m)) + 1
                                   ELSE Cardinality(LoadOn(m))
<1>1. TypeOK /\ attempt[r] \in Attempt
  BY DEF LoopInv, TypeOK
<1>2. r \notin Running /\ Running' = Running \union {r}
  BY <1>1 DEF StartTransfer, CanStartTransfer, Running, TypeOK
<1>3. /\ attempt'[r].mirror = attempt[r].mirror
      /\ \A q \in Requests : q # r => attempt'[q] = attempt[q]
  BY <1>1 DEF StartTransfer, StartedAttempt, Attempt, TypeOK
<1>4. IsFiniteSet(LoadOn(m))
  <2>1. LoadOn(m) \in SUBSET Requests
    BY DEF LoadOn, Running
  <2> QED
    BY <2>1, FS_Subset, DownloaderAssumption
<1>5. Running \subseteq Requests
  BY DEF Running
<1>6. CASE m = attempt[r].mirror
  <2>1. LoadOn(m)' = LoadOn(m) \union {r} /\ r \notin LoadOn(m)
    BY <1>2, <1>3, <1>5, <1>6 DEF LoadOn
  <2> QED
    BY <1>4, <1>6, <2>1, FS_AddElement
<1>7. CASE m # attempt[r].mirror
  <2>1. LoadOn(m)' = LoadOn(m)
    BY <1>2, <1>3, <1>5, <1>7 DEF LoadOn
  <2> QED
    BY <1>7, <2>1
<1> QED
  BY <1>6, <1>7

\* It shrinks by the tracker whose message is handled.
LEMMA LoadAfterMessage ==
  ASSUME LoopInv, NEW r \in Requests, HandleMessage(r), NEW m \in Mirrors
  PROVE  Cardinality(LoadOn(m)') = IF m = attempt[r].mirror
                                   THEN Cardinality(LoadOn(m)) - 1
                                   ELSE Cardinality(LoadOn(m))
<1>1. /\ r \in Running /\ Running' = Running \ {r}
      /\ \A q \in Requests : q # r => attempt'[q] = attempt[q]
  <2>1. /\ r \in Running /\ tracker'[r] # "RUNNING"
        /\ \A q \in Requests \ {r} : tracker'[q] = tracker[q] /\ attempt'[q] = attempt[q]
    BY OneMessage
  <2> QED
    BY <2>1 DEF Running
<1>2. IsFiniteSet(LoadOn(m))
  <2>1. LoadOn(m) \in SUBSET Requests
    BY DEF LoadOn, Running
  <2> QED
    BY <2>1, FS_Subset, DownloaderAssumption
<1>3. Running \subseteq Requests
  BY DEF Running
<1>4. CASE m = attempt[r].mirror
  <2>1. LoadOn(m)' = LoadOn(m) \ {r} /\ r \in LoadOn(m)
    BY <1>1, <1>3, <1>4 DEF LoadOn
  <2> QED
    BY <1>2, <1>4, <2>1, FS_RemoveElement
<1>5. CASE m # attempt[r].mirror
  <2>1. LoadOn(m)' = LoadOn(m)
    BY <1>1, <1>3, <1>5 DEF LoadOn
  <2> QED
    BY <1>5, <2>1
<1> QED
  BY <1>4, <1>5

\* Every step keeps running_transfers exact.
LEMMA LoadStep == EndInv /\ [Next]_vars => MirrorLoadExact'
<1> SUFFICES ASSUME EndInv, [Next]_vars, phase' \in {"check", "prepare", "update"},
                    NEW m \in Mirrors
             PROVE  stats'[m].running = Cardinality(LoadOn(m)')
  BY DEF MirrorLoadExact, LoadOn
<1>0. LoopInv /\ TypeOK /\ stats[m].running \in Int /\ stats \in [Mirrors -> MirrorStats]
  BY DEF EndInv, LoopInv, TypeOK, MirrorStats
<1>1. phase \in {"check", "prepare", "update"} =>
        stats[m].running = Cardinality(LoadOn(m))
  BY DEF EndInv, MirrorLoadExact, LoadOn
<1>2. ASSUME NEW r \in Requests, StartTransfer(r)
      PROVE  stats'[m].running = Cardinality(LoadOn(m)')
  <2>1. phase = "prepare"
        /\ stats' = [stats EXCEPT ![attempt[r].mirror].running = @ + 1]
    BY <1>2 DEF StartTransfer
  <2>2. stats'[m].running = IF m = attempt[r].mirror THEN stats[m].running + 1
                                                     ELSE stats[m].running
    BY <1>0, <2>1 DEF MirrorStats
  <2> QED
    BY <1>0, <1>1, <1>2, <2>1, <2>2, LoadAfterStart
<1>3. ASSUME NEW r \in Requests, HandleMessage(r)
      PROVE  stats'[m].running = Cardinality(LoadOn(m)')
  <2>1. phase = "update"
    BY <1>0, <1>3, OneMessage
  <2>2. ~TransferStopped(r)
    BY <1>0, <2>1 DEF TransferStopped, LoopInv, StoppedOnlyDraining
  <2>3. PICK success \in BOOLEAN : stats' = TransferDone(r, success)
    BY <1>3, <2>2 DEF HandleMessage, StepSucceeds, RequestSucceeds, RetryLater,
       SwitchMirror, GiveUp, Failing
  <2>4. stats'[m].running = IF m = attempt[r].mirror THEN stats[m].running - 1
                                                     ELSE stats[m].running
    BY <1>0, <2>3 DEF TransferDone
  <2> QED
    BY <1>0, <1>1, <1>3, <2>1, <2>4, LoadAfterMessage
<1>4. ASSUME NEW r \in Requests, RetryElapse(r)
      PROVE  stats'[m].running = Cardinality(LoadOn(m)')
  <2>1. \A q \in Requests : attempt'[q].mirror = attempt[q].mirror
    BY <1>0, <1>4 DEF RetryElapse, TypeOK, Attempt
  <2>2. LoadOn(m)' = LoadOn(m)
    BY <1>4, <2>1 DEF RetryElapse, LoadOn, Running
  <2> QED
    BY <1>1, <1>4, <2>2 DEF RetryElapse
<1>5. CASE UNCHANGED <<tracker, attempt, stats>>
           /\ phase \in {"check", "prepare", "update"}
  BY <1>1, <1>5 DEF LoadOn, Running
<1>6. CASE CheckLoop \/ PrepareDone \/ UpdateDone
  BY <1>5, <1>6 DEF CheckLoop, PrepareDone, UpdateDone
<1>7. CASE RequestStop \/ DrainCheck \/ DrainAgain
  BY <1>7 DEF RequestStop, DrainCheck, DrainAgain
<1>8. CASE \/ \E r \in Requests : CurlWrite(r)
           \/ \E r \in Requests, o \in Outcome : CurlDone(r, o)
           \/ Interrupt \/ UNCHANGED vars
  BY <1>5, <1>8 DEF CurlWrite, CurlDone, Interrupt, vars
<1> QED
  BY <1>2, <1>3, <1>4, <1>6, <1>7, <1>8 DEF Next, DownloaderThread, Terminated

\* Every step keeps the truncated files pending.
LEMMA PartialStep == EndInv /\ [Next]_vars => PartialIsPending'
<1> SUFFICES ASSUME EndInv, [Next]_vars, phase' # "thrown",
                    NEW q \in Requests, file'[q] = "partial"
             PROVE  q \in completion' /\ msg'[q] \notin {"ok", "rejected"}
  BY DEF PartialIsPending
<1>0. LoopInv /\ TypeOK
  BY DEF EndInv, LoopInv
<1>1. phase # "thrown" /\ file[q] = "partial" =>
        q \in completion /\ msg[q] \notin {"ok", "rejected"}
  BY DEF EndInv, PartialIsPending
<1>2. ASSUME NEW r \in Requests, HandleMessage(r)
      PROVE  q \in completion' /\ msg'[q] \notin {"ok", "rejected"}
  <2>1. CASE q # r
    BY <1>0, <1>1, <1>2, <2>1, OneMessage
  <2>2. CASE q = r
    <3>1. phase # "thrown"
      BY <1>0, <1>2, OneMessage
    <3>2. msg[r] \in {"ok", "rejected"} => file[r] # "partial"
      BY <1>1, <2>2, <3>1
    <3>3. file'[r] # "partial"
      BY <1>0, <1>2, <3>2 DEF HandleMessage, StepSucceeds, RequestSucceeds, RetryLater,
         SwitchMirror, GiveUp, Failing, CleanedFile, TransferStopped, TypeOK
    <3> QED
      BY <2>2, <3>3
  <2> QED
    BY <2>1, <2>2
<1>3. ASSUME NEW r \in Requests, CurlWrite(r)
      PROVE  q \in completion' /\ msg'[q] \notin {"ok", "rejected"}
  BY <1>0, <1>1, <1>3 DEF CurlWrite, TypeOK
<1>4. ASSUME NEW r \in Requests, NEW o \in Outcome, CurlDone(r, o)
      PROVE  q \in completion' /\ msg'[q] \notin {"ok", "rejected"}
  BY <1>0, <1>1, <1>4 DEF CurlDone, TypeOK
<1>5. CASE UNCHANGED <<file, msg>> /\ completion \subseteq completion' /\ phase # "thrown"
  BY <1>1, <1>5
<1>6. ASSUME NEW r \in Requests, StartTransfer(r)
      PROVE  q \in completion' /\ msg'[q] \notin {"ok", "rejected"}
  BY <1>5, <1>6 DEF StartTransfer
<1>7. CASE CheckLoop \/ RequestStop \/ PrepareDone \/ UpdateDone \/ DrainCheck \/ DrainAgain
  BY <1>5, <1>7 DEF CheckLoop, RequestStop, PrepareDone, UpdateDone, DrainCheck, DrainAgain
<1>8. CASE (\E r \in Requests : RetryElapse(r)) \/ Interrupt \/ UNCHANGED vars
  BY <1>5, <1>8 DEF RetryElapse, Interrupt, vars
<1> QED
  BY <1>2, <1>3, <1>4, <1>6, <1>7, <1>8 DEF Next, DownloaderThread, Terminated

\* Every step keeps the results in agreement with the trackers.
LEMMA ResultStep == EndInv /\ [Next]_vars => ResultsAgree'
<1> SUFFICES ASSUME EndInv, [Next]_vars, phase' # "thrown", FailFast,
                    NEW q \in Requests
             PROVE  /\ tracker'[q] = "FINISHED" => result'[q] = "success"
                    /\ tracker'[q] = "STOPPED" => result'[q] = "stop"
                    /\ tracker'[q] = "FAILED" => \/ result'[q] = "error"
                                                \/ q \in IgnoreFailure
  BY DEF ResultsAgree
<1> DEFINE Agrees(t, x) == /\ t = "FINISHED" => x = "success"
                           /\ t = "STOPPED" => x = "stop"
                           /\ t = "FAILED" => x = "error" \/ q \in IgnoreFailure
<1>0. LoopInv /\ TypeOK
  BY DEF EndInv, LoopInv
<1>1. phase # "thrown" => Agrees(tracker[q], result[q])
  BY DEF EndInv, ResultsAgree
<1>2. ASSUME NEW r \in Requests, HandleMessage(r)
      PROVE  Agrees(tracker'[q], result'[q])
  <2>1. CASE q # r
    BY <1>0, <1>1, <1>2, <2>1, OneMessage
  <2>2. CASE q = r
    <3>1. CASE StepSucceeds(r) \/ RetryLater(r) \/ SwitchMirror(r)
      <4>1. tracker'[r] = "WAITING"
        BY <1>0, <3>1 DEF StepSucceeds, RetryLater, SwitchMirror, TypeOK
      <4> QED
        BY <2>2, <4>1
    <3>2. CASE RequestSucceeds(r)
      <4>1. tracker'[r] = "FINISHED" /\ result'[r] = "success"
        BY <1>0, <3>2 DEF RequestSucceeds, Completed, ResultOf, TypeOK
      <4> QED
        BY <2>2, <4>1
    <3>3. CASE GiveUp(r)
      <4>1. tracker'[r] = "FAILED" /\ ~ThrowsOnFailure(r)
        BY <1>0, <3>3 DEF GiveUp, TypeOK
      <4>2. r \in IgnoreFailure
        BY <4>1 DEF ThrowsOnFailure
      <4> QED
        BY <2>2, <4>1, <4>2
    <3>4. CASE TransferStopped(r)
      <4>1. tracker'[r] = "STOPPED" /\ result'[r] = "stop"
        BY <1>0, <3>4 DEF TransferStopped, TypeOK
      <4> QED
        BY <2>2, <4>1
    <3> QED
      BY <1>2, <3>1, <3>2, <3>3, <3>4 DEF HandleMessage
  <2> QED
    BY <2>1, <2>2
<1>3. CASE RequestStop
  BY <1>1, <1>3 DEF RequestStop
<1>4. ASSUME NEW r \in Requests, StartTransfer(r)
      PROVE  Agrees(tracker'[q], result'[q])
  BY <1>0, <1>1, <1>4 DEF StartTransfer, TypeOK
<1>5. CASE UNCHANGED <<tracker, result>> /\ phase # "thrown"
  BY <1>1, <1>5
<1>6. CASE CheckLoop \/ PrepareDone \/ UpdateDone \/ DrainCheck \/ DrainAgain
  BY <1>5, <1>6 DEF CheckLoop, PrepareDone, UpdateDone, DrainCheck, DrainAgain
<1>7. CASE \/ \E r \in Requests : CurlWrite(r)
           \/ \E r \in Requests, o \in Outcome : CurlDone(r, o)
           \/ \E r \in Requests : RetryElapse(r)
           \/ Interrupt \/ UNCHANGED vars
  BY <1>5, <1>7 DEF CurlWrite, CurlDone, RetryElapse, Interrupt, vars
<1> QED
  BY <1>2, <1>3, <1>4, <1>6, <1>7 DEF Next, DownloaderThread, Terminated

\* Nothing is counted once download() has returned.
LEMMA ReturnedStep == EndInv /\ [Next]_vars => ReturnedDone'
<1> SUFFICES ASSUME EndInv, [Next]_vars, phase' = "returned"
             PROVE  waiting' = 0
  BY DEF ReturnedDone
<1>1. CASE phase = "returned"
  <2>1. waiting' = waiting
    <3>1. \A r \in Requests : ~HandleMessage(r)
      BY <1>1 DEF HandleMessage, StepSucceeds, RequestSucceeds, RetryLater,
         SwitchMirror, GiveUp, Failing, TransferStopped, Popped
    <3> QED
      BY <1>1, <3>1 DEF Next, DownloaderThread, CheckLoop, RequestStop, StartTransfer,
         PrepareDone, UpdateDone, DrainCheck, DrainAgain, CurlWrite, CurlDone,
         RetryElapse, Interrupt, Terminated, vars
  <2> QED
    BY <1>1, <2>1 DEF EndInv, ReturnedDone
<1>2. CASE phase # "returned"
  <2>1. \A r \in Requests : ~HandleMessage(r)
    BY <1>2, OneMessage DEF EndInv
  <2>2. CheckLoop \/ DrainCheck
    BY <1>2, <2>1 DEF Next, DownloaderThread, RequestStop, StartTransfer,
       PrepareDone, UpdateDone, DrainAgain, CurlWrite, CurlDone,
       RetryElapse, Interrupt, Terminated, vars
  <2> QED
    BY <2>2 DEF CheckLoop, DrainCheck, DownloadDone
<1> QED
  BY <1>1, <1>2

LEMMA EndInit == Init => EndInv
<1> SUFFICES ASSUME Init
             PROVE  EndInv
  OBVIOUS
<1>1. LoopInv /\ TypeOK
  BY LoopInit, TypeInit
<1>2. completion = {} /\ Running = {}
  BY <1>1 DEF Init, LoopInv, CompletionMatchesRunning
<1>3. MirrorLoadExact
  <2>1. \A m \in Mirrors : stats[m].running = 0
    BY DEF Init
  <2>2. \A m \in Mirrors : LoadOn(m) = {}
    BY <1>2 DEF LoadOn
  <2> QED
    BY <2>1, <2>2, FS_EmptySet DEF MirrorLoadExact, LoadOn
<1>4. PartialIsPending /\ ReturnedDone
  BY DEF Init, PartialIsPending, ReturnedDone
<1>5. ResultsAgree
  BY DEF Init, ResultsAgree
<1> QED
  BY <1>1, <1>3, <1>4, <1>5 DEF EndInv

LEMMA EndInvariant == Spec => []EndInv
<1>1. EndInv /\ [Next]_vars => EndInv'
  BY LoopStep, LoadStep, PartialStep, ResultStep, ReturnedStep DEF EndInv
<1> QED
  BY EndInit, <1>1, PTL DEF Spec

\* When download() has returned, no tracker waits or runs.
LEMMA ReturnedIdle ==
  ASSUME EndInv, phase = "returned"
  PROVE  Active = {} /\ completion = {}
<1>1. TypeOK /\ LoopInv /\ waiting = 0
  BY DEF EndInv, LoopInv, ReturnedDone
<1>2. Cardinality(Active) = 0
  BY <1>1 DEF LoopInv, WaitingCountExact
<1>3. Active = {}
  BY <1>1, <1>2, FiniteSets, FS_EmptySet
<1> QED
  BY <1>1, <1>3 DEF LoopInv, CompletionMatchesRunning, Running, Active

-----------------------------------------------------------------------------
(***************************************************************************)
(* The theorems.                                                           *)
(***************************************************************************)

\* The invariant of the loop holds in every batch.
THEOREM LoopInvariant == Spec => []LoopInv
<1> QED
  BY LoopInit, LoopStep, PTL DEF Spec

\* m_waiting_count is the number of trackers with work left, whatever the
\* messages, the retries, the mirrors and the interruption.
THEOREM WaitingCount == Spec => []WaitingCountExact
<1>1. LoopInv => WaitingCountExact
  BY DEF LoopInv
<1> QED
  BY <1>1, LoopInvariant, PTL

\* m_completion_map holds a callback for exactly the running trackers.
THEOREM CompletionMap == Spec => []CompletionMatchesRunning
<1>1. LoopInv => CompletionMatchesRunning
  BY DEF LoopInv
<1> QED
  BY <1>1, LoopInvariant, PTL

\* Never more transfers than download_threads.
THEOREM Parallelism == Spec => []ParallelismBounded
<1>1. LoopInv => ParallelismBounded
  BY DEF LoopInv
<1> QED
  BY <1>1, LoopInvariant, PTL

\* prepare_request() stays within the generators of a selected mirror.
THEOREM StepsInRange == Spec => []StepInRange
<1>1. LoopInv => StepInRange
  BY DownloaderAssumption DEF LoopInv, AttemptMatchesTracker, StepInRange
<1> QED
  BY <1>1, LoopInvariant, PTL

\* A request delivers exactly once if it finishes, never otherwise.
THEOREM DeliversOnce == Spec => []AcceptedOnce
<1>1. LoopInv => AcceptedOnce
  BY DEF LoopInv
<1> QED
  BY <1>1, LoopInvariant, PTL

\* No transfer starts once a tracker was stopped.
THEOREM NoStartAfterStop == Spec => NoStartWhileStopping
<1>1. LoopInv /\ [Next]_vars =>
        ((\E r \in Requests : tracker[r] = "STOPPED") => (completion' \subseteq completion))
  <2> SUFFICES ASSUME LoopInv, [Next]_vars, NEW r \in Requests, tracker[r] = "STOPPED"
               PROVE  completion' \subseteq completion
    OBVIOUS
  <2>1. phase \in {"drainCheck", "drain", "returned", "thrown"}
    BY DEF LoopInv, StoppedOnlyDraining
  <2>2. ASSUME NEW q \in Requests, HandleMessage(q)
        PROVE  completion' \subseteq completion
    BY <2>2 DEF HandleMessage, StepSucceeds, RequestSucceeds, RetryLater, SwitchMirror,
       GiveUp, TransferStopped, Completed
  <2>3. \A q \in Requests : ~StartTransfer(q)
    BY <2>1 DEF StartTransfer
  <2> QED
    BY <2>2, <2>3
    DEF Next, DownloaderThread, CheckLoop, RequestStop, PrepareDone, UpdateDone,
        DrainCheck, DrainAgain, Terminated, CurlWrite, CurlDone, RetryElapse,
        Interrupt, vars
<1> QED
  BY <1>1, LoopInvariant, PTL DEF Spec, NoStartWhileStopping
\* running_transfers, which the choice among mirrors reads, is exact for every
\* mirror until a stop: a retry, a change of mirror or the end of one step of
\* an OCI sequence never leaves a mirror charged with a transfer that is over.
THEOREM MirrorLoad == Spec => []MirrorLoadExact
<1>1. EndInv => MirrorLoadExact
  BY DEF EndInv
<1> QED
  BY <1>1, EndInvariant, PTL

\* When download() returns, interrupted or not, no destination file holds a
\* truncated body: the transfer that wrote it has been handled, and the
\* handling of its end erased or completed the file.
THEOREM FilesComplete == Spec => []NoPartialFileLeft
<1>1. EndInv => NoPartialFileLeft
  BY ReturnedIdle DEF EndInv, PartialIsPending, NoPartialFileLeft
<1> QED
  BY <1>1, EndInvariant, PTL

\* When download() returns with fail_fast, every request has ended, and its
\* last result says how: a failure that had to be reported was thrown.
THEOREM OutcomesReported == Spec => []OutcomeReported
<1>1. EndInv => OutcomeReported
  <2> SUFFICES ASSUME EndInv, phase = "returned", FailFast, NEW r \in Requests
               PROVE  \/ tracker[r] = "FINISHED" /\ result[r] = "success"
                      \/ tracker[r] = "STOPPED" /\ result[r] = "stop"
                      \/ tracker[r] = "FAILED"
                         /\ (result[r] = "error" \/ r \in IgnoreFailure)
    BY DEF OutcomeReported
  <2>1. tracker[r] \in {"STOPPED", "FINISHED", "FAILED"}
    BY ReturnedIdle DEF Active, EndInv, LoopInv, TypeOK, TrackerState
  <2> QED
    BY <2>1 DEF EndInv, ResultsAgree
<1> QED
  BY <1>1, EndInvariant, PTL
=============================================================================
