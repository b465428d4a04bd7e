----------------------------- MODULE Downloader -----------------------------
(***************************************************************************)
(* The batch downloader of libmamba (libmamba/src/download).               *)
(*                                                                         *)
(* One Downloader drives a set of requests.  A DownloadTracker per request *)
(* goes through the mirrors of its channel; a MirrorAttempt goes through   *)
(* the sequence of transfers one mirror needs (one for HTTP mirrors, up to *)
(* three for OCI registries: token, manifest, blob).  libcurl runs the     *)
(* transfers and reports each end with a message; the downloader thread    *)
(* alternates between starting transfers and handling messages, and leaves *)
(* this loop when no tracker is waiting or running, when a failure throws, *)
(* or when the user's interruption has been drained.                       *)
(***************************************************************************)
EXTENDS Integers, Sequences, FiniteSets

CONSTANTS
  Requests,        \* the requests of one download() call
  Mirrors,         \* the mirrors known to the mirror_map
  MirrorsOf,       \* Requests -> sequence of mirrors, in mirror_set order
  StepCounts,      \* Mirrors -> possible lengths of its request sequence
  ToFile,          \* requests with a filename; the others keep the body in memory
  CheckOnly,       \* requests that only check the resource (HEAD)
  FileUrl,         \* requests whose URL is a file:// URL
  IgnoreFailure,   \* requests with ignore_failure set
  Monitored,       \* requests with a progress callback
  MaxMirrorTries,  \* DownloadTrackerOptions::max_mirror_tries
  MaxRetries,      \* Mirror::max_retries()
  DownloadThreads, \* Options::download_threads
  FailFast,        \* Options::fail_fast
  PriorFailures,   \* bound on failures a mirror carries from earlier batches
  Interruptible,   \* whether the user may interrupt the batch
  NoMirror         \* the null Mirror*

ASSUME DownloaderAssumption ==
  /\ IsFiniteSet(Requests)
  /\ MirrorsOf \in [Requests -> Seq(Mirrors)]
  /\ StepCounts \in [Mirrors -> SUBSET (1..3)]
  /\ \A m \in Mirrors : StepCounts[m] # {}
  /\ ToFile \subseteq Requests
  /\ CheckOnly \subseteq Requests
  /\ FileUrl \subseteq Requests
  /\ IgnoreFailure \subseteq Requests
  /\ Monitored \subseteq Requests
  /\ MaxMirrorTries \in Nat
  /\ MaxRetries \in Nat
  /\ DownloadThreads \in Nat \ {0}
  /\ FailFast \in BOOLEAN
  /\ PriorFailures \in Nat
  /\ Interruptible \in BOOLEAN
  /\ NoMirror \notin Mirrors

VARIABLES
  phase,       \* where the downloader thread is
  sig,         \* is_sig_interrupted()
  tracker,     \* DownloadTracker::m_state of each request
  attempt,     \* DownloadTracker::m_mirror_attempt of each request
  tried,       \* DownloadTracker::m_tried_mirrors of each request
  stats,       \* MirrorStats of each mirror
  waiting,     \* Downloader::m_waiting_count
  completion,  \* keys of Downloader::m_completion_map
  msg,         \* libcurl's pending DONE message for each request
  result,      \* the last entry of m_attempt_results
  file,        \* the destination file of each request
  accepted     \* history: initial on_success calls that returned no error

vars == <<phase, sig, tracker, attempt, tried, stats, waiting, completion,
          msg, result, file, accepted>>

TrackerState == {"WAITING", "RUNNING", "STOPPED", "FINISHED", "FAILED"}

AttemptState == {"WAITING_SEQUENCE_START", "RUNNING_DOWNLOAD",
                 "LAST_REQUEST_FINISHED", "LAST_REQUEST_FAILED",
                 "SEQUENCE_FINISHED", "SEQUENCE_FAILED", "SEQUENCE_STOPPED"}

\* How a transfer ends: "ok" and its success callback agreed, "rejected" by
\* the callback, an error that may be retried, one that may not, or aborted.
Outcome == {"ok", "rejected", "retriable", "fatal", "aborted"}

Attempt == [mirror  : Mirrors \union {NoMirror},
            state   : AttemptState,
            step    : Nat,
            steps   : 0..3,
            retries : Nat,
            wait    : {"none", "pending", "elapsed"}]

MirrorStats == [running : Int, ok : Nat, failed : Nat]

-----------------------------------------------------------------------------
(***************************************************************************)
(* Mirror selection.                                                       *)
(***************************************************************************)

First(S) == CHOOSE i \in S : \A j \in S : i <= j

\* A mirror that never delivered and has used up its retries.
IsBadMirror(st, m) == st[m].ok = 0 /\ st[m].failed >= MaxRetries

\* can_accept_more_connections() always holds: it compares with a cap that
\* cap_allowed_connections() would set, and nothing calls it.
UntriedMirrors(r, tr, st) ==
  {i \in 1..Len(MirrorsOf[r]) : /\ MirrorsOf[r][i] \notin tr
                                /\ ~IsBadMirror(st, MirrorsOf[r][i])}

\* The fallback rounds: round i accepts any mirror, tried or not, with fewer
\* than i failed transfers.
RoundMirrors(r, st, i) ==
  {j \in 1..Len(MirrorsOf[r]) : st[MirrorsOf[r][j]].failed < i}

FallbackRounds(r, st) == {i \in 1..(MaxMirrorTries - 1) : RoundMirrors(r, st, i) # {}}

SelectNewMirror(r, tr, st) ==
  IF UntriedMirrors(r, tr, st) # {}
  THEN MirrorsOf[r][First(UntriedMirrors(r, tr, st))]
  ELSE IF FallbackRounds(r, st) # {}
       THEN MirrorsOf[r][First(RoundMirrors(r, st, First(FallbackRounds(r, st))))]
       ELSE NoMirror

CanTryOtherMirror(r) ==
  /\ r \notin FileUrl
  /\ r \notin CheckOnly
  /\ Cardinality(tried[r]) < MaxMirrorTries

\* A MirrorAttempt as constructed, before its first transfer.
NewAttempt(m, n) ==
  [mirror |-> m, state |-> "WAITING_SEQUENCE_START", step |-> 0, steps |-> n,
   retries |-> 0, wait |-> "none"]

-----------------------------------------------------------------------------
(***************************************************************************)
(* MirrorAttempt queries and mirror accounting.                            *)
(***************************************************************************)

\* No request generator is left: the current transfer is the sequence's last.
HasFinished(a) == a.step = a.steps

\* Mutant: a failed attempt whose retry date has passed is never restarted.
CanStartNeverRetries(a) ==
  \/ a.state \in {"WAITING_SEQUENCE_START", "LAST_REQUEST_FINISHED"}
  \/ a.state = "LAST_REQUEST_FAILED" /\ a.wait = "none"

CanStartSequence(a) ==
  \/ a.state \in {"WAITING_SEQUENCE_START", "LAST_REQUEST_FINISHED"}
  \/ a.state = "LAST_REQUEST_FAILED" /\ a.wait # "pending"

CanStartTransfer(r) ==
  /\ tracker[r] = "WAITING"
  /\ CanStartSequence(attempt[r]) \/ CanTryOtherMirror(r)

\* Only the last transfer of a sequence inherits the request's check_only.
Recorded(r) == ~(r \in CheckOnly /\ HasFinished(attempt[r]))

\* The same holds for its progress callback, which honours a stop request.
Abortable(r) == r \in Monitored /\ HasFinished(attempt[r])

\* Mutant: running_transfers is not decremented.
TransferDoneKeepsRunning(r, success) ==
  [stats EXCEPT ![attempt[r].mirror] =
     [running |-> @.running,
      ok      |-> IF success /\ Recorded(r) THEN @.ok + 1 ELSE @.ok,
      failed  |-> IF ~success /\ Recorded(r) THEN @.failed + 1 ELSE @.failed]]

\* Mirror::update_transfers_done
TransferDone(r, success) ==
  [stats EXCEPT ![attempt[r].mirror] =
     [running |-> @.running - 1,
      ok      |-> IF success /\ Recorded(r) THEN @.ok + 1 ELSE @.ok,
      failed  |-> IF ~success /\ Recorded(r) THEN @.failed + 1 ELSE @.failed]]

\* The attempt may be repeated on the same mirror after this message.
RetriesLeft(r) ==
  msg[r] \in {"retriable", "rejected"} /\ attempt[r].retries < MaxRetries

\* The result a message leaves at the back of m_attempt_results.
ResultOf(m) == IF m \in {"ok", "rejected"} THEN "success" ELSE "error"

\* Mutant: the file of an erroneous transfer is kept.
CleanedFileKept(r) == file[r]

\* clean_attempt: an erroneous transfer erases what it wrote.  A request
\* outside ToFile has no file: it is "absent" and stays so.
CleanedFile(r) == IF msg[r] \in {"ok", "rejected"} THEN file[r] ELSE "absent"

-----------------------------------------------------------------------------
(***************************************************************************)
(* Construction.                                                           *)
(***************************************************************************)

Init ==
  /\ phase = "check"
  /\ sig = FALSE
  /\ \E prior \in [Mirrors -> 0..PriorFailures] :
       stats = [m \in Mirrors |-> [running |-> 0, ok |-> 0, failed |-> prior[m]]]
  /\ \E n \in [Requests -> 0..3], sel \in [Requests -> Mirrors \union {NoMirror}] :
       /\ \A r \in Requests :
            /\ sel[r] = SelectNewMirror(r, {}, stats)
            /\ n[r] \in IF sel[r] = NoMirror THEN {0} ELSE StepCounts[sel[r]]
       /\ attempt = [r \in Requests |-> NewAttempt(sel[r], n[r])]
       /\ tried = [r \in Requests |-> {sel[r]} \ {NoMirror}]
       /\ tracker = [r \in Requests |->
                       IF sel[r] = NoMirror THEN "FAILED" ELSE "WAITING"]
       /\ result = [r \in Requests |->
                       IF sel[r] = NoMirror THEN "error" ELSE "none"]
  /\ waiting = Cardinality({r \in Requests : tracker[r] = "WAITING"})
  /\ completion = {}
  /\ msg = [r \in Requests |-> "none"]
  /\ file = [r \in Requests |-> "absent"]
  /\ accepted = [r \in Requests |-> 0]

-----------------------------------------------------------------------------
(***************************************************************************)
(* libcurl and the outside world.                                          *)
(***************************************************************************)

\* A body arrives for the last transfer of a sequence: it goes to the file
\* the request names, if it names one.
CurlWrite(r) ==
  /\ r \in completion /\ msg[r] = "none"
  /\ HasFinished(attempt[r]) /\ r \in ToFile \ CheckOnly
  /\ file[r] # "partial"
  /\ phase \notin {"returned", "thrown"}
  /\ file' = [file EXCEPT ![r] = "partial"]
  /\ UNCHANGED <<phase, sig, tracker, attempt, tried, stats, waiting,
                 completion, msg, result, accepted>>

\* libcurl ends a transfer.  It only aborts one whose progress callback saw
\* a stop request; an error may come first.  A file:// error is not retriable.
CurlDone(r, o) ==
  /\ r \in completion /\ msg[r] = "none"
  /\ phase \notin {"returned", "thrown"}
  /\ o = "aborted" => phase \in {"drainCheck", "drain"} /\ Abortable(r)
  /\ o = "retriable" => r \notin FileUrl
  /\ msg' = [msg EXCEPT ![r] = o]
  /\ file' = [file EXCEPT ![r] =
                IF o \in {"ok", "rejected"} /\ @ = "partial" THEN "whole" ELSE @]
  /\ UNCHANGED <<phase, sig, tracker, attempt, tried, stats, waiting,
                 completion, result, accepted>>

\* The date in m_next_retry has passed.
RetryElapse(r) ==
  /\ attempt[r].wait = "pending"
  /\ attempt' = [attempt EXCEPT ![r].wait = "elapsed"]
  /\ UNCHANGED <<phase, sig, tracker, tried, stats, waiting, completion,
                 msg, result, file, accepted>>

Interrupt ==
  /\ Interruptible /\ ~sig
  /\ phase \notin {"returned", "thrown"}
  /\ sig' = TRUE
  /\ UNCHANGED <<phase, tracker, attempt, tried, stats, waiting, completion,
                 msg, result, file, accepted>>

-----------------------------------------------------------------------------
(***************************************************************************)
(* The downloader thread: Downloader::download() and what it calls.        *)
(***************************************************************************)

DownloadDone == waiting = 0

CheckLoop ==
  /\ phase = "check"
  /\ \/ DownloadDone /\ phase' = "returned"
     \/ ~DownloadDone /\ ~sig /\ phase' = "prepare"
  /\ UNCHANGED <<sig, tracker, attempt, tried, stats, waiting, completion,
                 msg, result, file, accepted>>

\* Trackers that have no transfer under way when a stop is requested.
ForceStopped == {r \in Requests : tracker[r] = "WAITING"}

\* request_stop() flags the running attempts and completes the waiting
\* trackers as stopped; the running ones are left to libcurl.
RequestStop ==
  /\ phase = "check" /\ ~DownloadDone /\ sig
  /\ phase' = "drainCheck"
  /\ tracker' = [r \in Requests |->
                   IF r \in ForceStopped THEN "STOPPED" ELSE tracker[r]]
  /\ attempt' = [r \in Requests |->
                   IF r \in ForceStopped
                   THEN [attempt[r] EXCEPT !.state = "SEQUENCE_STOPPED"]
                   ELSE attempt[r]]
  /\ result' = [r \in Requests |->
                   IF r \in ForceStopped THEN "stop" ELSE result[r]]
  /\ waiting' = waiting - Cardinality(ForceStopped)
  /\ UNCHANGED <<sig, tried, stats, completion, msg, file, accepted>>

HasCapacity == Cardinality(completion) < DownloadThreads

\* prepare_request(): a failed transfer is repeated, otherwise the next
\* request of the sequence is built.
StartedAttempt(a) ==
  IF a.state = "LAST_REQUEST_FAILED"
  THEN [a EXCEPT !.state = "RUNNING_DOWNLOAD", !.wait = "none", !.retries = @ + 1]
  ELSE [a EXCEPT !.state = "RUNNING_DOWNLOAD", !.step = @ + 1]

\* prepare_next_downloads(), one startable tracker at a time.
StartTransfer(r) ==
  /\ phase = "prepare"
  /\ HasCapacity
  /\ CanStartTransfer(r)
  /\ tracker' = [tracker EXCEPT ![r] = "RUNNING"]
  /\ attempt' = [attempt EXCEPT ![r] = StartedAttempt(@)]
  /\ stats' = [stats EXCEPT ![attempt[r].mirror].running = @ + 1]
  /\ completion' = completion \union {r}
  /\ UNCHANGED <<phase, sig, tried, waiting, msg, result, file, accepted>>

PrepareDone ==
  /\ phase = "prepare"
  /\ ~HasCapacity \/ \A r \in Requests : ~CanStartTransfer(r)
  /\ phase' = "update"
  /\ UNCHANGED <<sig, tracker, attempt, tried, stats, waiting, completion,
                 msg, result, file, accepted>>

\* update_downloads() pops the message of r.
Popped(r) ==
  /\ phase \in {"update", "drain"}
  /\ r \in completion /\ msg[r] # "none"
  /\ msg' = [msg EXCEPT ![r] = "none"]
  /\ UNCHANGED <<sig>>

\* Mutant: the callback's still_waiting answer is ignored.
CompletedAlwaysCounts(r) ==
  /\ completion' = completion \ {r}
  /\ waiting' = waiting - 1
  /\ result' = [result EXCEPT ![r] = ResultOf(msg[r])]
  /\ UNCHANGED phase

\* What follows a completion callback that returned: the entry is erased and
\* the tracker is counted out unless it is waiting again.
Completed(r) ==
  /\ completion' = completion \ {r}
  /\ waiting' = IF tracker'[r] = "WAITING" THEN waiting ELSE waiting - 1
  /\ result' = [result EXCEPT ![r] = ResultOf(msg[r])]
  /\ UNCHANGED phase

\* An intermediate transfer succeeded: the sequence goes on.
StepSucceeds(r) ==
  /\ Popped(r) /\ msg[r] = "ok" /\ ~HasFinished(attempt[r])
  /\ tracker' = [tracker EXCEPT ![r] = "WAITING"]
  /\ attempt' = [attempt EXCEPT ![r].state = "LAST_REQUEST_FINISHED"]
  /\ stats' = TransferDone(r, TRUE)
  /\ Completed(r)
  /\ UNCHANGED <<tried, file, accepted>>

\* The last transfer succeeded and the request's on_success accepted it.
RequestSucceeds(r) ==
  /\ Popped(r) /\ msg[r] = "ok" /\ HasFinished(attempt[r])
  /\ tracker' = [tracker EXCEPT ![r] = "FINISHED"]
  /\ attempt' = [attempt EXCEPT ![r].state = "SEQUENCE_FINISHED"]
  /\ stats' = TransferDone(r, TRUE)
  /\ accepted' = [accepted EXCEPT ![r] = @ + 1]
  /\ Completed(r)
  /\ UNCHANGED <<tried, file>>

Failing(r) ==
  /\ Popped(r) /\ msg[r] \in {"rejected", "retriable", "fatal"}
  /\ stats' = TransferDone(r, FALSE)
  /\ file' = [file EXCEPT ![r] = CleanedFile(r)]
  /\ UNCHANGED accepted

\* A retriable error also sets the date of the retry.
FailedAttempt(a, o) ==
  [a EXCEPT !.state = "LAST_REQUEST_FAILED",
            !.wait = IF o = "retriable" THEN "pending" ELSE @]

\* set_error_state(): the same mirror will be asked again.
RetryLater(r) ==
  /\ Failing(r) /\ RetriesLeft(r)
  /\ tracker' = [tracker EXCEPT ![r] = "WAITING"]
  /\ attempt' = [attempt EXCEPT ![r] = FailedAttempt(@, msg[r])]
  /\ Completed(r)
  /\ UNCHANGED tried

\* set_error_state(): a fresh attempt on the mirror prepare_mirror_attempt()
\* selects, which may be one already tried.
SwitchMirror(r) ==
  /\ Failing(r) /\ ~RetriesLeft(r) /\ CanTryOtherMirror(r)
  /\ LET m == SelectNewMirror(r, tried[r], stats')
     IN  /\ m # NoMirror
         /\ \E n \in StepCounts[m] :
              attempt' = [attempt EXCEPT ![r] = NewAttempt(m, n)]
         /\ tried' = [tried EXCEPT ![r] = @ \union {m}]
  /\ tracker' = [tracker EXCEPT ![r] = "WAITING"]
  /\ Completed(r)

\* Mutant: fail_fast is not consulted and a rejected success never throws.
ThrowsOnErrorOnly(r) == r \notin IgnoreFailure /\ msg[r] # "rejected"

\* throw_if_required: a rejected success only throws with fail_fast.
ThrowsOnFailure(r) ==
  r \notin IgnoreFailure /\ (msg[r] = "rejected" => FailFast)

\* set_error_state(): no retry and no mirror left.
GiveUp(r) ==
  /\ Failing(r) /\ ~RetriesLeft(r)
  /\ \/ ~CanTryOtherMirror(r)
     \/ SelectNewMirror(r, tried[r], stats') = NoMirror
  /\ tracker' = [tracker EXCEPT ![r] = "FAILED"]
  /\ attempt' = [attempt EXCEPT ![r].state = "SEQUENCE_FAILED"]
  /\ IF ThrowsOnFailure(r)
     THEN phase' = "thrown" /\ UNCHANGED <<completion, waiting, result>>
     ELSE Completed(r)
  /\ UNCHANGED tried

\* finish_download() on CURLE_ABORTED_BY_CALLBACK.
TransferStopped(r) ==
  /\ Popped(r) /\ msg[r] = "aborted"
  /\ tracker' = [tracker EXCEPT ![r] = "STOPPED"]
  /\ attempt' = [attempt EXCEPT ![r].state = "SEQUENCE_STOPPED"]
  /\ file' = [file EXCEPT ![r] = "absent"]
  /\ result' = [result EXCEPT ![r] = "stop"]
  /\ completion' = completion \ {r}
  /\ waiting' = waiting - 1
  /\ UNCHANGED <<phase, tried, stats, accepted>>

NoMessage == \A r \in completion : msg[r] = "none"

UpdateDone ==
  /\ phase = "update" /\ NoMessage
  /\ phase' = "check"
  /\ UNCHANGED <<sig, tracker, attempt, tried, stats, waiting, completion,
                 msg, result, file, accepted>>

\* download_while_stopping(): messages are handled until nobody is counted.
DrainCheck ==
  /\ phase = "drainCheck"
  /\ phase' = IF DownloadDone THEN "returned" ELSE "drain"
  /\ UNCHANGED <<sig, tracker, attempt, tried, stats, waiting, completion,
                 msg, result, file, accepted>>

\* Mutant: draining runs the normal loop, which starts transfers.
DrainAgainPrepares ==
  /\ phase = "drain" /\ NoMessage
  /\ phase' = "prepare"
  /\ UNCHANGED <<sig, tracker, attempt, tried, stats, waiting, completion,
                 msg, result, file, accepted>>

DrainAgain ==
  /\ phase = "drain" /\ NoMessage
  /\ phase' = "drainCheck"
  /\ UNCHANGED <<sig, tracker, attempt, tried, stats, waiting, completion,
                 msg, result, file, accepted>>

HandleMessage(r) ==
  \/ StepSucceeds(r)
  \/ RequestSucceeds(r)
  \/ RetryLater(r)
  \/ SwitchMirror(r)
  \/ GiveUp(r)
  \/ TransferStopped(r)

DownloaderThread ==
  \/ CheckLoop
  \/ RequestStop
  \/ \E r \in Requests : StartTransfer(r)
  \/ PrepareDone
  \/ \E r \in Requests : HandleMessage(r)
  \/ UpdateDone
  \/ DrainCheck
  \/ DrainAgain

\* download() has returned or thrown: nothing is left to do.
Terminated == phase \in {"returned", "thrown"} /\ UNCHANGED vars

Next ==
  \/ DownloaderThread
  \/ \E r \in Requests : CurlWrite(r)
  \/ \E r \in Requests, o \in Outcome : CurlDone(r, o)
  \/ \E r \in Requests : RetryElapse(r)
  \/ Interrupt
  \/ Terminated

Spec == Init /\ [][Next]_vars

\* The thread keeps running, transfers end (libcurl's connect timeout and
\* low-speed limit), and the clock moves on.
Fairness ==
  /\ WF_vars(DownloaderThread)
  /\ \A r \in Requests : WF_vars(\E o \in Outcome : CurlDone(r, o))
  /\ \A r \in Requests : WF_vars(RetryElapse(r))

FairSpec == Spec /\ Fairness

-----------------------------------------------------------------------------
(***************************************************************************)
(* Correctness.                                                            *)
(***************************************************************************)

Phases == {"check", "prepare", "update", "drainCheck", "drain", "returned", "thrown"}

\* Every variable of the downloader keeps its type.
TypeOK ==
  /\ phase \in Phases
  /\ sig \in BOOLEAN
  /\ tracker \in [Requests -> TrackerState]
  /\ attempt \in [Requests -> Attempt]
  /\ tried \in [Requests -> SUBSET Mirrors]
  /\ stats \in [Mirrors -> MirrorStats]
  /\ waiting \in Int
  /\ completion \in SUBSET Requests
  /\ msg \in [Requests -> Outcome \union {"none"}]
  /\ result \in [Requests -> {"none", "success", "error", "stop"}]
  /\ file \in [Requests -> {"absent", "partial", "whole"}]
  /\ accepted \in [Requests -> Nat]

Running == {r \in Requests : tracker[r] = "RUNNING"}

Active == {r \in Requests : tracker[r] \in {"WAITING", "RUNNING"}}

\* m_waiting_count, which decides when download() leaves its loop and which
\* is an unsigned counter, is the number of trackers that still have work,
\* through retries, mirror changes, failures and stops, until a throw.
WaitingCountExact == phase # "thrown" => waiting = Cardinality(Active)

\* m_completion_map holds a callback for exactly the running trackers: no
\* message is lost as coming from an unknown target, none is handled twice.
CompletionMatchesRunning == phase # "thrown" => completion = Running

\* No more transfers run than Options::download_threads.
ParallelismBounded == Cardinality(completion) <= DownloadThreads

\* Until a stop, each mirror's running_transfers counts exactly the trackers
\* running on it, whatever mirror changes and retries happened.
MirrorLoadExact ==
  phase \in {"check", "prepare", "update"} =>
    \A m \in Mirrors :
      stats[m].running = Cardinality({r \in Running : attempt[r].mirror = m})

\* prepare_request() never indexes m_request_generators past its end, and a
\* running transfer always belongs to a generator of a selected mirror.
StepInRange ==
  \A r \in Requests :
    tracker[r] = "RUNNING" => /\ attempt[r].mirror # NoMirror
                              /\ attempt[r].step \in 1..attempt[r].steps

\* A request's on_success is accepted exactly once if the tracker finishes
\* and never otherwise: a retried or re-mirrored request delivers once.
AcceptedOnce ==
  \A r \in Requests : accepted[r] = IF tracker[r] = "FINISHED" THEN 1 ELSE 0

\* When download() returns, no destination file holds a truncated body.
NoPartialFileLeft ==
  phase = "returned" => \A r \in Requests : file[r] # "partial"

\* When download() returns with fail_fast, every request has ended and its
\* last result agrees with how it ended; failures of requests that do not
\* ignore them are reported as errors.
OutcomeReported ==
  phase = "returned" /\ FailFast =>
    \A r \in Requests :
      \/ tracker[r] = "FINISHED" /\ result[r] = "success"
      \/ tracker[r] = "STOPPED" /\ result[r] = "stop"
      \/ tracker[r] = "FAILED" /\ (result[r] = "error" \/ r \in IgnoreFailure)

\* Once a tracker was stopped no transfer is started, retries of transfers
\* that fail while the batch drains included.
NoStartWhileStopping ==
  [][(\E r \in Requests : tracker[r] = "STOPPED")
       => (completion' \subseteq completion)]_vars

\* A batch nobody interrupts ends: retries and mirror changes run out.
Termination == []~sig => <>(phase \in {"returned", "thrown"})

\* An interrupted batch ends: "downloads that already started will end
\* naturally when receiving the proper libcurl message".  It does not hold: a
\* transfer that fails in a retriable way, or that ends a step of an OCI
\* sequence, while the batch drains waits again and nobody serves it.
StopTerminates == sig ~> phase \in {"returned", "thrown"}
=============================================================================
