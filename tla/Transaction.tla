----------------------------- MODULE Transaction -----------------------------
(***************************************************************************)
(* MTransaction::execute(): how a solution is applied to a prefix          *)
(* (libmamba/src/core/transaction.cpp) with LinkPackage and UnlinkPackage  *)
(* (link.cpp), which work on one file after the other and write or erase   *)
(* the package's conda-meta record last.  Whatever has been done is        *)
(* recorded on two stacks, so that an exception from a package or the      *)
(* user's interruption undoes it.  Python files are compiled meanwhile by  *)
(* a child process.  The process may be killed at any point.               *)
(***************************************************************************)
EXTENDS Integers, Sequences, FiniteSets

CONSTANTS
  Packages,     \* conda packages (name, version, build)
  Paths,        \* files of the prefix
  PathsOf,      \* Packages -> the paths of info/paths.json
  PycOf,        \* Packages -> the .pyc files a noarch:python package records
  Names,        \* package names
  NameOf,       \* Packages -> Names
  Installed,    \* packages recorded in conda-meta when the transaction starts
  Remove,       \* Solution::packages_to_remove()
  Install,      \* Solution::packages_to_install()
  Requested,    \* names with an exact spec among the requested specs
  PipRecords,   \* names PrefixData::pip_records() holds
  PyPI,         \* packages whose channel is PyPI
  MaxFailures,  \* bound on the exceptions of one transaction
  NoPackage     \* no package: the content of an absent file

Elements(seq) == {seq[i] : i \in 1..Len(seq)}

\* Packages to remove that are left to pip, by their name or by their channel.
IsPip(p) == NameOf[p] \in PipRecords \/ p \in PyPI

\* What the prefix may hold while packages are linked.
Final == (Installed \ {p \in Elements(Remove) : ~IsPip(p)}) \union Elements(Install)

\* Packages that are installed together do not clobber each other's files.
Disjoint(S) == \A p, q \in S : p # q => PathsOf[p] \cap PathsOf[q] = {}

ASSUME TransactionAssumption ==
  /\ PathsOf \in [Packages -> SUBSET Paths]
  /\ PycOf \in [Packages -> SUBSET Paths]
  /\ \A p, q \in Packages : PathsOf[p] \cap PycOf[q] = {}
  /\ NameOf \in [Packages -> Names]
  /\ Installed \subseteq Packages
  /\ Remove \in Seq(Installed) /\ Install \in Seq(Packages)
  /\ Disjoint(Installed) /\ Disjoint(Final)
  /\ Requested \subseteq Names /\ PipRecords \subseteq Names /\ PyPI \subseteq Packages
  /\ MaxFailures \in Nat
  /\ NoPackage \notin Packages

VARIABLES
  interop,      \* Context::prefix_data_interoperability, which never changes
  phase,        \* where execute() is
  sig,          \* is_sig_interrupted()
  cached,       \* packages with a valid extracted directory in the caches
  todo,         \* packages the current loop has still to visit
  op,           \* the LinkPackage or UnlinkPackage being executed
  linkStack,    \* TransactionRollback::m_link_stack, its top first
  unlinkStack,  \* TransactionRollback::m_unlink_stack, its top first
  records,      \* packages with a JSON record in conda-meta
  file,         \* which package's content each path of the prefix has
  pyc,          \* .pyc files the compilation process has still to write
  pip,          \* names installed by pip
  entry,        \* m_history_entry: the unlinked and linked dists
  verdict,      \* why a rollback is under way
  outcome,      \* how execute() ended
  failures,     \* exceptions so far
  failed        \* history: packages whose execute() threw

vars == <<interop, phase, sig, cached, todo, op, linkStack, unlinkStack, records, file,
          pyc, pip, entry, verdict, outcome, failures, failed>>

NoOp == [kind |-> "none", pkg |-> NoPackage, left |-> {}, compiled |-> FALSE]

Phase == {"start", "fetch", "pip", "unlink", "link", "rollback", "finish",
          "closing", "ended"}

Outcome == {"none", "skipped", "done", "cancelled", "interrupted", "thrown", "killed"}

InitialFile ==
  [x \in Paths |-> IF \E p \in Installed : x \in PathsOf[p] \union PycOf[p]
                   THEN CHOOSE p \in Installed : x \in PathsOf[p] \union PycOf[p]
                   ELSE NoPackage]

Init ==
  /\ interop \in BOOLEAN
  /\ phase = "start"
  /\ sig = FALSE
  /\ cached \in SUBSET Packages
  /\ todo = <<>>
  /\ op = NoOp
  /\ linkStack = <<>> /\ unlinkStack = <<>>
  /\ records = Installed
  /\ file = InitialFile
  /\ pyc = [p \in Packages |-> {}]
  /\ pip = PipRecords
  /\ entry = [unlinked |-> {}, linked |-> {}]
  /\ verdict = "none" /\ outcome = "none"
  /\ failures = 0 /\ failed = {}

-----------------------------------------------------------------------------
(***************************************************************************)
(* Before the prefix is changed.                                           *)
(***************************************************************************)

\* A dry run or an early interruption returns true without doing anything.
Begin ==
  /\ phase = "start"
  /\ \/ phase' = "closing" /\ outcome' = "skipped"
     \/ ~sig /\ phase' = "fetch" /\ UNCHANGED outcome
  /\ UNCHANGED <<interop, sig, cached, todo, op, linkStack, unlinkStack, records, file,
                 pyc, pip, entry, verdict, failures, failed>>

\* fetch_extract_packages() throws on an incorrect download or a failed
\* request.  It also returns false when a request found no mirror at all, a
\* result execute() ignores: packages may then lack their extracted directory.
Fetch ==
  /\ phase = "fetch"
  /\ \/ /\ failures < MaxFailures /\ failures' = failures + 1
        /\ phase' = "closing" /\ outcome' = "thrown" /\ UNCHANGED cached
     \/ /\ \E got \in SUBSET Elements(Install) :
             /\ cached' = cached \union got
             /\ Elements(Install) \subseteq cached' \/ failures < MaxFailures
             /\ failures' = IF Elements(Install) \subseteq cached'
                            THEN failures ELSE failures + 1
        /\ \/ phase' = "closing" /\ outcome' = "skipped"
           \/ ~sig /\ phase' = "pip" /\ UNCHANGED outcome
  /\ UNCHANGED <<interop, sig, todo, op, linkStack, unlinkStack, records, file, pyc,
                 pip, entry, verdict, failed>>

\* The pip packages that the solution removes or that conflict with it.
PipTargets ==
  {n \in PipRecords :
     \/ n \in Requested
     \/ \E p \in Elements(Install) \union (Elements(Remove) \intersect PyPI) : NameOf[p] = n}

\* With interoperability they are uninstalled; a failure is only logged.
UninstallPip ==
  /\ phase = "pip"
  /\ IF interop THEN \E gone \in SUBSET PipTargets : pip' = pip \ gone
                ELSE UNCHANGED pip
  /\ phase' = "unlink" /\ todo' = Remove
  /\ UNCHANGED <<interop, sig, cached, op, linkStack, unlinkStack, records, file, pyc,
                 entry, verdict, outcome, failures, failed>>

-----------------------------------------------------------------------------
(***************************************************************************)
(* UnlinkPackage::execute() and LinkPackage::execute(), run by the loops   *)
(* and by the rollback (undo() is the opposite package's execute()).       *)
(***************************************************************************)

\* Mutant: the compiled files are not among those erased.
UnlinkingSources(p) ==
  [kind |-> "unlink", pkg |-> p, left |-> IF p \in records THEN PathsOf[p] ELSE {},
   compiled |-> FALSE]

\* The files the record lists, the compiled ones included; a package without a
\* record is taken for unlinked.
Unlinking(p) ==
  [kind |-> "unlink", pkg |-> p,
   left |-> IF p \in records THEN PathsOf[p] \union PycOf[p] ELSE {},
   compiled |-> FALSE]

Linking(p) == [kind |-> "link", pkg |-> p, left |-> PathsOf[p], compiled |-> FALSE]

\* The thread is at work on a package.
Working(kind) == op.kind = kind /\ phase # "ended"

UnlinkPath(x) ==
  /\ Working("unlink") /\ x \in op.left
  /\ file' = [file EXCEPT ![x] = NoPackage]
  /\ op' = [op EXCEPT !.left = @ \ {x}]
  /\ UNCHANGED <<interop, phase, sig, cached, todo, linkStack, unlinkStack, records,
                 pyc, pip, entry, verdict, outcome, failures, failed>>

\* A file that is already there is removed before the new one is made.
ClearPath(x) ==
  /\ Working("link") /\ x \in op.left /\ file[x] # NoPackage
  /\ file' = [file EXCEPT ![x] = NoPackage]
  /\ UNCHANGED <<interop, phase, sig, cached, todo, op, linkStack, unlinkStack, records,
                 pyc, pip, entry, verdict, outcome, failures, failed>>

LinkPath(x) ==
  /\ Working("link") /\ x \in op.left /\ file[x] = NoPackage
  /\ file' = [file EXCEPT ![x] = op.pkg]
  /\ op' = [op EXCEPT !.left = @ \ {x}]
  /\ UNCHANGED <<interop, phase, sig, cached, todo, linkStack, unlinkStack, records,
                 pyc, pip, entry, verdict, outcome, failures, failed>>

\* compile_pyc_files(): the sources go to the compilation process.
QueuePyc ==
  /\ Working("link") /\ op.left = {} /\ ~op.compiled
  /\ op' = [op EXCEPT !.compiled = TRUE]
  /\ pyc' = [pyc EXCEPT ![op.pkg] = PycOf[op.pkg]]
  /\ UNCHANGED <<interop, phase, sig, cached, todo, linkStack, unlinkStack, records,
                 file, pip, entry, verdict, outcome, failures, failed>>

\* Mutant: the record is written before the files.
LinkCompleteEarly == op.kind = "link"

UnlinkComplete == op.kind = "unlink" /\ op.left = {}
LinkComplete == op.kind = "link" /\ op.left = {} /\ op.compiled

\* Mutant: the package is not recorded for a rollback.
UnlinkedUnrecorded ==
  /\ UnlinkComplete /\ phase = "unlink"
  /\ records' = records \ {op.pkg}
  /\ op' = NoOp
  /\ todo' = Tail(todo)
  /\ entry' = [entry EXCEPT !.unlinked = @ \union {op.pkg}]
  /\ UNCHANGED <<interop, phase, sig, cached, linkStack, unlinkStack, file, pyc, pip,
                 verdict, outcome, failures, failed>>

\* The record is erased last; the loop then records the package twice, for a
\* rollback and for the history.
Unlinked ==
  /\ UnlinkComplete /\ phase = "unlink"
  /\ records' = records \ {op.pkg}
  /\ op' = NoOp
  /\ unlinkStack' = <<op.pkg>> \o unlinkStack
  /\ todo' = Tail(todo)
  /\ entry' = [entry EXCEPT !.unlinked = @ \union {op.pkg}]
  /\ UNCHANGED <<interop, phase, sig, cached, linkStack, file, pyc, pip, verdict,
                 outcome, failures, failed>>

Linked ==
  /\ LinkComplete /\ phase = "link"
  /\ records' = records \union {op.pkg}
  /\ op' = NoOp
  /\ linkStack' = <<op.pkg>> \o linkStack
  /\ todo' = Tail(todo)
  /\ entry' = [entry EXCEPT !.linked = @ \union {op.pkg}]
  /\ UNCHANGED <<interop, phase, sig, cached, unlinkStack, file, pyc, pip, verdict,
                 outcome, failures, failed>>

\* A script, an unreadable file or a full disk: execute() throws where it is.
\* The package is on no stack, so what it did so far stays.
Fail ==
  /\ Working("unlink") \/ Working("link")
  /\ failures < MaxFailures
  /\ failures' = failures + 1
  /\ failed' = failed \union {op.pkg}
  /\ op' = NoOp
  /\ IF phase = "rollback"
     THEN phase' = "closing" /\ outcome' = "thrown" /\ UNCHANGED verdict
     ELSE phase' = "rollback" /\ verdict' = "cancelled" /\ UNCHANGED outcome
  /\ UNCHANGED <<interop, sig, cached, todo, linkStack, unlinkStack, records, file,
                 pyc, pip, entry>>

-----------------------------------------------------------------------------
(***************************************************************************)
(* The loops of execute().                                                 *)
(***************************************************************************)

\* The unlink loop ends, or breaks when interrupted; the link loop follows.
UnlinkLoopEnd ==
  /\ phase = "unlink" /\ op = NoOp
  /\ sig \/ todo = <<>>
  /\ phase' = "link" /\ todo' = Install
  /\ UNCHANGED <<interop, sig, cached, op, linkStack, unlinkStack, records, file, pyc,
                 pip, entry, verdict, outcome, failures, failed>>

\* A package left to pip is only entered in the history.
SkipUnlink ==
  /\ phase = "unlink" /\ op = NoOp /\ ~sig /\ todo # <<>>
  /\ IsPip(Head(todo))
  /\ todo' = Tail(todo)
  /\ entry' = [entry EXCEPT !.unlinked = @ \union {Head(todo)}]
  /\ UNCHANGED <<interop, phase, sig, cached, op, linkStack, unlinkStack, records, file,
                 pyc, pip, verdict, outcome, failures, failed>>

BeginUnlink ==
  /\ phase = "unlink" /\ op = NoOp /\ ~sig /\ todo # <<>>
  /\ ~IsPip(Head(todo))
  /\ op' = Unlinking(Head(todo))
  /\ UNCHANGED <<interop, phase, sig, cached, todo, linkStack, unlinkStack, records,
                 file, pyc, pip, entry, verdict, outcome, failures, failed>>

\* Without interoperability a pip package is kept unless it was requested.
KeepsPip(p) == ~interop /\ NameOf[p] \in PipRecords /\ NameOf[p] \notin Requested

\* Mutant: the package is entered in the history all the same.
SkipLinkEntered ==
  /\ phase = "link" /\ op = NoOp /\ ~sig /\ todo # <<>>
  /\ KeepsPip(Head(todo))
  /\ todo' = Tail(todo)
  /\ entry' = [entry EXCEPT !.linked = @ \union {Head(todo)}]
  /\ UNCHANGED <<interop, phase, sig, cached, op, linkStack, unlinkStack, records, file,
                 pyc, pip, verdict, outcome, failures, failed>>

SkipLink ==
  /\ phase = "link" /\ op = NoOp /\ ~sig /\ todo # <<>>
  /\ KeepsPip(Head(todo))
  /\ todo' = Tail(todo)
  /\ UNCHANGED <<interop, phase, sig, cached, op, linkStack, unlinkStack, records, file,
                 pyc, pip, entry, verdict, outcome, failures, failed>>

\* get_extracted_dir_path() throws outside of the try block when the package
\* has no extracted directory.
BeginLink ==
  /\ phase = "link" /\ op = NoOp /\ ~sig /\ todo # <<>>
  /\ ~KeepsPip(Head(todo))
  /\ IF Head(todo) \in cached
     THEN op' = Linking(Head(todo)) /\ UNCHANGED <<interop, phase, outcome>>
     ELSE phase' = "closing" /\ outcome' = "thrown" /\ UNCHANGED op
  /\ UNCHANGED <<interop, sig, cached, todo, linkStack, unlinkStack, records, file, pyc,
                 pip, entry, verdict, failures, failed>>

\* Mutant: the interruption is not looked at after the loops.
LinkLoopEndIgnoresSig ==
  /\ phase = "link" /\ op = NoOp
  /\ sig \/ todo = <<>>
  /\ phase' = "finish"
  /\ UNCHANGED <<interop, sig, cached, todo, op, linkStack, unlinkStack, records, file,
                 pyc, pip, entry, verdict, outcome, failures, failed>>

LinkLoopEnd ==
  /\ phase = "link" /\ op = NoOp
  /\ \/ sig /\ phase' = "rollback" /\ verdict' = "interrupted"
     \/ ~sig /\ todo = <<>> /\ phase' = "finish" /\ UNCHANGED verdict
  /\ UNCHANGED <<interop, sig, cached, todo, op, linkStack, unlinkStack, records, file,
                 pyc, pip, entry, outcome, failures, failed>>

-----------------------------------------------------------------------------
(***************************************************************************)
(* TransactionRollback::rollback().                                        *)
(***************************************************************************)

\* Linked packages are unlinked first, the last one first.
UndoLink ==
  /\ phase = "rollback" /\ op = NoOp /\ linkStack # <<>>
  /\ op' = Unlinking(Head(linkStack))
  /\ UNCHANGED <<interop, phase, sig, cached, todo, linkStack, unlinkStack, records,
                 file, pyc, pip, entry, verdict, outcome, failures, failed>>

\* Mutant: the undone package stays on its stack.
LinkUndoneKeepsTop ==
  /\ phase = "rollback" /\ UnlinkComplete
  /\ records' = records \ {op.pkg}
  /\ op' = NoOp
  /\ UNCHANGED <<interop, phase, sig, cached, todo, linkStack, unlinkStack, file, pyc,
                 pip, entry, verdict, outcome, failures, failed>>

LinkUndone ==
  /\ phase = "rollback" /\ UnlinkComplete
  /\ records' = records \ {op.pkg}
  /\ op' = NoOp
  /\ linkStack' = Tail(linkStack)
  /\ UNCHANGED <<interop, phase, sig, cached, todo, unlinkStack, file, pyc, pip, entry,
                 verdict, outcome, failures, failed>>

\* Mutant: unlinked packages come back while new ones are still linked.
UndoUnlinkFirst ==
  /\ phase = "rollback" /\ op = NoOp /\ unlinkStack # <<>>
  /\ IF Head(unlinkStack) \in cached
     THEN op' = Linking(Head(unlinkStack)) /\ UNCHANGED <<interop, phase, outcome>>
     ELSE phase' = "closing" /\ outcome' = "thrown" /\ UNCHANGED op
  /\ UNCHANGED <<interop, sig, cached, todo, linkStack, unlinkStack, records, file,
                 pyc, pip, entry, verdict, failures, failed>>

\* Unlinked packages are linked again from the cache, the last one first; one
\* that is not cached has no readable source, and the rollback ends there.
UndoUnlink ==
  /\ phase = "rollback" /\ op = NoOp /\ linkStack = <<>> /\ unlinkStack # <<>>
  /\ IF Head(unlinkStack) \in cached
     THEN op' = Linking(Head(unlinkStack)) /\ UNCHANGED <<interop, phase, outcome>>
     ELSE phase' = "closing" /\ outcome' = "thrown" /\ UNCHANGED op
  /\ UNCHANGED <<interop, sig, cached, todo, linkStack, unlinkStack, records, file,
                 pyc, pip, entry, verdict, failures, failed>>

UnlinkUndone ==
  /\ phase = "rollback" /\ LinkComplete
  /\ records' = records \union {op.pkg}
  /\ op' = NoOp
  /\ unlinkStack' = Tail(unlinkStack)
  /\ UNCHANGED <<interop, phase, sig, cached, todo, linkStack, file, pyc, pip, entry,
                 verdict, outcome, failures, failed>>

RolledBack ==
  /\ phase = "rollback" /\ op = NoOp
  /\ linkStack = <<>> /\ unlinkStack = <<>>
  /\ phase' = "closing" /\ outcome' = verdict
  /\ UNCHANGED <<interop, sig, cached, todo, op, linkStack, unlinkStack, records, file,
                 pyc, pip, entry, verdict, failures, failed>>

-----------------------------------------------------------------------------
(***************************************************************************)
(* The end, and the environment.                                           *)
(***************************************************************************)

NothingToCompile == \A p \in Packages : pyc[p] = {}

\* wait_for_pyc_compilation(), then History::add_entry(), which may throw.
Finish ==
  /\ phase = "finish" /\ NothingToCompile
  /\ phase' = "closing"
  /\ \/ outcome' = "done" /\ UNCHANGED failures
     \/ /\ failures < MaxFailures /\ failures' = failures + 1
        /\ outcome' = "thrown"
  /\ UNCHANGED <<interop, sig, cached, todo, op, linkStack, unlinkStack, records, file,
                 pyc, pip, entry, verdict, failed>>

\* ~TransactionContext() waits for the compilation too.
Close ==
  /\ phase = "closing" /\ NothingToCompile
  /\ phase' = "ended"
  /\ UNCHANGED <<interop, sig, cached, todo, op, linkStack, unlinkStack, records, file,
                 pyc, pip, entry, verdict, outcome, failures, failed>>

\* The compilation process writes a file or fails to.
CompilePyc(p, x) ==
  /\ phase # "ended"
  /\ x \in pyc[p]
  /\ pyc' = [pyc EXCEPT ![p] = @ \ {x}]
  /\ file' \in {[file EXCEPT ![x] = p], file}
  /\ UNCHANGED <<interop, phase, sig, cached, todo, op, linkStack, unlinkStack, records,
                 pip, entry, verdict, outcome, failures, failed>>

Interrupt ==
  /\ ~sig /\ phase \notin {"closing", "ended"}
  /\ sig' = TRUE
  /\ UNCHANGED <<interop, phase, cached, todo, op, linkStack, unlinkStack, records,
                 file, pyc, pip, entry, verdict, outcome, failures, failed>>

\* The process is killed: nothing else happens, nothing is recovered later.
Kill ==
  /\ phase # "ended"
  /\ phase' = "ended" /\ outcome' = "killed"
  /\ UNCHANGED <<interop, sig, cached, todo, op, linkStack, unlinkStack, records, file,
                 pyc, pip, entry, verdict, failures, failed>>

Ended == phase = "ended" /\ UNCHANGED vars

PackageStep ==
  \/ \E x \in Paths : UnlinkPath(x) \/ ClearPath(x) \/ LinkPath(x)
  \/ QueuePyc
  \/ Unlinked \/ Linked \/ LinkUndone \/ UnlinkUndone
  \/ Fail

LoopStep ==
  \/ Begin \/ Fetch \/ UninstallPip
  \/ UnlinkLoopEnd \/ SkipUnlink \/ BeginUnlink
  \/ LinkLoopEnd \/ SkipLink \/ BeginLink
  \/ UndoLink \/ UndoUnlink \/ RolledBack
  \/ Finish \/ Close

Compile == \E p \in Packages, x \in Paths : CompilePyc(p, x)

Next == PackageStep \/ LoopStep \/ Compile \/ Interrupt \/ Kill \/ Ended

Spec == Init /\ [][Next]_vars

\* The thread and the compilation process keep running.
FairSpec == Spec /\ WF_vars(PackageStep \/ LoopStep) /\ WF_vars(Compile)

-----------------------------------------------------------------------------
(***************************************************************************)
(* Correctness.                                                            *)
(***************************************************************************)

Op == [kind : {"none", "unlink", "link"}, pkg : Packages \union {NoPackage},
       left : SUBSET Paths, compiled : BOOLEAN]

\* Every variable of the transaction keeps its type.
TypeOK ==
  /\ interop \in BOOLEAN
  /\ phase \in Phase
  /\ sig \in BOOLEAN
  /\ cached \in SUBSET Packages
  /\ todo \in Seq(Packages)
  /\ op \in Op
  /\ linkStack \in Seq(Packages) /\ unlinkStack \in Seq(Packages)
  /\ records \in SUBSET Packages
  /\ file \in [Paths -> Packages \union {NoPackage}]
  /\ pyc \in [Packages -> SUBSET Paths]
  /\ pip \in SUBSET Names
  /\ entry \in [unlinked : SUBSET Packages, linked : SUBSET Packages]
  /\ verdict \in {"none", "cancelled", "interrupted"}
  /\ outcome \in Outcome
  /\ failures \in Nat
  /\ failed \in SUBSET Packages

Whole(p) == \A x \in PathsOf[p] : file[x] = p

\* At any time, after a kill included, a package with a record in conda-meta
\* has all its files, except the one being worked on and those whose own
\* execute() threw.
RecordedIsWhole ==
  \A p \in records : p = op.pkg \/ p \in failed \/ Whole(p)

\* What the transaction leaves installed: packages left to pip stay recorded,
\* and those pip keeps are not linked.
Target == Final \ {p \in Elements(Install) \ Installed : KeepsPip(p)}

\* A transaction reported as finished has installed what was planned, whole.
DoneMeansTarget ==
  outcome = "done" => records = Target /\ \A p \in records : Whole(p)

\* It leaves no file of a package that is not installed, compiled ones included.
NoOrphanFiles ==
  outcome = "done" => \A x \in Paths : file[x] \in records \union {NoPackage}

\* An interrupted transaction puts every package and every file of a package
\* back, the compiled files apart.
InterruptedRestores ==
  outcome = "interrupted" =>
    /\ records = Installed
    /\ \A p \in Packages : \A x \in PathsOf[p] : file[x] = InitialFile[x]

\* After an exception, every package but the one that threw is as before.
CancelledRestoresOthers ==
  outcome = "cancelled" =>
    /\ records \ failed = Installed \ failed
    /\ \A p \in Installed \ failed : Whole(p)
    /\ \A x \in Paths : file[x] \in records \union failed \union {NoPackage}
                        \/ \E p \in Packages : x \in PycOf[p]

\* Every transaction ends, whatever fails and whenever it is interrupted.
TransactionEnds == <>(phase = "ended")

\* "All changes from this transaction have been rolled back."
CancelledRestoresAll ==
  outcome = "cancelled" =>
    /\ records = Installed
    /\ \A p \in Packages : \A x \in PathsOf[p] : file[x] = InitialFile[x]

\* The history tells what a finished transaction did to the prefix, apart from
\* the packages whose removal was left to pip.
HistoryMatchesPrefix ==
  outcome = "done" =>
    records = (Installed \ {p \in entry.unlinked : ~IsPip(p)}) \union entry.linked
=============================================================================
