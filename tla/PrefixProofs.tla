---------------------------- MODULE PrefixProofs -----------------------------
(***************************************************************************)
(* What becomes of a prefix.  By one transaction: the types, that          *)
(* conda-meta never records a package with files missing, what a finished  *)
(* transaction has installed, left behind and written in the history, and  *)
(* what a rollback has put back, for every set of packages and every       *)
(* solution.  Along its history: the types, that every revision can be     *)
(* restored and that pruning spares what was asked for, for every sequence *)
(* of commands, any number of names, versions and builds.                  *)
(***************************************************************************)
EXTENDS Transaction, History, SequenceTheorems, WellFoundedInduction, TLAPS

\* Packages recorded together are all from before or all from after the
\* transaction: they share no path.
Together(S) == S \subseteq Installed \/ S \subseteq Final

\* Where the package being worked on comes from, and which files it owns.
UnlinkOpInv ==
  op.kind = "unlink" =>
    /\ phase \in {"unlink", "rollback", "ended"}
    /\ op.pkg \in Packages
    /\ op.left \subseteq PathsOf[op.pkg] \union PycOf[op.pkg]
    /\ op.pkg \in records \/ op.left = {}

LinkOpInv ==
  op.kind = "link" =>
    /\ phase \in {"link", "rollback", "ended"}
    /\ op.pkg \in Packages
    /\ op.left \subseteq PathsOf[op.pkg]
    /\ \A x \in PathsOf[op.pkg] \ op.left : file[x] = op.pkg
    /\ Together(records \union {op.pkg})

\* In the loops and in the rollback it is the next package to visit.
OpIsNext ==
  op.kind # "none" =>
    /\ phase \in {"unlink", "link", "rollback", "ended"}
    /\ phase = "unlink" => todo # <<>> /\ op.pkg = Head(todo)
    /\ phase = "link" => todo # <<>> /\ op.pkg = Head(todo)
                         /\ records \union {op.pkg} \subseteq Final
    /\ phase = "rollback" /\ op.kind = "unlink" =>
         linkStack # <<>> /\ op.pkg = Head(linkStack)
    /\ phase = "rollback" /\ op.kind = "link" =>
         /\ linkStack = <<>> /\ op.pkg \in Installed
         /\ unlinkStack # <<>> /\ op.pkg = Head(unlinkStack)

\* What the loops have left to visit, and what they have recorded.
LoopInv ==
  /\ phase = "unlink" =>
       /\ todo \in Seq(Installed)
       /\ linkStack = <<>>
       /\ \A p \in Elements(Remove) :
            IsPip(p) \/ p \notin records \/ p \in Elements(todo)
  /\ phase = "link" =>
       /\ todo \in Seq(Elements(Install))
       /\ sig \/ records \subseteq Final
  /\ phase \in {"start", "fetch", "pip"} => records = Installed /\ linkStack = <<>>
  /\ unlinkStack \in Seq(Installed)
  /\ records \subseteq Installed \union Elements(linkStack)

PycInv == \A p \in Packages : pyc[p] \subseteq PycOf[p]

OpInv == UnlinkOpInv /\ LinkOpInv /\ OpIsNext
DiskInv == PycInv /\ Together(records) /\ RecordedIsWhole

IInv == TypeOK /\ OpInv /\ LoopInv /\ DiskInv

-----------------------------------------------------------------------------
(***************************************************************************)
(* Sequences and records.                                                  *)
(***************************************************************************)

\* Visiting the head of a sequence leaves the elements of its tail.
LEMMA ElementsOfTail ==
  ASSUME NEW S, NEW s \in Seq(S), s # <<>>
  PROVE  /\ Head(s) \in S /\ Tail(s) \in Seq(S)
         /\ Elements(s) = {Head(s)} \union Elements(Tail(s))
<1>1. Head(s) \in S /\ Tail(s) \in Seq(S) /\ Head(s) = s[1]
  OBVIOUS
<1>2. Len(s) \in Nat /\ Len(s) > 0 /\ Len(Tail(s)) = Len(s) - 1
  OBVIOUS
<1>3. \A i \in 1..Len(Tail(s)) : Tail(s)[i] = s[i + 1]
  OBVIOUS
<1>4. Elements(s) \subseteq {Head(s)} \union Elements(Tail(s))
  <2>1. SUFFICES ASSUME NEW i \in 1..Len(s), i # 1
                 PROVE  s[i] \in Elements(Tail(s))
    BY <1>1 DEF Elements
  <2>2. i - 1 \in 1..Len(Tail(s)) /\ Tail(s)[i - 1] = s[i]
    BY <1>2, <1>3, <2>1
  <2> QED
    BY <2>2 DEF Elements
<1>5. {Head(s)} \union Elements(Tail(s)) \subseteq Elements(s)
  BY <1>1, <1>2, <1>3 DEF Elements
<1> QED
  BY <1>1, <1>4, <1>5

\* Pushing adds one element.
LEMMA ElementsOfPush ==
  ASSUME NEW S, NEW a \in S, NEW s \in Seq(S)
  PROVE  /\ <<a>> \o s \in Seq(S)
         /\ Elements(<<a>> \o s) = {a} \union Elements(s)
<1> DEFINE t == <<a>> \o s
<1>1. t \in Seq(S) /\ t # <<>> /\ Head(t) = a /\ Tail(t) = s
  OBVIOUS
<1> HIDE DEF t
<1>2. Elements(t) = {Head(t)} \union Elements(Tail(t))
  BY <1>1, ElementsOfTail
<1> QED
  BY <1>1, <1>2 DEF t

\* A sequence is a sequence of its elements.
LEMMA SeqOfElements ==
  ASSUME NEW S, NEW s \in Seq(S)
  PROVE  s \in Seq(Elements(s)) /\ Elements(s) \subseteq S
  BY DEF Elements

\* The operations on packages have the fields and types of Op.
LEMMA OpTypes ==
  /\ NoOp \in Op
  /\ \A p \in Packages : Linking(p) \in Op /\ Unlinking(p) \in Op
  /\ \A o \in Op : \A l \in SUBSET Paths :
       [o EXCEPT !.left = l] \in Op /\ [o EXCEPT !.compiled = TRUE] \in Op
<1>1. NoOp \in Op
  BY DEF NoOp, Op
<1>2. ASSUME NEW p \in Packages PROVE Linking(p) \in Op
  <2>1. PathsOf[p] \in SUBSET Paths
    BY <1>2, TransactionAssumption
  <2> QED
    BY <1>2, <2>1 DEF Linking, Op
<1>3. ASSUME NEW p \in Packages PROVE Unlinking(p) \in Op
  <2>1. PathsOf[p] \in SUBSET Paths /\ PycOf[p] \in SUBSET Paths
    BY <1>3, TransactionAssumption
  <2>2. (IF p \in records THEN PathsOf[p] \union PycOf[p] ELSE {}) \in SUBSET Paths
    BY <2>1
  <2> QED
    BY <1>3, <2>2 DEF Unlinking, Op
<1>4. ASSUME NEW o \in Op, NEW l \in SUBSET Paths
      PROVE  [o EXCEPT !.left = l] \in Op /\ [o EXCEPT !.compiled = TRUE] \in Op
  BY <1>4 DEF Op
<1> QED
  BY <1>1, <1>2, <1>3, <1>4
-----------------------------------------------------------------------------
(***************************************************************************)
(* Types.                                                                  *)
(***************************************************************************)

LEMMA InitialTypes == Init => TypeOK
<1>1. InitialFile \in [Paths -> Packages \union {NoPackage}]
  <2>1. Installed \subseteq Packages
    BY TransactionAssumption
  <2>2. ASSUME NEW x \in Paths,
               \E p \in Installed : x \in PathsOf[p] \union PycOf[p]
        PROVE  (CHOOSE p \in Installed : x \in PathsOf[p] \union PycOf[p]) \in Packages
    BY <2>1, <2>2
  <2> QED
    BY <2>2 DEF InitialFile
<1>2. [p \in Packages |-> {}] \in [Packages -> SUBSET Paths]
  OBVIOUS
<1>3. <<>> \in Seq(Packages) /\ Installed \in SUBSET Packages /\ PipRecords \in SUBSET Names
  BY TransactionAssumption
<1>4. [unlinked |-> {}, linked |-> {}] \in [unlinked : SUBSET Packages, linked : SUBSET Packages]
  OBVIOUS
<1>5. NoOp \in Op
  BY OpTypes
<1> SUFFICES ASSUME Init PROVE TypeOK
  OBVIOUS
<1>6. pyc \in [Packages -> SUBSET Paths] /\ file \in [Paths -> Packages \union {NoPackage}]
  BY <1>1, <1>2 DEF Init
<1>7. entry \in [unlinked : SUBSET Packages, linked : SUBSET Packages] /\ op \in Op
  BY <1>4, <1>5 DEF Init
<1>8. /\ todo \in Seq(Packages) /\ linkStack \in Seq(Packages)
      /\ unlinkStack \in Seq(Packages)
      /\ records \in SUBSET Packages /\ pip \in SUBSET Names
  BY <1>3 DEF Init
<1> QED
  BY <1>6, <1>7, <1>8 DEF Init, TypeOK, Phase, Outcome

\* A step on one file of the package being worked on, or its failure.
LEMMA FileStepTypes ==
  ASSUME TypeOK, UnlinkOpInv, LinkOpInv,
         \/ \E x \in Paths : UnlinkPath(x) \/ ClearPath(x) \/ LinkPath(x)
         \/ QueuePyc \/ Fail
  PROVE  TypeOK'
<1>1. ASSUME NEW x \in Paths, UnlinkPath(x) PROVE TypeOK'
  <2>1. op.left \ {x} \in SUBSET Paths
    BY DEF TypeOK, Op
  <2>2. op' \in Op
    BY <1>1, <2>1, OpTypes DEF UnlinkPath, TypeOK
  <2> QED
    BY <1>1, <2>2 DEF UnlinkPath, TypeOK
<1>2. ASSUME NEW x \in Paths, ClearPath(x) PROVE TypeOK'
  BY <1>2 DEF ClearPath, TypeOK
<1>3. ASSUME NEW x \in Paths, LinkPath(x) PROVE TypeOK'
  <2>1. op.left \ {x} \in SUBSET Paths /\ op.pkg \in Packages \union {NoPackage}
    BY DEF TypeOK, Op
  <2>2. op' \in Op
    BY <1>3, <2>1, OpTypes DEF LinkPath, TypeOK
  <2> QED
    BY <1>3, <2>1, <2>2 DEF LinkPath, TypeOK
<1>4. CASE QueuePyc
  <2>1. op' \in Op
    <3>1. op.left \in SUBSET Paths
      BY DEF TypeOK, Op
    <3> QED
      BY <1>4, <3>1, OpTypes DEF QueuePyc, TypeOK
  <2>2. pyc' \in [Packages -> SUBSET Paths]
    <3>1. CASE op.pkg \in Packages
      BY <1>4, <3>1, TransactionAssumption DEF QueuePyc, TypeOK
    <3>2. CASE op.pkg \notin Packages
      BY <1>4, <3>2 DEF QueuePyc, TypeOK
    <3> QED
      BY <3>1, <3>2
  <2> QED
    BY <1>4, <2>1, <2>2 DEF QueuePyc, TypeOK
<1>5. CASE Fail
  <2>1. op.pkg \in Packages
    BY <1>5 DEF Fail, Working, UnlinkOpInv, LinkOpInv
  <2> QED
    BY <1>5, <2>1, OpTypes DEF Fail, TypeOK, Phase, Outcome
<1> QED
  BY <1>1, <1>2, <1>3, <1>4, <1>5
\* A package is recorded or erased, by a loop or by the rollback.
LEMMA CompletionTypes ==
  ASSUME TypeOK, UnlinkOpInv, LinkOpInv, OpIsNext,
         Unlinked \/ Linked \/ LinkUndone \/ UnlinkUndone
  PROVE  TypeOK'
<1>1. op.pkg \in Packages
  BY DEF Unlinked, Linked, LinkUndone, UnlinkUndone, UnlinkComplete,
     LinkComplete, UnlinkOpInv, LinkOpInv
<1>2. [entry EXCEPT !.unlinked = @ \union {op.pkg}]
        \in [unlinked : SUBSET Packages, linked : SUBSET Packages]
      /\ [entry EXCEPT !.linked = @ \union {op.pkg}]
        \in [unlinked : SUBSET Packages, linked : SUBSET Packages]
  BY <1>1 DEF TypeOK
<1>3. records \ {op.pkg} \in SUBSET Packages /\ records \union {op.pkg} \in SUBSET Packages
  BY <1>1 DEF TypeOK
<1>4. CASE Unlinked
  <2>1. todo # <<>> /\ Tail(todo) \in Seq(Packages)
    BY <1>4 DEF Unlinked, UnlinkComplete, OpIsNext, TypeOK
  <2>2. <<op.pkg>> \o unlinkStack \in Seq(Packages)
    BY <1>1, ElementsOfPush DEF TypeOK
  <2> QED
    BY <1>2, <1>3, <1>4, <2>1, <2>2, OpTypes DEF Unlinked, TypeOK
<1>5. CASE Linked
  <2>1. <<op.pkg>> \o linkStack \in Seq(Packages)
    BY <1>1, ElementsOfPush DEF TypeOK
  <2>2. todo # <<>> /\ Tail(todo) \in Seq(Packages)
    BY <1>5 DEF Linked, LinkComplete, OpIsNext, TypeOK
  <2> QED
    BY <1>2, <1>3, <1>5, <2>1, <2>2, OpTypes DEF Linked, TypeOK
<1>6. CASE LinkUndone
  <2>1. linkStack # <<>> /\ Tail(linkStack) \in Seq(Packages)
    BY <1>6 DEF LinkUndone, UnlinkComplete, OpIsNext, TypeOK
  <2> QED
    BY <1>3, <1>6, <2>1, OpTypes DEF LinkUndone, TypeOK
<1>7. CASE UnlinkUndone
  <2>1. unlinkStack # <<>> /\ Tail(unlinkStack) \in Seq(Packages)
    BY <1>7 DEF UnlinkUndone, LinkComplete, OpIsNext, TypeOK
  <2> QED
    BY <1>3, <1>7, <2>1, OpTypes DEF UnlinkUndone, TypeOK
<1> QED
  BY <1>4, <1>5, <1>6, <1>7

\* The steps of the loops, the compilation and the environment.
LEMMA LoopStepTypes ==
  ASSUME TypeOK, LoopStep \/ Compile \/ Interrupt \/ Kill
  PROVE  TypeOK'
<1>1. Elements(Install) \subseteq Packages /\ Install \in Seq(Packages)
      /\ Remove \in Seq(Packages)
  BY TransactionAssumption, SeqOfElements
<1>2. CASE Begin \/ UnlinkLoopEnd \/ LinkLoopEnd \/ RolledBack \/ Close
  BY SMTT(30), <1>1, <1>2 DEF Begin, UnlinkLoopEnd, LinkLoopEnd, RolledBack, Close,
     TypeOK, Phase, Outcome
<1>3. CASE Interrupt \/ Kill
  BY ZenonT(40), <1>3 DEF Interrupt, Kill, TypeOK, Phase, Outcome
<1>4. CASE Fetch
  BY <1>1, <1>4 DEF Fetch, TypeOK, Phase, Outcome
<1>5. CASE UninstallPip
  BY <1>1, <1>5 DEF UninstallPip, TypeOK, Phase
<1>6. CASE Finish
  BY <1>6 DEF Finish, TypeOK, Phase, Outcome
<1>7. CASE SkipUnlink \/ SkipLink
  <2>1. Head(todo) \in Packages /\ Tail(todo) \in Seq(Packages)
    BY <1>7, ElementsOfTail DEF SkipUnlink, SkipLink, TypeOK
  <2>2. [entry EXCEPT !.unlinked = @ \union {Head(todo)}]
          \in [unlinked : SUBSET Packages, linked : SUBSET Packages]
    BY <2>1 DEF TypeOK
  <2> QED
    BY <1>7, <2>1, <2>2 DEF SkipUnlink, SkipLink, TypeOK
<1>8. CASE BeginUnlink \/ BeginLink
  <2>1. Head(todo) \in Packages
    BY <1>8, ElementsOfTail DEF BeginUnlink, BeginLink, TypeOK
  <2>2. op' \in Op
    BY <1>8, <2>1, OpTypes DEF BeginUnlink, BeginLink, TypeOK
  <2> QED
    BY <1>8, <2>2 DEF BeginUnlink, BeginLink, TypeOK, Phase, Outcome
<1>9. CASE UndoLink
  <2>1. Head(linkStack) \in Packages
    BY <1>9, ElementsOfTail DEF UndoLink, TypeOK
  <2> QED
    BY <1>9, <2>1, OpTypes DEF UndoLink, TypeOK
<1>10. CASE UndoUnlink
  <2>1. Head(unlinkStack) \in Packages
    BY <1>10, ElementsOfTail DEF UndoUnlink, TypeOK
  <2>2. op' \in Op
    BY <1>10, <2>1, OpTypes DEF UndoUnlink, TypeOK
  <2> QED
    BY <1>10, <2>2 DEF UndoUnlink, TypeOK, Phase, Outcome
<1>11. CASE Compile
  <2>1. PICK p \in Packages, x \in Paths : CompilePyc(p, x)
    BY <1>11 DEF Compile
  <2>2. pyc' \in [Packages -> SUBSET Paths]
    BY <2>1 DEF CompilePyc, TypeOK
  <2>3. file' \in [Paths -> Packages \union {NoPackage}]
    BY <2>1 DEF CompilePyc, TypeOK
  <2> QED
    BY <2>1, <2>2, <2>3 DEF CompilePyc, TypeOK
<1> QED
  BY <1>2, <1>3, <1>4, <1>5, <1>6, <1>7, <1>8, <1>9, <1>10, <1>11 DEF LoopStep
-----------------------------------------------------------------------------
(***************************************************************************)
(* The inductive invariant.                                                *)
(***************************************************************************)

\* Packages that are recorded together do not share a path.
LEMMA Separation ==
  ASSUME NEW S, Together(S), NEW p \in S, NEW q \in S, p # q
  PROVE  PathsOf[p] \cap PathsOf[q] = {}
  BY TransactionAssumption DEF Together, Disjoint

LEMMA InitialInvariant == Init => IInv
<1> SUFFICES ASSUME Init PROVE IInv
  OBVIOUS
<1>1. op.kind = "none"
  BY DEF Init, NoOp
<1>2. OpInv
  BY <1>1 DEF OpInv, UnlinkOpInv, LinkOpInv, OpIsNext
<1>3. LoopInv
  BY DEF Init, LoopInv
<1>4. ASSUME NEW p \in Installed, NEW x \in PathsOf[p] PROVE file[x] = p
  <2>1. p \in Packages /\ x \in Paths
    BY TransactionAssumption
  <2>2. ASSUME NEW q \in Installed, x \in PathsOf[q] \union PycOf[q] PROVE q = p
    <3>1. q \in Packages /\ x \in PathsOf[q]
      BY <2>1, <2>2, TransactionAssumption
    <3> QED
      BY <3>1, Separation DEF Together
  <2>3. (CHOOSE q \in Installed : x \in PathsOf[q] \union PycOf[q]) = p
    BY <2>2
  <2> QED
    BY <2>1, <2>3 DEF Init, InitialFile
<1>5. DiskInv
  BY <1>4 DEF Init, DiskInv, PycInv, Together, RecordedIsWhole, Whole
<1> QED
  BY <1>2, <1>3, <1>5, InitialTypes DEF IInv

\* A step that changes one file keeps every record whole when no other
\* recorded package owns that file.
LEMMA OneFileChanged ==
  ASSUME IInv, NEW x,
         \A y \in Paths : y # x => file'[y] = file[y],
         \A p \in records : p # op.pkg => x \notin PathsOf[p],
         records' = records, op'.pkg = op.pkg, failed' = failed
  PROVE  RecordedIsWhole'
<1>1. ASSUME NEW p \in records, p # op.pkg, Whole(p), NEW y \in PathsOf[p]
      PROVE  file'[y] = p
  <2>1. y \in Paths
    BY TransactionAssumption DEF IInv, TypeOK
  <2> QED
    BY <1>1, <2>1 DEF Whole
<1> QED
  BY <1>1 DEF IInv, DiskInv, RecordedIsWhole, Whole

\* Erasing a file of the package being unlinked touches no other package.
LEMMA UnlinkPathInv ==
  ASSUME IInv, NEW x \in Paths, UnlinkPath(x)
  PROVE  OpInv' /\ LoopInv' /\ DiskInv'
<1>1. /\ op.kind = "unlink" /\ op'.kind = "unlink" /\ op'.pkg = op.pkg
      /\ op'.left = op.left \ {x} /\ x \in op.left
  BY DEF IInv, TypeOK, Op, UnlinkPath, Working
<1>2. OpInv'
  BY <1>1 DEF IInv, OpInv, UnlinkOpInv, LinkOpInv, OpIsNext, UnlinkPath
<1>3. LoopInv'
  BY DEF IInv, LoopInv, UnlinkPath
<1>4. ASSUME NEW p \in records, p # op.pkg PROVE x \notin PathsOf[p]
  <2>1. op.pkg \in records /\ op.pkg \in Packages
        /\ x \in PathsOf[op.pkg] \union PycOf[op.pkg]
    BY <1>1 DEF IInv, OpInv, UnlinkOpInv
  <2>2. PathsOf[p] \cap PathsOf[op.pkg] = {}
    BY <1>4, <2>1, Separation DEF IInv, DiskInv
  <2>3. PathsOf[p] \cap PycOf[op.pkg] = {}
    BY <2>1, TransactionAssumption DEF IInv, TypeOK
  <2> QED
    BY <2>1, <2>2, <2>3
<1>5. RecordedIsWhole'
  <2>1. \A y \in Paths : y # x => file'[y] = file[y]
    BY DEF UnlinkPath, IInv, TypeOK
  <2> QED
    BY <1>1, <1>4, <2>1, OneFileChanged DEF UnlinkPath
<1> QED
  BY <1>2, <1>3, <1>5 DEF IInv, DiskInv, PycInv, Together, UnlinkPath

\* Making a file, or making room for it, touches no other package either.
LEMMA LinkPathInv ==
  ASSUME IInv, NEW x \in Paths, ClearPath(x) \/ LinkPath(x)
  PROVE  OpInv' /\ LoopInv' /\ DiskInv'
<1>1. op.kind = "link" /\ op'.kind = "link" /\ op'.pkg = op.pkg /\ x \in op.left
  BY DEF IInv, TypeOK, Op, ClearPath, LinkPath, Working
<1>2. /\ op.pkg \in Packages /\ op.left \subseteq PathsOf[op.pkg]
      /\ Together(records \union {op.pkg})
      /\ \A y \in PathsOf[op.pkg] \ op.left : file[y] = op.pkg
  BY <1>1 DEF IInv, OpInv, LinkOpInv
<1>3. \A y \in Paths : y # x => file'[y] = file[y]
  BY DEF ClearPath, LinkPath, IInv, TypeOK
<1>4. \A y \in PathsOf[op.pkg] \ op'.left : file'[y] = op.pkg
  <2>1. PathsOf[op.pkg] \subseteq Paths
    BY <1>2, TransactionAssumption
  <2>2. CASE ClearPath(x)
    BY <1>1, <1>2, <1>3, <2>1, <2>2 DEF ClearPath
  <2>3. CASE LinkPath(x)
    <3>1. op'.left = op.left \ {x} /\ file'[x] = op.pkg
      BY <2>3 DEF LinkPath, IInv, TypeOK, Op
    <3> QED
      BY <1>2, <1>3, <2>1, <3>1
  <2> QED
    BY <2>2, <2>3
<1>5. op'.left \subseteq op.left
  BY DEF ClearPath, LinkPath, IInv, TypeOK, Op
<1>6. OpInv'
  <2>1. UnlinkOpInv' /\ OpIsNext'
    BY <1>1 DEF IInv, OpInv, UnlinkOpInv, OpIsNext, ClearPath, LinkPath
  <2>2. LinkOpInv'
    BY <1>1, <1>2, <1>4, <1>5
    DEF IInv, OpInv, LinkOpInv, Together, ClearPath, LinkPath
  <2> QED
    BY <2>1, <2>2 DEF OpInv
<1>7. LoopInv'
  BY DEF IInv, LoopInv, ClearPath, LinkPath
<1>8. RecordedIsWhole'
  <2>1. ASSUME NEW p \in records, p # op.pkg PROVE x \notin PathsOf[p]
    <3>1. PathsOf[p] \cap PathsOf[op.pkg] = {}
      BY <1>2, <2>1, Separation
    <3> QED
      BY <1>1, <1>2, <3>1
  <2> QED
    BY <1>1, <1>3, <2>1, OneFileChanged DEF ClearPath, LinkPath
<1> QED
  BY <1>6, <1>7, <1>8 DEF IInv, DiskInv, PycInv, Together, ClearPath, LinkPath

\* Compiled files belong to no list of paths.
LEMMA CompileInv ==
  ASSUME IInv, QueuePyc \/ Compile
  PROVE  OpInv' /\ LoopInv' /\ DiskInv'
<1>1. CASE QueuePyc
  <2>1. op.kind = "link" /\ op'.kind = "link" /\ op'.pkg = op.pkg /\ op'.left = op.left
    BY <1>1 DEF IInv, TypeOK, Op, QueuePyc, Working
  <2>2. OpInv'
    BY <1>1, <2>1 DEF IInv, OpInv, UnlinkOpInv, LinkOpInv, OpIsNext, Together, QueuePyc
  <2>3. PycInv'
    BY <1>1 DEF IInv, DiskInv, PycInv, TypeOK, QueuePyc
  <2> QED
    BY <1>1, <2>1, <2>2, <2>3
    DEF IInv, LoopInv, DiskInv, Together, RecordedIsWhole, Whole, QueuePyc
<1>2. CASE Compile
  <2>1. PICK p \in Packages, x \in Paths : CompilePyc(p, x)
    BY <1>2 DEF Compile
  <2>2. x \in PycOf[p]
    BY <2>1 DEF CompilePyc, IInv, DiskInv, PycInv
  <2>3. \A q \in Packages : x \notin PathsOf[q]
    BY <2>2, TransactionAssumption
  <2>4. \A y \in Paths : y # x => file'[y] = file[y]
    BY <2>1 DEF CompilePyc, IInv, TypeOK
  <2>5. RecordedIsWhole'
    BY <2>1, <2>3, <2>4, OneFileChanged DEF CompilePyc, IInv, TypeOK
  <2>6. PycInv'
    BY <2>1 DEF CompilePyc, IInv, DiskInv, PycInv, TypeOK
  <2>7. OpInv'
    <3>1. UnlinkOpInv' /\ OpIsNext'
      BY <2>1 DEF IInv, OpInv, UnlinkOpInv, OpIsNext, CompilePyc
    <3>2. LinkOpInv'
      <4>1. ASSUME op.kind = "link", NEW y \in PathsOf[op.pkg]
            PROVE  file'[y] = file[y]
        <5>1. op.pkg \in Packages
          BY <4>1 DEF IInv, OpInv, LinkOpInv
        <5>2. y \in Paths /\ y # x
          BY <2>3, <4>1, <5>1, TransactionAssumption
        <5> QED
          BY <2>4, <5>2
      <4> QED
        BY <2>1, <4>1 DEF IInv, OpInv, LinkOpInv, Together, CompilePyc
    <3> QED
      BY <3>1, <3>2 DEF OpInv
  <2> QED
    BY <2>1, <2>5, <2>6, <2>7 DEF IInv, LoopInv, DiskInv, Together, CompilePyc
<1> QED
  BY <1>1, <1>2
\* A package leaves conda-meta, or enters it with all its files.
LEMMA UnlinkedInv ==
  ASSUME IInv, Unlinked \/ LinkUndone
  PROVE  OpInv' /\ LoopInv' /\ DiskInv'
<1>1. /\ op.kind = "unlink" /\ op'.kind = "none" /\ records' = records \ {op.pkg}
      /\ file' = file /\ pyc' = pyc /\ failed' = failed
  BY DEF Unlinked, LinkUndone, UnlinkComplete, NoOp
<1>2. OpInv'
  BY <1>1 DEF OpInv, UnlinkOpInv, LinkOpInv, OpIsNext
<1>3. DiskInv'
  BY <1>1 DEF IInv, DiskInv, PycInv, Together, RecordedIsWhole, Whole
<1>4. CASE Unlinked
  <2>1. todo # <<>> /\ op.pkg = Head(todo) /\ todo \in Seq(Installed)
    BY <1>1, <1>4 DEF IInv, OpInv, OpIsNext, LoopInv, Unlinked
  <2>2. Tail(todo) \in Seq(Installed) /\ Elements(todo) = {op.pkg} \union Elements(Tail(todo))
        /\ op.pkg \in Installed
    BY <2>1, ElementsOfTail
  <2>3. <<op.pkg>> \o unlinkStack \in Seq(Installed)
    BY <2>2, ElementsOfPush DEF IInv, LoopInv
  <2> QED
    BY <1>1, <1>2, <1>3, <1>4, <2>2, <2>3 DEF IInv, LoopInv, Unlinked
<1>5. CASE LinkUndone
  <2>1. linkStack # <<>> /\ op.pkg = Head(linkStack) /\ linkStack \in Seq(Packages)
    BY <1>1, <1>5 DEF IInv, TypeOK, OpInv, OpIsNext, LinkUndone
  <2>2. Elements(linkStack) = {op.pkg} \union Elements(Tail(linkStack))
    BY <2>1, ElementsOfTail
  <2> QED
    BY <1>1, <1>2, <1>3, <1>5, <2>2 DEF IInv, LoopInv, LinkUndone
<1> QED
  BY <1>4, <1>5

LEMMA LinkedInv ==
  ASSUME IInv, Linked \/ UnlinkUndone
  PROVE  OpInv' /\ LoopInv' /\ DiskInv'
<1>1. /\ op.kind = "link" /\ op.left = {} /\ op'.kind = "none"
      /\ records' = records \union {op.pkg}
      /\ file' = file /\ pyc' = pyc /\ failed' = failed
  BY DEF Linked, UnlinkUndone, LinkComplete, NoOp
<1>2. OpInv'
  BY <1>1 DEF OpInv, UnlinkOpInv, LinkOpInv, OpIsNext
<1>3. Whole(op.pkg) /\ Together(records \union {op.pkg}) /\ op.pkg \in Packages
  BY <1>1 DEF IInv, OpInv, LinkOpInv, Whole
<1>4. DiskInv'
  BY <1>1, <1>3 DEF IInv, DiskInv, PycInv, Together, RecordedIsWhole, Whole
<1>5. CASE Linked
  <2>1. todo # <<>> /\ records \union {op.pkg} \subseteq Final
        /\ todo \in Seq(Elements(Install))
    BY <1>1, <1>5 DEF IInv, OpInv, OpIsNext, LoopInv, Linked
  <2>2. Tail(todo) \in Seq(Elements(Install))
    BY <2>1, ElementsOfTail
  <2>3. Elements(linkStack') = {op.pkg} \union Elements(linkStack)
    BY <1>3, <1>5, ElementsOfPush DEF Linked, IInv, TypeOK
  <2> QED
    BY <1>1, <1>2, <1>4, <1>5, <2>1, <2>2, <2>3 DEF IInv, LoopInv, Linked
<1>6. CASE UnlinkUndone
  <2>1. op.pkg \in Installed /\ unlinkStack # <<>> /\ unlinkStack \in Seq(Installed)
    BY <1>1, <1>6 DEF IInv, OpInv, OpIsNext, LoopInv, UnlinkUndone
  <2>2. Tail(unlinkStack) \in Seq(Installed)
    BY <2>1, ElementsOfTail
  <2> QED
    BY <1>1, <1>2, <1>4, <1>6, <2>1, <2>2 DEF IInv, LoopInv, UnlinkUndone
<1> QED
  BY <1>5, <1>6

\* The package that throws is exempt from then on; a kill changes nothing.
LEMMA FailInv ==
  ASSUME IInv, Fail \/ Kill \/ Interrupt
  PROVE  OpInv' /\ LoopInv' /\ DiskInv'
<1>1. CASE Fail
  <2>1. op'.kind = "none" /\ failed' = failed \union {op.pkg}
    BY <1>1 DEF Fail, NoOp
  <2>2. OpInv'
    BY <2>1 DEF OpInv, UnlinkOpInv, LinkOpInv, OpIsNext
  <2>3. DiskInv'
    BY <1>1, <2>1 DEF IInv, DiskInv, PycInv, Together, RecordedIsWhole, Whole, Fail
  <2>4. LoopInv'
    BY <1>1 DEF IInv, LoopInv, Fail
  <2> QED
    BY <2>2, <2>3, <2>4
<1>2. CASE Kill
  <2>1. OpInv'
    BY <1>2 DEF IInv, OpInv, UnlinkOpInv, LinkOpInv, OpIsNext, Together, Kill
  <2> QED
    BY <1>2, <2>1 DEF IInv, LoopInv, DiskInv, PycInv, Together, RecordedIsWhole,
       Whole, Kill
<1>3. CASE Interrupt
  <2>1. OpInv'
    BY <1>3 DEF IInv, OpInv, UnlinkOpInv, LinkOpInv, OpIsNext, Together, Interrupt
  <2> QED
    BY <1>3, <2>1 DEF IInv, LoopInv, DiskInv, PycInv, Together, RecordedIsWhole,
       Whole, Interrupt
<1> QED
  BY <1>1, <1>2, <1>3

\* The steps between packages leave the disk alone.
LEMMA LoopStepInv ==
  ASSUME IInv, LoopStep
  PROVE  OpInv' /\ LoopInv' /\ DiskInv'
<1>1. /\ records' = records /\ file' = file /\ pyc' = pyc /\ failed' = failed
  BY DEF LoopStep, Begin, Fetch, UninstallPip, UnlinkLoopEnd, SkipUnlink,
     BeginUnlink, LinkLoopEnd, SkipLink, BeginLink, UndoLink, UndoUnlink,
     RolledBack, Finish, Close
<1>2. PycInv' /\ Together(records)'
  BY <1>1 DEF IInv, DiskInv, PycInv, Together
<1>3. CASE op' = op
  <2>1. op.kind = "none"
    BY <1>3 DEF LoopStep, Begin, Fetch, UninstallPip, UnlinkLoopEnd, SkipUnlink,
       BeginUnlink, LinkLoopEnd, SkipLink, BeginLink, UndoLink, UndoUnlink,
       RolledBack, Finish, Close, IInv, OpInv, OpIsNext, NoOp
  <2>2. OpInv'
    BY <1>3, <2>1 DEF OpInv, UnlinkOpInv, LinkOpInv, OpIsNext
  <2>3. RecordedIsWhole'
    BY <1>1, <1>3 DEF IInv, DiskInv, RecordedIsWhole, Whole
  <2>4. LoopInv'
    <3>1. CASE Begin \/ Fetch
      BY <1>1, <3>1 DEF IInv, LoopInv, Begin, Fetch
    <3>2. CASE UninstallPip
      <4>1. todo' = Remove /\ Remove \in Seq(Installed)
        BY <3>2, TransactionAssumption DEF UninstallPip
      <4> QED
        BY <1>1, <3>2, <4>1 DEF IInv, LoopInv, UninstallPip
    <3>3. CASE UnlinkLoopEnd
      <4>1. sig \/ records \subseteq Final
        BY <3>3 DEF IInv, LoopInv, UnlinkLoopEnd, Final, Elements
      <4>2. Install \in Seq(Elements(Install))
        BY SeqOfElements, TransactionAssumption
      <4> QED
        BY <1>1, <3>3, <4>1, <4>2 DEF IInv, LoopInv, UnlinkLoopEnd
    <3>4. CASE SkipUnlink
      <4>1. todo \in Seq(Installed) /\ todo # <<>> /\ IsPip(Head(todo))
        BY <3>4 DEF IInv, LoopInv, SkipUnlink
      <4>2. Tail(todo) \in Seq(Installed)
            /\ Elements(todo) = {Head(todo)} \union Elements(Tail(todo))
        BY <4>1, ElementsOfTail
      <4> QED
        BY <1>1, <3>4, <4>1, <4>2 DEF IInv, LoopInv, SkipUnlink
    <3>5. CASE SkipLink
      <4>1. Tail(todo) \in Seq(Elements(Install))
        BY <3>5, ElementsOfTail DEF IInv, LoopInv, SkipLink
      <4> QED
        BY <1>1, <3>5, <4>1 DEF IInv, LoopInv, SkipLink
    <3>6. CASE LinkLoopEnd \/ RolledBack \/ Finish \/ Close
      BY <1>1, <3>6 DEF IInv, LoopInv, LinkLoopEnd, RolledBack, Finish, Close
    <3>7. CASE BeginUnlink \/ BeginLink \/ UndoLink \/ UndoUnlink
      BY <1>1, <3>7 DEF IInv, LoopInv, BeginUnlink, BeginLink, UndoLink, UndoUnlink
    <3> QED
      BY <3>1, <3>2, <3>3, <3>4, <3>5, <3>6, <3>7 DEF LoopStep
  <2> QED
    BY <1>2, <2>2, <2>3, <2>4 DEF DiskInv
<1>4. CASE op' # op
  <2>1. op = NoOp /\ (BeginUnlink \/ BeginLink \/ UndoLink \/ UndoUnlink)
    BY <1>4 DEF LoopStep, Begin, Fetch, UninstallPip, UnlinkLoopEnd, SkipUnlink,
       BeginUnlink, LinkLoopEnd, SkipLink, BeginLink, UndoLink, UndoUnlink,
       RolledBack, Finish, Close
  <2>2. RecordedIsWhole'
    <3>1. op.pkg \notin records
      BY <2>1, TransactionAssumption DEF NoOp, IInv, TypeOK
    <3> QED
      BY <1>1, <3>1 DEF IInv, DiskInv, RecordedIsWhole, Whole
  <2>3. LoopInv'
    BY <1>1, <1>4, <2>1 DEF IInv, LoopInv, BeginUnlink, BeginLink, UndoLink, UndoUnlink
  <2>4. OpInv'
    <3>1. CASE BeginUnlink
      <4>1. Head(todo) \in Packages
        BY <3>1, ElementsOfTail DEF BeginUnlink, IInv, TypeOK
      <4> QED
        BY <1>1, <3>1, <4>1
        DEF BeginUnlink, Unlinking, OpInv, UnlinkOpInv, LinkOpInv, OpIsNext
    <3>2. CASE UndoLink
      <4>1. Head(linkStack) \in Packages
        BY <3>2, ElementsOfTail DEF UndoLink, IInv, TypeOK
      <4> QED
        BY <1>1, <3>2, <4>1
        DEF UndoLink, Unlinking, OpInv, UnlinkOpInv, LinkOpInv, OpIsNext
    <3>3. CASE BeginLink
      <4>1. op' = Linking(Head(todo)) /\ phase' = "link" /\ todo' = todo /\ todo # <<>>
        BY <1>4, <3>3 DEF BeginLink
      <4>2. Head(todo) \in Elements(Install) /\ records \subseteq Final
        BY <3>3, ElementsOfTail DEF BeginLink, IInv, LoopInv
      <4>3. Head(todo) \in Packages /\ Head(todo) \in Final
        BY <4>2, SeqOfElements, TransactionAssumption DEF Final
      <4> QED
        BY <1>1, <4>1, <4>2, <4>3
        DEF Linking, OpInv, UnlinkOpInv, LinkOpInv, OpIsNext, Together
    <3>4. CASE UndoUnlink
      <4>1. /\ op' = Linking(Head(unlinkStack)) /\ phase' = "rollback"
            /\ unlinkStack # <<>> /\ linkStack = <<>>
            /\ unlinkStack' = unlinkStack /\ linkStack' = linkStack
        BY <1>4, <3>4 DEF UndoUnlink
      <4>2. Head(unlinkStack) \in Installed
        BY <4>1, ElementsOfTail DEF IInv, LoopInv
      <4>3. records \subseteq Installed /\ Installed \subseteq Packages
        BY <4>1, TransactionAssumption DEF IInv, LoopInv, Elements
      <4> QED
        BY <1>1, <4>1, <4>2, <4>3
        DEF Linking, OpInv, UnlinkOpInv, LinkOpInv, OpIsNext, Together
    <3> QED
      BY <2>1, <3>1, <3>2, <3>3, <3>4
  <2> QED
    BY <1>2, <2>2, <2>3, <2>4 DEF DiskInv
<1> QED
  BY <1>3, <1>4

\* Every step keeps the invariant.
LEMMA StepInvariant == IInv /\ [Next]_vars => IInv'
<1> SUFFICES ASSUME IInv, [Next]_vars PROVE IInv'
  OBVIOUS
<1>1. CASE PackageStep
  <2>1. TypeOK'
    BY <1>1, FileStepTypes, CompletionTypes DEF PackageStep, IInv, OpInv
  <2>2. OpInv' /\ LoopInv' /\ DiskInv'
    BY <1>1, UnlinkPathInv, LinkPathInv, CompileInv, UnlinkedInv, LinkedInv, FailInv
    DEF PackageStep
  <2> QED
    BY <2>1, <2>2 DEF IInv
<1>2. CASE LoopStep
  BY <1>2, LoopStepTypes, LoopStepInv DEF IInv
<1>3. CASE Compile
  BY <1>3, LoopStepTypes, CompileInv DEF IInv
<1>4. CASE Interrupt \/ Kill
  BY <1>4, LoopStepTypes, FailInv DEF IInv
<1>5. CASE vars' = vars
  BY <1>5 DEF vars, IInv, TypeOK, OpInv, UnlinkOpInv, LinkOpInv, OpIsNext,
     LoopInv, DiskInv, PycInv, Together, RecordedIsWhole, Whole
<1> QED
  BY <1>1, <1>2, <1>3, <1>4, <1>5 DEF Next, Ended

LEMMA Invariant == Spec => []IInv
<1> QED
  BY InitialInvariant, StepInvariant, PTL DEF Spec

\* Every variable of the transaction keeps its type, for any packages and any
\* solution execute() is given.
THEOREM TypeCorrect == Spec => []TypeOK
<1>1. IInv => TypeOK
  BY DEF IInv
<1> QED
  BY <1>1, Invariant, PTL

\* At any time, a kill included, a package with a record in conda-meta has all
\* the files of its paths.json, except the one being worked on and those whose
\* execute() threw: the record is written last, and packages recorded together
\* share no path, also while a rollback takes the new ones away.
THEOREM RecordsAreWhole == Spec => []RecordedIsWhole
<1>1. IInv => RecordedIsWhole
  BY DEF IInv, DiskInv
<1> QED
  BY <1>1, Invariant, PTL

-----------------------------------------------------------------------------
(***************************************************************************)
(* How a transaction ends: what the prefix holds when it was carried out,  *)
(* and what it holds when it was rolled back.                              *)
(***************************************************************************)

\* The packages that are unlinked, those that stay, and those that are linked.
Removed == {p \in Elements(Remove) : ~IsPip(p)}
Kept == Installed \ Removed
Added == {p \in Elements(Install) : ~KeepsPip(p)}

\* No package is linked over itself while it is installed.  The solver never
\* asks for that; an explicit transaction may, and its rollback then takes the
\* package away.
NothingRelinked == Elements(Install) \cap Kept = {}

\* A path no package compiles to.
Plain(x) == \A p \in Packages : x \notin PycOf[p]

NoneIsNoOp == op.kind = "none" => op = NoOp

\* A file comes from a package that lists or compiles it.
FilesListed ==
  \A x \in Paths : file[x] # NoPackage =>
    x \in PathsOf[file[x]] \union PycOf[file[x]]

\* No plain file is left behind by a package that is not recorded, but for
\* the one being worked on and those whose execute() threw.
PlainFilesRecorded ==
  \A x \in Paths : Plain(x) => file[x] \in records \union failed \union {op.pkg, NoPackage}

\* Unlinking has every plain file of the package still to erase.
UnlinkErases ==
  op.kind = "unlink" =>
    \A x \in Paths : Plain(x) /\ file[x] = op.pkg => x \in op.left \/ op.pkg \in failed

FilesInv == NoneIsNoOp /\ FilesListed /\ PlainFilesRecorded /\ UnlinkErases

\* Exceptions and the outcome, by phase.
Forward == phase \in {"start", "fetch", "pip", "unlink", "link", "finish"}

EndingInv ==
  /\ Forward => outcome = "none" /\ verdict = "none" /\ failed = {}
  /\ phase = "rollback" => /\ outcome = "none" /\ verdict # "none"
                           /\ verdict = "interrupted" => failed = {}
  /\ outcome \in {"done", "cancelled", "interrupted"} =>
       op = NoOp /\ phase \in {"closing", "ended"}
  /\ outcome \in {"done", "interrupted"} => failed = {}
  /\ outcome \in {"cancelled", "interrupted"} => linkStack = <<>> /\ unlinkStack = <<>>

\* The transaction has not been given up.
Going == Forward \/ outcome = "done"

\* While it is carried out, no file is there without its package's record,
\* compiled ones included, and nothing is compiled for another package.
GoingFiles ==
  Going =>
    /\ \A x \in Paths : file[x] \in records \union {op.pkg, NoPackage}
    /\ \A p \in Packages : pyc[p] # {} => p \in records \union {op.pkg}
    /\ phase \in {"start", "fetch", "pip", "unlink"} => \A p \in Packages : pyc[p] = {}
    /\ phase = "unlink" /\ op.kind = "unlink" =>
         \A x \in Paths : file[x] = op.pkg => x \in op.left

\* The history entry says what was done so far.
GoingHistory ==
  Going =>
    /\ records = (Installed \ {p \in entry.unlinked : ~IsPip(p)}) \union entry.linked
    /\ phase \in {"start", "fetch", "pip", "unlink"} => entry.linked = {}

\* What is recorded, what is still to be visited, and what is planned.
GoingPlan ==
  /\ Going => Kept \subseteq records
  /\ phase = "unlink" =>
       /\ todo \in Seq(Elements(Remove))
       /\ op.kind = "unlink" => op.pkg \in Removed
  /\ phase = "link" =>
       /\ op.kind = "link" => op.pkg \in Added
       /\ Added \subseteq records \union Elements(todo)
       /\ sig \/ records \subseteq Kept \union Added
  /\ phase = "finish" \/ outcome = "done" => records = Target

\* What a rollback needs: every package that was installed is recorded or on
\* the stack of the unlinked ones, where linked packages that were installed
\* before are found, too.
Restorable ==
  /\ Installed \subseteq records \union Elements(unlinkStack)
  /\ Elements(linkStack) \cap Installed \subseteq Elements(unlinkStack)
  /\ phase = "unlink" => Removed \subseteq Elements(unlinkStack) \union Elements(todo)
  /\ phase = "link" =>
       /\ sig \/ Removed \subseteq Elements(unlinkStack)
       /\ op.kind = "link" /\ op.pkg \in Installed => op.pkg \in Elements(unlinkStack)

RunInv == IInv /\ FilesInv /\ EndingInv /\ GoingFiles /\ GoingHistory /\ GoingPlan

\* What the steps between packages leave alone, and what they put to work.
LEMMA LoopStepFrame ==
  ASSUME IInv, LoopStep
  PROVE  /\ UNCHANGED <<records, file, pyc, failed, linkStack, unlinkStack>>
         /\ op' = op \/ op = NoOp
         /\ op' = op \/ \E p \in Packages : op' = Unlinking(p) \/ op' = Linking(p)
<1>1. UNCHANGED <<records, file, pyc, failed, linkStack, unlinkStack>>
  BY DEF LoopStep, Begin, Fetch, UninstallPip, UnlinkLoopEnd, SkipUnlink,
     BeginUnlink, LinkLoopEnd, SkipLink, BeginLink, UndoLink, UndoUnlink,
     RolledBack, Finish, Close
<1>2. CASE op' # op
  <2>1. \/ BeginUnlink /\ op' = Unlinking(Head(todo))
        \/ BeginLink /\ op' = Linking(Head(todo))
        \/ UndoLink /\ op' = Unlinking(Head(linkStack))
        \/ UndoUnlink /\ op' = Linking(Head(unlinkStack))
    BY <1>2 DEF LoopStep, Begin, Fetch, UninstallPip, UnlinkLoopEnd, SkipUnlink,
       BeginUnlink, LinkLoopEnd, SkipLink, BeginLink, UndoLink, UndoUnlink,
       RolledBack, Finish, Close
  <2>2. /\ todo \in Seq(Packages) /\ linkStack \in Seq(Packages)
        /\ unlinkStack \in Seq(Packages)
    BY DEF IInv, TypeOK
  <2>3. op = NoOp
    BY <2>1 DEF BeginUnlink, BeginLink, UndoLink, UndoUnlink
  <2>4. PICK p \in Packages : op' = Unlinking(p) \/ op' = Linking(p)
    <3>1. CASE BeginUnlink /\ op' = Unlinking(Head(todo))
      BY <2>2, <3>1, ElementsOfTail DEF BeginUnlink
    <3>2. CASE BeginLink /\ op' = Linking(Head(todo))
      BY <2>2, <3>2, ElementsOfTail DEF BeginLink
    <3>3. CASE UndoLink /\ op' = Unlinking(Head(linkStack))
      BY <2>2, <3>3, ElementsOfTail DEF UndoLink
    <3>4. CASE UndoUnlink /\ op' = Linking(Head(unlinkStack))
      BY <2>2, <3>4, ElementsOfTail DEF UndoUnlink
    <3> QED
      BY <2>1, <3>1, <3>2, <3>3, <3>4
  <2> QED
    BY <1>1, <2>3, <2>4
<1> QED
  BY <1>1, <1>2

\* What happens while a package is being worked on, but for its end.
LEMMA FileStepFrame ==
  ASSUME IInv, \/ \E x \in Paths : UnlinkPath(x) \/ ClearPath(x) \/ LinkPath(x)
               \/ QueuePyc
  PROVE  /\ UNCHANGED <<records, failed, linkStack, unlinkStack, phase, outcome,
                        verdict, sig, todo, entry>>
         /\ op.kind \in {"unlink", "link"} /\ op'.kind = op.kind /\ op'.pkg = op.pkg
         /\ op.pkg \in Packages /\ phase # "ended"
<1>1. op \in Op
  BY DEF IInv, TypeOK
<1>2. op.kind \in {"unlink", "link"} /\ phase # "ended"
  BY DEF UnlinkPath, ClearPath, LinkPath, QueuePyc, Working
<1>3. op'.kind = op.kind /\ op'.pkg = op.pkg
  BY <1>1 DEF Op, UnlinkPath, ClearPath, LinkPath, QueuePyc
<1>4. op.pkg \in Packages
  BY <1>2 DEF IInv, OpInv, UnlinkOpInv, LinkOpInv
<1>5. UNCHANGED <<records, failed, linkStack, unlinkStack, phase, outcome,
                  verdict, sig, todo, entry>>
  BY DEF UnlinkPath, ClearPath, LinkPath, QueuePyc
<1> QED
  BY <1>2, <1>3, <1>4, <1>5

\* The files keep their owners.
LEMMA FilesStep == IInv /\ FilesInv /\ [Next]_vars => FilesInv'
<1> SUFFICES ASSUME IInv, FilesInv, [Next]_vars PROVE FilesInv'
  OBVIOUS
<1>0. file \in [Paths -> Packages \union {NoPackage}] /\ NoPackage \notin Packages
  BY TransactionAssumption DEF IInv, TypeOK
<1>1. ASSUME NEW x \in Paths, UnlinkPath(x) \/ ClearPath(x) PROVE FilesInv'
  <2>1. /\ file' = [file EXCEPT ![x] = NoPackage] /\ UNCHANGED <<records, failed>>
        /\ op'.kind = op.kind /\ op'.pkg = op.pkg /\ op.kind # "none"
    BY <1>1, FileStepFrame DEF UnlinkPath, ClearPath
  <2>2. \A y \in op.left : y # x => y \in op'.left
    BY <1>1 DEF IInv, TypeOK, Op, UnlinkPath, ClearPath
  <2>3. file'[x] = NoPackage /\ \A y \in Paths : y # x => file'[y] = file[y]
    BY <1>0, <2>1
  <2>4. NoneIsNoOp' /\ FilesListed' /\ PlainFilesRecorded'
    BY <2>1, <2>3 DEF FilesInv, NoneIsNoOp, FilesListed, PlainFilesRecorded, Plain
  <2>5. UnlinkErases'
    <3>1. op.kind = "unlink" => op.pkg # NoPackage
      BY <1>0 DEF IInv, OpInv, UnlinkOpInv
    <3> QED
      BY <2>1, <2>2, <2>3, <3>1 DEF FilesInv, UnlinkErases, Plain
  <2> QED
    BY <2>4, <2>5 DEF FilesInv
<1>2. ASSUME NEW x \in Paths, LinkPath(x) PROVE FilesInv'
  <2>1. /\ file' = [file EXCEPT ![x] = op.pkg] /\ UNCHANGED <<records, failed>>
        /\ op'.kind = "link" /\ op'.pkg = op.pkg /\ op.kind = "link"
        /\ x \in op.left
    BY <1>2, FileStepFrame DEF LinkPath, Working
  <2>2. x \in PathsOf[op.pkg]
    BY <2>1 DEF IInv, OpInv, LinkOpInv
  <2> QED
    BY <1>0, <2>1, <2>2 DEF FilesInv, NoneIsNoOp, FilesListed, PlainFilesRecorded,
       UnlinkErases, Plain
<1>3. CASE QueuePyc
  <2>1. /\ file' = file /\ UNCHANGED <<records, failed>>
        /\ op'.kind = "link" /\ op'.pkg = op.pkg
    BY <1>3, FileStepFrame DEF QueuePyc, Working
  <2> QED
    BY <2>1 DEF FilesInv, NoneIsNoOp, FilesListed, PlainFilesRecorded, UnlinkErases, Plain
<1>4. CASE Unlinked \/ LinkUndone
  <2>1. /\ op.kind = "unlink" /\ op.left = {} /\ op' = NoOp /\ op'.kind = "none"
        /\ records' = records \ {op.pkg} /\ UNCHANGED <<file, failed>>
    BY <1>4 DEF Unlinked, LinkUndone, UnlinkComplete, NoOp
  <2> QED
    BY <2>1 DEF FilesInv, NoneIsNoOp, FilesListed, PlainFilesRecorded, UnlinkErases, Plain
<1>5. CASE Linked \/ UnlinkUndone
  <2>1. /\ op' = NoOp /\ op'.kind = "none"
        /\ records' = records \union {op.pkg} /\ UNCHANGED <<file, failed>>
    BY <1>5 DEF Linked, UnlinkUndone, NoOp
  <2> QED
    BY <2>1 DEF FilesInv, NoneIsNoOp, FilesListed, PlainFilesRecorded, UnlinkErases, Plain
<1>6. CASE Fail
  <2>1. /\ op' = NoOp /\ op'.kind = "none"
        /\ failed' = failed \union {op.pkg} /\ UNCHANGED <<file, records>>
    BY <1>6 DEF Fail, NoOp
  <2> QED
    BY <2>1 DEF FilesInv, NoneIsNoOp, FilesListed, PlainFilesRecorded, UnlinkErases, Plain
<1>7. CASE LoopStep
  <2>1. UNCHANGED <<records, file, failed>>
    BY <1>7, LoopStepFrame
  <2>2. CASE op' = op
    BY <2>1, <2>2 DEF FilesInv, NoneIsNoOp, FilesListed, PlainFilesRecorded,
       UnlinkErases, Plain
  <2>3. CASE op' # op
    <3>1. op = NoOp /\ \E p \in Packages : op' = Unlinking(p) \/ op' = Linking(p)
      BY <1>7, <2>3, LoopStepFrame
    <3> PICK p \in Packages : op' = Unlinking(p) \/ op' = Linking(p)
      BY <3>1
    <3>2. op.pkg = NoPackage /\ op'.kind # "none" /\ op'.pkg = p
      BY <3>1 DEF NoOp, Unlinking, Linking
    <3>3. UnlinkErases'
      <4> SUFFICES ASSUME op'.kind = "unlink", NEW x \in Paths, Plain(x), file[x] = p
                   PROVE  x \in op'.left \/ p \in failed
        BY <2>1, <3>2 DEF UnlinkErases, Plain
      <4>1. op' = Unlinking(p)
        BY DEF Linking
      <4>2. x \in PathsOf[p] \union PycOf[p] /\ p \in records \union failed
        BY <1>0, <3>1, <3>2 DEF FilesInv, FilesListed, PlainFilesRecorded
      <4>3. p \in records => op'.left = PathsOf[p] \union PycOf[p]
        BY <4>1 DEF Unlinking
      <4> QED
        BY <4>2, <4>3
    <3> QED
      BY <2>1, <3>2, <3>3 DEF FilesInv, NoneIsNoOp, FilesListed, PlainFilesRecorded, Plain
  <2> QED
    BY <2>2, <2>3
<1>8. ASSUME NEW p \in Packages, NEW x \in Paths, CompilePyc(p, x) PROVE FilesInv'
  <2>1. /\ UNCHANGED <<records, failed, op>> /\ x \in PycOf[p]
        /\ file' = [file EXCEPT ![x] = p] \/ file' = file
    BY <1>8 DEF CompilePyc, IInv, DiskInv, PycInv
  <2>2. ~Plain(x)
    BY <2>1 DEF Plain
  <2> QED
    BY <1>0, <2>1, <2>2 DEF FilesInv, NoneIsNoOp, FilesListed, PlainFilesRecorded,
       UnlinkErases, Plain
<1>9. CASE Interrupt \/ Kill \/ UNCHANGED vars
  <2>1. UNCHANGED <<records, failed, op, file>>
    BY <1>9 DEF Interrupt, Kill, vars
  <2> QED
    BY <2>1 DEF FilesInv, NoneIsNoOp, FilesListed, PlainFilesRecorded, UnlinkErases, Plain
<1> QED
  BY <1>1, <1>2, <1>3, <1>4, <1>5, <1>6, <1>7, <1>8, <1>9
  DEF Next, PackageStep, Compile, Ended

\* The outcome and the exceptions follow the phases.
LEMMA EndingStep == IInv /\ NoneIsNoOp /\ EndingInv /\ [Next]_vars => EndingInv'
<1> SUFFICES ASSUME IInv, NoneIsNoOp, EndingInv, [Next]_vars PROVE EndingInv'
  OBVIOUS
<1>0. NoOp.kind = "none" /\ verdict \in {"none", "cancelled", "interrupted"}
  BY DEF NoOp, IInv, TypeOK
<1>1. CASE \/ \E x \in Paths : UnlinkPath(x) \/ ClearPath(x) \/ LinkPath(x)
           \/ QueuePyc
  <2>1. /\ UNCHANGED <<failed, linkStack, unlinkStack, phase, outcome, verdict>>
        /\ op # NoOp
    BY <1>0, <1>1, FileStepFrame
  <2> QED
    BY <2>1 DEF EndingInv, Forward
<1>2. CASE Unlinked \/ Linked \/ LinkUndone \/ UnlinkUndone
  <2>1. /\ phase \in {"unlink", "link", "rollback"}
        /\ UNCHANGED <<failed, phase, outcome, verdict>>
    BY <1>2 DEF Unlinked, Linked, LinkUndone, UnlinkUndone
  <2> QED
    BY <2>1 DEF EndingInv, Forward
<1>3. CASE Fail
  <2>1. phase \in {"unlink", "link", "rollback"}
    BY <1>3 DEF Fail, Working, IInv, OpInv, OpIsNext
  <2> QED
    BY <1>3, <2>1 DEF Fail, EndingInv, Forward
<1>4. CASE Begin \/ Fetch \/ UninstallPip \/ UnlinkLoopEnd \/ SkipUnlink \/ BeginUnlink
  BY <1>4 DEF Begin, Fetch, UninstallPip, UnlinkLoopEnd, SkipUnlink, BeginUnlink,
     EndingInv, Forward
<1>5. CASE LinkLoopEnd \/ SkipLink \/ BeginLink \/ UndoLink \/ UndoUnlink
  BY <1>5 DEF LinkLoopEnd, SkipLink, BeginLink, UndoLink, UndoUnlink, EndingInv, Forward
<1>6. CASE RolledBack
  BY <1>0, <1>6 DEF RolledBack, EndingInv, Forward
<1>7. CASE Finish
  <2>1. op = NoOp
    BY <1>7 DEF Finish, IInv, TypeOK, Op, OpInv, OpIsNext, NoneIsNoOp
  <2> QED
    BY <1>7, <2>1 DEF Finish, EndingInv, Forward
<1>8. CASE Close \/ Kill \/ Interrupt \/ UNCHANGED vars
  BY <1>8 DEF Close, Kill, Interrupt, vars, EndingInv, Forward
<1>9. CASE Compile
  <2>1. UNCHANGED <<op, failed, linkStack, unlinkStack, phase, outcome, verdict>>
    BY <1>9 DEF Compile, CompilePyc
  <2> QED
    BY <2>1 DEF EndingInv, Forward
<1> QED
  BY <1>1, <1>2, <1>3, <1>4, <1>5, <1>6, <1>7, <1>8, <1>9
  DEF Next, PackageStep, LoopStep, Ended


\* The option never changes, and with it what pip keeps.
LEMMA InteropFixed ==
  ASSUME [Next]_vars
  PROVE  Added' = Added /\ Target' = Target
<1>1. interop' = interop
  BY DEF Next, vars, PackageStep, UnlinkPath, ClearPath, LinkPath, QueuePyc, Unlinked,
     Linked, LinkUndone, UnlinkUndone, Fail, LoopStep, Begin, Fetch, UninstallPip,
     UnlinkLoopEnd, SkipUnlink, BeginUnlink, LinkLoopEnd, SkipLink, BeginLink, UndoLink,
     UndoUnlink, RolledBack, Finish, Close, Compile, CompilePyc, Interrupt, Kill, Ended
<1> QED
  BY <1>1 DEF Added, Target, KeepsPip, IsPip, Final

\* What is planned: what stays and what is added.
LEMMA TargetIs == Kept \union Added = Target
<1>1. ASSUME NEW p PROVE p \in Kept \union Added <=> p \in Target
  BY <1>1 DEF Kept, Added, Removed, Target, Final, KeepsPip, IsPip
<1> QED
  BY <1>1

\* A transaction that goes on was going on before.
LEMMA GoingBefore ==
  ASSUME IInv, EndingInv, [Next]_vars, Going'
  PROVE  Going /\ ~LinkUndone /\ ~UnlinkUndone /\ ~Fail /\ ~Kill
<1>0. op # NoOp => outcome # "done"
  BY DEF EndingInv
<1>1. ~Fail /\ ~Kill
  BY <1>0 DEF Fail, Working, NoOp, Kill, Going, Forward
<1>2. ~LinkUndone /\ ~UnlinkUndone
  BY DEF LinkUndone, UnlinkUndone, Going, Forward, EndingInv
<1>3. ~RolledBack
  <2>1. verdict # "done"
    BY DEF IInv, TypeOK
  <2>2. RolledBack => phase' = "closing" /\ outcome' = verdict
    BY DEF RolledBack
  <2> QED
    BY <2>1, <2>2 DEF Going, Forward
<1>4. CASE LoopStep
  <2>1. CASE UndoLink \/ UndoUnlink \/ Close
    BY <1>1, <1>2, <2>1 DEF UndoLink, UndoUnlink, Close, Going, Forward
  <2>2. CASE Forward
    BY <1>1, <1>2, <2>2 DEF Going
  <2> QED
    BY <1>1, <1>2, <1>3, <1>4, <2>1, <2>2 DEF LoopStep, Begin, Fetch, UninstallPip,
       UnlinkLoopEnd, SkipUnlink, BeginUnlink, LinkLoopEnd, SkipLink, BeginLink, Finish,
       Forward
<1>5. CASE PackageStep
  <2>1. phase' = phase /\ outcome' = outcome
    BY <1>1, <1>2, <1>5 DEF PackageStep, UnlinkPath, ClearPath, LinkPath, QueuePyc, Unlinked,
       Linked
  <2> QED
    BY <1>1, <1>2, <2>1 DEF Going, Forward
<1>6. CASE Compile \/ Interrupt \/ UNCHANGED vars
  BY <1>1, <1>2, <1>6 DEF Compile, CompilePyc, Interrupt, vars, Going, Forward
<1> QED
  BY <1>1, <1>2, <1>4, <1>5, <1>6 DEF Next, Ended

\* While it goes on, packages are unlinked first and linked then.
LEMMA GoingOps ==
  ASSUME IInv, EndingInv, Going
  PROVE  /\ op.kind = "unlink" => phase = "unlink"
         /\ op.kind = "link" => phase = "link"
BY DEF Going, Forward, EndingInv, IInv, OpInv, UnlinkOpInv, LinkOpInv, NoOp

\* No file without a record while the transaction goes on.
LEMMA GoingFilesStep ==
  IInv /\ FilesInv /\ EndingInv /\ GoingFiles /\ [Next]_vars => GoingFiles'
<1> SUFFICES ASSUME IInv, FilesInv, EndingInv, GoingFiles, [Next]_vars, Going'
             PROVE  GoingFiles'
  BY DEF GoingFiles
<1>0. /\ file \in [Paths -> Packages \union {NoPackage}] /\ NoPackage \notin Packages
      /\ pyc \in [Packages -> SUBSET Paths]
  BY TransactionAssumption DEF IInv, TypeOK
<1>1. /\ Going /\ ~LinkUndone /\ ~UnlinkUndone /\ ~Fail /\ ~Kill
      /\ op.kind = "unlink" => phase = "unlink"
      /\ op.kind = "link" => phase = "link"
  BY GoingBefore, GoingOps
<1>2. /\ \A x \in Paths : file[x] \in records \union {op.pkg, NoPackage}
      /\ \A p \in Packages : pyc[p] # {} => p \in records \union {op.pkg}
      /\ phase \in {"start", "fetch", "pip", "unlink"} => \A p \in Packages : pyc[p] = {}
      /\ phase = "unlink" /\ op.kind = "unlink" =>
           \A x \in Paths : file[x] = op.pkg => x \in op.left
  BY <1>1 DEF GoingFiles
<1>3. ASSUME NEW x \in Paths, UnlinkPath(x) PROVE GoingFiles'
  <2>1. /\ file' = [file EXCEPT ![x] = NoPackage] /\ UNCHANGED <<records, phase, pyc>>
        /\ op'.kind = op.kind /\ op'.pkg = op.pkg /\ op.pkg # NoPackage
    BY <1>0, <1>3, FileStepFrame DEF UnlinkPath
  <2>2. op'.left = op.left \ {x}
    BY <1>3 DEF IInv, TypeOK, Op, UnlinkPath
  <2> QED
    BY <1>0, <1>2, <2>1, <2>2 DEF GoingFiles
<1>4. ASSUME NEW x \in Paths, ClearPath(x) \/ LinkPath(x) PROVE GoingFiles'
  <2>1. /\ \E q \in {NoPackage, op.pkg} : file' = [file EXCEPT ![x] = q]
        /\ UNCHANGED <<records, phase, pyc>>
        /\ op'.kind = "link" /\ op.kind = "link" /\ op'.pkg = op.pkg
    BY <1>4, FileStepFrame DEF ClearPath, LinkPath, Working
  <2> QED
    BY <1>0, <1>2, <2>1 DEF GoingFiles
<1>5. CASE QueuePyc
  <2>1. /\ pyc' = [pyc EXCEPT ![op.pkg] = PycOf[op.pkg]]
        /\ UNCHANGED <<records, phase, file>>
        /\ op'.kind = "link" /\ op.kind = "link" /\ op'.pkg = op.pkg
    BY <1>5, FileStepFrame DEF QueuePyc, Working
  <2> QED
    BY <1>0, <1>1, <1>2, <2>1 DEF GoingFiles
<1>6. CASE Unlinked
  <2>1. /\ op.kind = "unlink" /\ op.left = {} /\ op'.kind = "none"
        /\ phase = "unlink" /\ phase' = phase
        /\ records' = records \ {op.pkg} /\ UNCHANGED <<file, pyc>>
    BY <1>6 DEF Unlinked, UnlinkComplete, NoOp
  <2> QED
    BY <1>2, <2>1 DEF GoingFiles
<1>7. CASE Linked
  <2>1. /\ op'.kind = "none" /\ phase = "link" /\ phase' = phase
        /\ records' = records \union {op.pkg} /\ UNCHANGED <<file, pyc>>
    BY <1>7 DEF Linked, LinkComplete, NoOp
  <2> QED
    BY <1>2, <2>1 DEF GoingFiles
<1>8. CASE LoopStep
  <2>1. UNCHANGED <<records, file, pyc>>
    BY <1>7, LoopStepFrame, <1>8
  <2>2. phase' \in {"start", "fetch", "pip", "unlink"} =>
          phase \in {"start", "fetch", "pip", "unlink"}
    BY <1>8 DEF LoopStep, Begin, Fetch, UninstallPip, UnlinkLoopEnd, SkipUnlink,
       BeginUnlink, LinkLoopEnd, SkipLink, BeginLink, UndoLink, UndoUnlink, RolledBack,
       Finish, Close
  <2>3. phase' = "unlink" => phase = "unlink" \/ op' = op
    BY <1>8 DEF LoopStep, Begin, Fetch, UninstallPip, UnlinkLoopEnd, SkipUnlink,
       BeginUnlink, LinkLoopEnd, SkipLink, BeginLink, UndoLink, UndoUnlink, RolledBack,
       Finish, Close
  <2>4. CASE op' = op
    BY <1>1, <1>2, <2>1, <2>2, <2>3, <2>4 DEF GoingFiles
  <2>5. CASE op' # op
    <3>1. op = NoOp /\ \E p \in Packages : op' = Unlinking(p) \/ op' = Linking(p)
      BY <1>8, <2>5, LoopStepFrame
    <3> PICK p \in Packages : op' = Unlinking(p) \/ op' = Linking(p)
      BY <3>1
    <3>2. op.pkg = NoPackage /\ op'.pkg = p
      BY <3>1 DEF NoOp, Unlinking, Linking
    <3>3. ASSUME op'.kind = "unlink", NEW x \in Paths, file[x] = p
          PROVE  x \in op'.left
      <4>1. op' = Unlinking(p)
        BY <3>3 DEF Linking
      <4>2. x \in PathsOf[p] \union PycOf[p] /\ p \in records
        BY <1>0, <1>2, <3>2, <3>3 DEF FilesInv, FilesListed
      <4> QED
        BY <4>1, <4>2 DEF Unlinking
    <3> QED
      BY <1>0, <1>2, <2>1, <2>2, <3>2, <3>3 DEF GoingFiles
  <2> QED
    BY <2>4, <2>5
<1>9. ASSUME NEW p \in Packages, NEW x \in Paths, CompilePyc(p, x) PROVE GoingFiles'
  <2>1. /\ UNCHANGED <<records, op, phase>> /\ x \in pyc[p]
        /\ pyc' = [pyc EXCEPT ![p] = @ \ {x}]
        /\ file' = [file EXCEPT ![x] = p] \/ file' = file
    BY <1>9 DEF CompilePyc
  <2>2. p \in records \union {op.pkg} /\ phase \notin {"start", "fetch", "pip", "unlink"}
    BY <1>2, <2>1
  <2> QED
    BY <1>0, <1>2, <2>1, <2>2 DEF GoingFiles
<1>10. CASE Interrupt \/ UNCHANGED vars
  <2>1. UNCHANGED <<records, op, file, phase, pyc>>
    BY <1>10 DEF Interrupt, vars
  <2> QED
    BY <1>2, <2>1 DEF GoingFiles
<1> QED
  BY <1>1, <1>3, <1>4, <1>5, <1>6, <1>7, <1>8, <1>9, <1>10
  DEF Next, PackageStep, Compile, Ended

\* The history entry follows the records.
LEMMA GoingHistoryStep ==
  IInv /\ EndingInv /\ GoingHistory /\ GoingPlan /\ [Next]_vars => GoingHistory'
<1> SUFFICES ASSUME IInv, EndingInv, GoingHistory, GoingPlan, [Next]_vars, Going'
             PROVE  GoingHistory'
  BY DEF GoingHistory
<1>0. entry \in [unlinked : SUBSET Packages, linked : SUBSET Packages]
  BY DEF IInv, TypeOK
<1>1. Going /\ ~LinkUndone /\ ~UnlinkUndone /\ ~Fail /\ ~Kill
  BY GoingBefore
<1>2. /\ records = (Installed \ {p \in entry.unlinked : ~IsPip(p)}) \union entry.linked
      /\ phase \in {"start", "fetch", "pip", "unlink"} => entry.linked = {}
  BY <1>1 DEF GoingHistory
<1>3. CASE Unlinked
  <2>1. /\ records' = records \ {op.pkg} /\ phase = "unlink"
        /\ entry'.unlinked = entry.unlinked \union {op.pkg} /\ entry'.linked = entry.linked
    BY <1>0, <1>3 DEF Unlinked
  <2>2. ~IsPip(op.pkg)
    BY <1>3, <2>1 DEF Unlinked, UnlinkComplete, GoingPlan, Removed
  <2> QED
    BY <1>2, <2>1, <2>2 DEF GoingHistory
<1>4. CASE Linked
  <2>1. /\ records' = records \union {op.pkg} /\ phase' = "link"
        /\ entry'.linked = entry.linked \union {op.pkg} /\ entry'.unlinked = entry.unlinked
    BY <1>0, <1>4 DEF Linked
  <2> QED
    BY <1>2, <2>1 DEF GoingHistory
<1>5. CASE SkipUnlink
  <2>1. /\ records' = records /\ phase' = phase /\ IsPip(Head(todo))
        /\ entry'.unlinked = entry.unlinked \union {Head(todo)} /\ entry'.linked = entry.linked
    BY <1>0, <1>5 DEF SkipUnlink
  <2> QED
    BY <1>2, <2>1 DEF GoingHistory
<1>6. CASE LoopStep /\ ~SkipUnlink
  <2>1. UNCHANGED <<records, entry>>
    BY <1>6 DEF LoopStep, Begin, Fetch, UninstallPip, UnlinkLoopEnd,
       BeginUnlink, LinkLoopEnd, SkipLink, BeginLink, UndoLink, UndoUnlink, RolledBack,
       Finish, Close
  <2>2. phase' \in {"start", "fetch", "pip", "unlink"} =>
          phase \in {"start", "fetch", "pip", "unlink"}
    BY <1>6 DEF LoopStep, Begin, Fetch, UninstallPip, UnlinkLoopEnd,
       BeginUnlink, LinkLoopEnd, SkipLink, BeginLink, UndoLink, UndoUnlink, RolledBack,
       Finish, Close
  <2> QED
    BY <1>2, <2>1, <2>2 DEF GoingHistory
<1>7. CASE \/ \E x \in Paths : UnlinkPath(x) \/ ClearPath(x) \/ LinkPath(x)
           \/ QueuePyc \/ Compile \/ Interrupt \/ UNCHANGED vars
  <2>1. UNCHANGED <<records, entry, phase>>
    BY <1>7 DEF UnlinkPath, ClearPath, LinkPath, QueuePyc, Compile, CompilePyc, Interrupt,
       vars
  <2> QED
    BY <1>2, <2>1 DEF GoingHistory
<1> QED
  BY <1>1, <1>3, <1>4, <1>5, <1>6, <1>7 DEF Next, PackageStep, Ended

\* The loops carry out the plan.
LEMMA GoingPlanStep ==
  IInv /\ EndingInv /\ GoingPlan /\ [Next]_vars => GoingPlan'
<1> SUFFICES ASSUME IInv, EndingInv, GoingPlan, [Next]_vars
             PROVE  GoingPlan'
  OBVIOUS
<1>0. /\ Added' = Added /\ Target' = Target /\ Kept' = Kept /\ Removed' = Removed
      /\ Added \subseteq Elements(Install)
      /\ phase \in {"rollback", "closing", "ended"} => phase # "unlink" /\ phase # "link"
  BY InteropFixed DEF Kept, Removed, Added, IsPip
<1>1. Going' => Going
  BY GoingBefore
<1>2. CASE Unlinked
  <2>1. /\ records' = records \ {op.pkg} /\ phase = "unlink" /\ phase' = phase
        /\ op.kind = "unlink" /\ op'.kind = "none" /\ todo' = Tail(todo)
        /\ outcome' = outcome
    BY <1>2 DEF Unlinked, UnlinkComplete, NoOp
  <2>2. todo # <<>> /\ todo \in Seq(Elements(Remove)) /\ op.pkg \in Removed
    BY <2>1 DEF IInv, OpInv, OpIsNext, GoingPlan
  <2>3. Tail(todo) \in Seq(Elements(Remove)) /\ op.pkg \notin Kept
    BY <2>2, ElementsOfTail DEF Kept
  <2>4. outcome # "done"
    BY <2>1 DEF EndingInv, Forward
  <2> QED
    BY <1>0, <1>1, <2>1, <2>3, <2>4 DEF GoingPlan
<1>3. CASE Linked
  <2>1. /\ records' = records \union {op.pkg} /\ phase = "link" /\ phase' = phase
        /\ op.kind = "link" /\ op'.kind = "none" /\ todo' = Tail(todo)
        /\ UNCHANGED <<outcome, sig>>
    BY <1>3 DEF Linked, LinkComplete, NoOp
  <2>2. todo # <<>> /\ todo \in Seq(Packages) /\ op.pkg = Head(todo) /\ op.pkg \in Added
    <3>1. todo \in Seq(Packages) /\ todo # <<>> /\ op.pkg \in Added
      BY <2>1 DEF IInv, TypeOK, OpInv, OpIsNext, GoingPlan
    <3>2. op.pkg = Head(todo)
      BY <2>1 DEF IInv, OpInv, OpIsNext
    <3> QED
      BY <3>1, <3>2
  <2>3. Elements(todo) = {op.pkg} \union Elements(Tail(todo))
    BY <2>2, ElementsOfTail
  <2>4. outcome # "done"
    BY <2>1 DEF EndingInv, Forward
  <2> QED
    BY <1>0, <1>1, <2>1, <2>2, <2>3, <2>4 DEF GoingPlan
<1>4. CASE UninstallPip
  <2>1. Remove \in Seq(Elements(Remove))
    BY SeqOfElements, TransactionAssumption
  <2>2. /\ records' = records /\ phase' = "unlink" /\ todo' = Remove
        /\ op'.kind = "none" /\ outcome' # "done"
    BY <1>4 DEF UninstallPip, IInv, TypeOK, Op, OpInv, OpIsNext, EndingInv, Forward
  <2> QED
    BY <1>0, <1>1, <2>1, <2>2 DEF GoingPlan
<1>5. CASE SkipUnlink \/ BeginUnlink
  <2>1. /\ records' = records /\ phase' = "unlink" /\ phase = "unlink" /\ todo # <<>>
        /\ op = NoOp /\ outcome' # "done"
    BY <1>5 DEF SkipUnlink, BeginUnlink, EndingInv, Forward
  <2>2. Head(todo) \in Elements(Remove) /\ Tail(todo) \in Seq(Elements(Remove))
        /\ todo \in Seq(Elements(Remove))
    BY <2>1, ElementsOfTail DEF GoingPlan
  <2>3. todo' \in Seq(Elements(Remove))
    BY <1>5, <2>2 DEF SkipUnlink, BeginUnlink
  <2>4. op'.kind = "unlink" => op'.pkg \in Removed
    BY <1>5, <2>1, <2>2 DEF SkipUnlink, BeginUnlink, NoOp, Unlinking, Removed
  <2> QED
    BY <1>0, <1>1, <2>1, <2>3, <2>4 DEF GoingPlan
<1>6. CASE UnlinkLoopEnd
  <2>1. /\ records' = records /\ phase = "unlink" /\ phase' = "link" /\ todo' = Install
        /\ op'.kind = "none" /\ sig' = sig /\ (sig \/ todo = <<>>)
        /\ outcome' # "done"
    BY <1>6 DEF UnlinkLoopEnd, NoOp, EndingInv, Forward
  <2>2. sig \/ records \subseteq Kept
    <3>1. records \subseteq Installed
      BY <2>1 DEF IInv, LoopInv, Elements
    <3>2. todo = <<>> => \A p \in Removed : p \notin records
      BY <2>1 DEF IInv, LoopInv, Removed, Elements
    <3> QED
      BY <2>1, <3>1, <3>2 DEF Kept
  <2> QED
    BY <1>0, <1>1, <2>1, <2>2 DEF GoingPlan
<1>7. CASE SkipLink
  <2>1. /\ records' = records /\ phase = "link" /\ phase' = phase /\ todo # <<>>
        /\ op'.kind = "none" /\ sig' = sig /\ todo' = Tail(todo)
        /\ outcome' # "done" /\ KeepsPip(Head(todo))
    BY <1>7 DEF SkipLink, NoOp, EndingInv, Forward
  <2>2. Elements(todo) = {Head(todo)} \union Elements(Tail(todo))
    BY <2>1, ElementsOfTail DEF IInv, TypeOK
  <2>3. Head(todo) \notin Added
    BY <2>1 DEF Added
  <2> QED
    BY <1>0, <1>1, <2>1, <2>2, <2>3 DEF GoingPlan
<1>8. CASE BeginLink
  <2>1. /\ records' = records /\ phase = "link" /\ phase' \in {"link", "closing"}
        /\ todo # <<>> /\ (op' = NoOp \/ op' = Linking(Head(todo)))
        /\ sig' = sig /\ todo' = todo
        /\ outcome' # "done" /\ ~KeepsPip(Head(todo))
    BY <1>8 DEF BeginLink, EndingInv, Forward
  <2>2. Head(todo) \in Added
    <3>1. todo \in Seq(Elements(Install))
      BY <2>1 DEF IInv, LoopInv
    <3>2. Head(todo) \in Elements(Install)
      BY <2>1, <3>1
    <3> QED
      BY <2>1, <3>2 DEF Added
  <2>3. op'.kind = "link" => op'.pkg \in Added
    BY <2>1, <2>2 DEF NoOp, Linking
  <2> QED
    BY <1>0, <1>1, <2>1, <2>3 DEF GoingPlan
<1>9. CASE LinkLoopEnd
  <2>1. /\ records' = records /\ phase = "link" /\ phase' \in {"rollback", "finish"}
        /\ phase' = "finish" => ~sig /\ todo = <<>>
        /\ outcome' # "done"
    BY <1>9 DEF LinkLoopEnd, EndingInv, Forward
  <2>2. phase' = "finish" => records = Target
    <3> SUFFICES ASSUME phase' = "finish" PROVE records = Target
      OBVIOUS
    <3>1. Elements(todo) = {}
      BY <2>1 DEF Elements
    <3>2. records = Kept \union Added
      BY <2>1, <3>1 DEF GoingPlan, Going, Forward
    <3> QED
      BY <3>2, TargetIs
  <2> QED
    BY <1>0, <1>1, <2>1, <2>2 DEF GoingPlan
<1>10. CASE Begin \/ Fetch \/ Finish \/ Close \/ UndoLink \/ UndoUnlink \/ RolledBack
  <2>1. /\ records' = records /\ phase' \notin {"unlink", "link", "finish"}
        /\ outcome' = "done" => outcome = "done" \/ phase = "finish"
    <3>1. verdict # "done"
      BY DEF IInv, TypeOK
    <3> QED
      BY <1>10, <3>1 DEF Begin, Fetch, Finish, Close, UndoLink, UndoUnlink, RolledBack
  <2> QED
    BY <1>0, <1>1, <2>1 DEF GoingPlan
<1>11. CASE Fail \/ LinkUndone \/ UnlinkUndone \/ Kill
  <2>1. phase' \notin {"unlink", "link", "finish"} /\ ~Going'
    <3>1. phase' \in {"rollback", "closing", "ended"}
      BY <1>11 DEF Fail, LinkUndone, UnlinkUndone, Kill
    <3> QED
      BY <1>11, <3>1, GoingBefore
  <2> QED
    BY <2>1 DEF GoingPlan, Going
<1>12. CASE \/ \E x \in Paths : UnlinkPath(x) \/ ClearPath(x) \/ LinkPath(x)
            \/ QueuePyc
  <2>1. /\ UNCHANGED <<records, phase, todo, outcome, sig>>
        /\ op'.kind = op.kind /\ op'.pkg = op.pkg
    BY <1>12, FileStepFrame
  <2> QED
    BY <1>0, <1>1, <2>1 DEF GoingPlan
<1>13. CASE Compile \/ Interrupt \/ UNCHANGED vars
  <2>1. UNCHANGED <<records, phase, todo, outcome, op>> /\ (sig' = sig \/ sig' = TRUE)
    BY <1>13 DEF Compile, CompilePyc, Interrupt, vars
  <2> QED
    BY <1>0, <1>1, <2>1 DEF GoingPlan
<1> QED
  BY <1>2, <1>3, <1>4, <1>5, <1>6, <1>7, <1>8, <1>9, <1>10, <1>11, <1>12, <1>13
  DEF Next, PackageStep, LoopStep, Ended

\* Every step keeps what was installed within reach of a rollback.
LEMMA RestorableStep ==
  ASSUME NothingRelinked, IInv, EndingInv, GoingPlan, Restorable, [Next]_vars
  PROVE  Restorable'
<1>0. /\ todo \in Seq(Packages) /\ linkStack \in Seq(Packages)
      /\ unlinkStack \in Seq(Packages)
      /\ Removed' = Removed
  BY DEF IInv, TypeOK, Removed, IsPip
<1>1. CASE Unlinked
  <2>1. /\ records' = records \ {op.pkg} /\ phase = "unlink" /\ phase' = phase
        /\ op.kind = "unlink" /\ op'.kind = "none" /\ todo' = Tail(todo)
        /\ linkStack' = linkStack /\ unlinkStack' = <<op.pkg>> \o unlinkStack
    BY <1>1 DEF Unlinked, UnlinkComplete, NoOp
  <2>2. todo # <<>> /\ op.pkg = Head(todo) /\ op.pkg \in Packages
    BY <2>1 DEF IInv, OpInv, OpIsNext, UnlinkOpInv
  <2>3. Elements(todo) = {op.pkg} \union Elements(Tail(todo))
    BY <1>0, <2>2, ElementsOfTail
  <2>4. Elements(<<op.pkg>> \o unlinkStack) = {op.pkg} \union Elements(unlinkStack)
    BY <1>0, <2>2, ElementsOfPush
  <2> QED
    BY <1>0, <2>1, <2>3, <2>4 DEF Restorable
<1>2. CASE Linked
  <2>1. /\ records' = records \union {op.pkg} /\ phase = "link" /\ phase' = phase
        /\ op.kind = "link" /\ op'.kind = "none" /\ sig' = sig
        /\ unlinkStack' = unlinkStack /\ linkStack' = <<op.pkg>> \o linkStack
    BY <1>2 DEF Linked, LinkComplete, NoOp
  <2>2. op.pkg \in Packages
    BY <2>1 DEF IInv, OpInv, LinkOpInv
  <2>3. Elements(<<op.pkg>> \o linkStack) = {op.pkg} \union Elements(linkStack)
    BY <1>0, <2>2, ElementsOfPush
  <2> QED
    BY <1>0, <2>1, <2>3 DEF Restorable
<1>3. CASE LinkUndone
  <2>1. /\ records' = records \ {op.pkg} /\ phase = "rollback" /\ phase' = phase
        /\ op.kind = "unlink" /\ linkStack' = Tail(linkStack)
        /\ unlinkStack' = unlinkStack
    BY <1>3 DEF LinkUndone, UnlinkComplete
  <2>2. linkStack # <<>> /\ op.pkg = Head(linkStack)
    BY <2>1 DEF IInv, OpInv, OpIsNext
  <2>3. Elements(linkStack) = {op.pkg} \union Elements(Tail(linkStack))
    BY <1>0, <2>2, ElementsOfTail
  <2> QED
    BY <1>0, <2>1, <2>3 DEF Restorable
<1>4. CASE UnlinkUndone
  <2>1. /\ records' = records \union {op.pkg} /\ phase = "rollback" /\ phase' = phase
        /\ op.kind = "link" /\ linkStack' = linkStack
        /\ unlinkStack' = Tail(unlinkStack)
    BY <1>4 DEF UnlinkUndone, LinkComplete
  <2>2. linkStack = <<>> /\ unlinkStack # <<>> /\ op.pkg = Head(unlinkStack)
    BY <2>1 DEF IInv, OpInv, OpIsNext
  <2>3. Elements(unlinkStack) = {op.pkg} \union Elements(Tail(unlinkStack))
    BY <1>0, <2>2, ElementsOfTail
  <2>4. Elements(linkStack) = {}
    BY <2>2 DEF Elements
  <2> QED
    BY <1>0, <2>1, <2>3, <2>4 DEF Restorable
<1>5. CASE LoopStep
  <2>1. UNCHANGED <<records, linkStack, unlinkStack>>
    BY <1>5, LoopStepFrame
  <2>2. CASE UninstallPip
    <3>1. phase' = "unlink" /\ todo' = Remove
      BY <2>2 DEF UninstallPip
    <3>2. Removed \subseteq Elements(Remove)
      BY DEF Removed
    <3> QED
      BY <1>0, <2>1, <3>1, <3>2 DEF Restorable
  <2>3. CASE SkipUnlink
    <3>1. phase' = "unlink" /\ phase = "unlink" /\ todo # <<>> /\ todo' = Tail(todo)
          /\ IsPip(Head(todo))
      BY <2>3 DEF SkipUnlink
    <3>2. Elements(todo) = {Head(todo)} \union Elements(Tail(todo)) /\ Head(todo) \notin Removed
      BY <1>0, <3>1, ElementsOfTail DEF Removed
    <3> QED
      BY <1>0, <2>1, <3>1, <3>2 DEF Restorable
  <2>4. CASE UnlinkLoopEnd
    <3>1. phase = "unlink" /\ phase' = "link" /\ sig' = sig /\ (sig \/ todo = <<>>)
          /\ op'.kind = "none"
      BY <2>4 DEF UnlinkLoopEnd, NoOp
    <3>2. todo = <<>> => Elements(todo) = {}
      BY DEF Elements
    <3> QED
      BY <1>0, <2>1, <3>1, <3>2 DEF Restorable
  <2>5. CASE BeginLink
    <3>1. /\ phase = "link" /\ ~sig /\ sig' = sig /\ phase' \in {"link", "closing"}
          /\ todo # <<>> /\ (op' = NoOp \/ op' = Linking(Head(todo)))
      BY <2>5 DEF BeginLink
    <3>2. Removed \subseteq Elements(unlinkStack)
      BY <3>1 DEF Restorable
    <3>3. op'.kind = "link" => op'.pkg \in Elements(Install)
      <4>1. todo \in Seq(Elements(Install))
        BY <3>1 DEF IInv, LoopInv
      <4>2. Head(todo) \in Elements(Install)
        BY <3>1, <4>1
      <4> QED
        BY <3>1, <4>2 DEF NoOp, Linking
    <3>4. op'.kind = "link" /\ op'.pkg \in Installed => op'.pkg \in Elements(unlinkStack)
      BY <3>2, <3>3 DEF NothingRelinked, Kept
    <3> QED
      BY <1>0, <2>1, <3>1, <3>2, <3>4 DEF Restorable
  <2>6. CASE SkipLink
    <3>1. phase' = phase /\ sig' = sig /\ op' = op /\ phase = "link"
      BY <2>6 DEF SkipLink
    <3> QED
      BY <1>0, <2>1, <3>1 DEF Restorable
  <2>7. CASE BeginUnlink
    <3>1. phase' = phase /\ todo' = todo /\ phase = "unlink"
      BY <2>7 DEF BeginUnlink
    <3> QED
      BY <1>0, <2>1, <3>1 DEF Restorable
  <2>8. CASE \/ Begin \/ Fetch \/ LinkLoopEnd \/ UndoLink \/ UndoUnlink \/ RolledBack
             \/ Finish \/ Close
    <3>1. phase' \notin {"unlink", "link"}
      BY <2>8 DEF Begin, Fetch, LinkLoopEnd, UndoLink, UndoUnlink, RolledBack, Finish, Close
    <3> QED
      BY <1>0, <2>1, <3>1 DEF Restorable
  <2> QED
    BY <1>5, <2>2, <2>3, <2>4, <2>5, <2>6, <2>7, <2>8 DEF LoopStep
<1>6. CASE Fail \/ Kill
  <2>1. phase' \in {"rollback", "closing", "ended"}
        /\ UNCHANGED <<records, linkStack, unlinkStack>>
    BY <1>6 DEF Fail, Kill
  <2> QED
    BY <1>0, <2>1 DEF Restorable
<1>7. CASE \/ \E x \in Paths : UnlinkPath(x) \/ ClearPath(x) \/ LinkPath(x)
           \/ QueuePyc
  <2>1. /\ UNCHANGED <<records, phase, todo, sig, linkStack, unlinkStack>>
        /\ op'.kind = op.kind /\ op'.pkg = op.pkg
    BY <1>7, FileStepFrame
  <2> QED
    BY <1>0, <2>1 DEF Restorable
<1>8. CASE Compile \/ Interrupt \/ UNCHANGED vars
  <2>1. UNCHANGED <<records, phase, todo, op, linkStack, unlinkStack>>
        /\ (sig' = sig \/ sig' = TRUE)
    BY <1>8 DEF Compile, CompilePyc, Interrupt, vars
  <2> QED
    BY <1>0, <2>1 DEF Restorable
<1> QED
  BY <1>1, <1>2, <1>3, <1>4, <1>5, <1>6, <1>7, <1>8 DEF Next, PackageStep, Ended
-----------------------------------------------------------------------------
(***************************************************************************)
(* The first state, and the theorems.                                      *)
(***************************************************************************)

\* A path of an installed package has that package's content at first.
LEMMA InitialFileIs ==
  ASSUME NEW p \in Installed, NEW x \in PathsOf[p]
  PROVE  x \in Paths /\ InitialFile[x] = p
<1>1. p \in Packages /\ x \in Paths
  BY TransactionAssumption
<1>2. ASSUME NEW q \in Installed, x \in PathsOf[q] \union PycOf[q] PROVE q = p
  <2>1. q \in Packages /\ x \in PathsOf[q]
    BY <1>1, <1>2, TransactionAssumption
  <2> QED
    BY <2>1, Separation DEF Together
<1>3. (CHOOSE q \in Installed : x \in PathsOf[q] \union PycOf[q]) = p
  BY <1>2
<1> QED
  BY <1>1, <1>3 DEF InitialFile

\* Every other path has the content of an installed package that compiles to
\* it, or none.
LEMMA InitialFileListed ==
  ASSUME NEW x \in Paths
  PROVE  \/ InitialFile[x] = NoPackage
         \/ InitialFile[x] \in Installed
            /\ x \in PathsOf[InitialFile[x]] \union PycOf[InitialFile[x]]
<1>1. CASE \E p \in Installed : x \in PathsOf[p] \union PycOf[p]
  <2> DEFINE first == CHOOSE p \in Installed : x \in PathsOf[p] \union PycOf[p]
  <2>1. first \in Installed /\ x \in PathsOf[first] \union PycOf[first]
    BY <1>1
  <2>2. InitialFile[x] = first
    BY <1>1 DEF InitialFile
  <2> QED
    BY <2>1, <2>2
<1>2. CASE ~ \E p \in Installed : x \in PathsOf[p] \union PycOf[p]
  BY <1>2 DEF InitialFile
<1> QED
  BY <1>1, <1>2

LEMMA InitialRun == Init => RunInv
<1> SUFFICES ASSUME Init PROVE RunInv
  OBVIOUS
<1>1. /\ phase = "start" /\ outcome = "none" /\ verdict = "none" /\ failed = {}
      /\ op = NoOp /\ op.kind = "none" /\ records = Installed /\ file = InitialFile
      /\ entry.unlinked = {} /\ entry.linked = {}
      /\ \A p \in Packages : pyc[p] = {}
  BY DEF Init, NoOp
<1>2. FilesInv
  BY <1>1, InitialFileListed
  DEF FilesInv, NoneIsNoOp, FilesListed, PlainFilesRecorded, UnlinkErases
<1>3. EndingInv
  BY <1>1 DEF EndingInv
<1>4. GoingFiles
  BY <1>1, InitialFileListed DEF GoingFiles
<1>5. GoingHistory
  BY <1>1 DEF GoingHistory
<1>6. GoingPlan
  BY <1>1 DEF GoingPlan, Kept
<1> QED
  BY <1>2, <1>3, <1>4, <1>5, <1>6, InitialInvariant DEF RunInv

LEMMA RunInvariant == Spec => []RunInv
<1>1. RunInv /\ [Next]_vars => RunInv'
  BY StepInvariant, FilesStep, EndingStep, GoingFilesStep, GoingHistoryStep,
     GoingPlanStep DEF RunInv, FilesInv
<1> QED
  BY <1>1, InitialRun, PTL DEF Spec

LEMMA InitialRestorable == Init => Restorable
<1>1. Elements(<<>>) = {}
  BY DEF Elements
<1> QED
  BY <1>1 DEF Init, Restorable

LEMMA RestorableInvariant ==
  ASSUME NothingRelinked
  PROVE  Spec => []Restorable
<1>1. RunInv /\ Restorable /\ [Next]_vars => Restorable'
  BY RestorableStep, NothingRelinked DEF RunInv
<1> QED
  BY <1>1, InitialRestorable, RunInvariant, PTL DEF Spec

\* A package that is recorded has all its files once nothing is being done.
LEMMA RestIsWhole ==
  ASSUME IInv, op = NoOp, NEW p \in records, p \notin failed
  PROVE  Whole(p)
<1>1. p # op.pkg
  BY TransactionAssumption DEF IInv, TypeOK, NoOp
<1> QED
  BY <1>1 DEF IInv, DiskInv, RecordedIsWhole

\* A transaction reported as finished has installed exactly what was planned,
\* and every installed package is whole: nothing that was interrupted, that
\* threw or that has packages left to visit gets there.
THEOREM DoneIsTarget == Spec => []DoneMeansTarget
<1>1. ASSUME RunInv, outcome = "done" PROVE records = Target /\ \A p \in records : Whole(p)
  <2>1. records = Target /\ op = NoOp /\ failed = {} /\ IInv
    BY <1>1 DEF RunInv, GoingPlan, EndingInv
  <2> QED
    BY <2>1, RestIsWhole
<1>2. RunInv => DoneMeansTarget
  BY <1>1 DEF DoneMeansTarget
<1> QED
  BY <1>2, RunInvariant, PTL

\* A finished transaction leaves no file of a package that is not installed,
\* compiled ones included: what a package is compiled to is erased with it, and
\* nothing is still compiled for a package that was unlinked.
THEOREM NothingOrphaned == Spec => []NoOrphanFiles
<1>1. RunInv => NoOrphanFiles
  BY DEF RunInv, NoOrphanFiles, GoingFiles, Going, EndingInv, NoOp
<1> QED
  BY <1>1, RunInvariant, PTL

\* The history entry of a finished transaction tells what became of the prefix,
\* apart from the packages whose removal was left to pip.
THEOREM HistoryTells == Spec => []HistoryMatchesPrefix
<1>1. RunInv => HistoryMatchesPrefix
  BY DEF RunInv, HistoryMatchesPrefix, GoingHistory, Going
<1> QED
  BY <1>1, RunInvariant, PTL

\* What a rollback that came to its end has put back.
LEMMA RolledBackRecords ==
  ASSUME RunInv, Restorable, outcome \in {"cancelled", "interrupted"}
  PROVE  records = Installed /\ op = NoOp
<1>1. op = NoOp /\ Elements(linkStack) = {} /\ Elements(unlinkStack) = {}
  BY DEF RunInv, EndingInv, Elements
<1> QED
  BY <1>1 DEF RunInv, IInv, LoopInv, Restorable

\* An interrupted transaction whose rollback came to its end has put back every
\* package and every file of a package, whichever packages had been unlinked
\* and linked by then.  The hypothesis leaves out the explicit transactions that
\* link a package over itself.
THEOREM InterruptionRestores ==
  ASSUME NothingRelinked
  PROVE  Spec => []InterruptedRestores
<1>1. ASSUME RunInv, Restorable, outcome = "interrupted",
             NEW p \in Packages, NEW x \in PathsOf[p]
      PROVE  file[x] = InitialFile[x]
  <2>1. records = Installed /\ op = NoOp /\ op.pkg = NoPackage /\ failed = {} /\ IInv
    BY <1>1, RolledBackRecords DEF RunInv, EndingInv, NoOp
  <2>2. x \in Paths /\ Plain(x)
    BY TransactionAssumption DEF Plain
  <2>3. CASE \E q \in Installed : x \in PathsOf[q]
    <3>1. PICK q \in Installed : x \in PathsOf[q]
      BY <2>3
    <3>2. file[x] = q
      BY <2>1, <3>1, RestIsWhole DEF Whole
    <3> QED
      BY <3>1, <3>2, InitialFileIs
  <2>4. CASE ~ \E q \in Installed : x \in PathsOf[q]
    <3>1. file[x] \in Installed \union {NoPackage}
      BY <1>1, <2>1, <2>2 DEF RunInv, FilesInv, PlainFilesRecorded
    <3>2. file[x] \notin Installed
      BY <1>1, <2>2, <2>4, TransactionAssumption DEF RunInv, FilesInv, FilesListed, Plain
    <3>3. InitialFile[x] \notin Installed
      BY <2>2, <2>4, InitialFileListed, TransactionAssumption DEF Plain
    <3> QED
      BY <2>2, <3>1, <3>2, <3>3, InitialFileListed
  <2> QED
    BY <2>3, <2>4
<1>2. RunInv /\ Restorable => InterruptedRestores
  BY <1>1, RolledBackRecords DEF InterruptedRestores
<1>3. Spec => []Restorable
  BY RestorableInvariant, NothingRelinked
<1> QED
  BY <1>2, <1>3, RunInvariant, PTL

\* After an exception whose rollback came to its end, every package but the one
\* that threw is as before, and no other package has left a file behind,
\* compiled ones apart.
THEOREM CancellationRestores ==
  ASSUME NothingRelinked
  PROVE  Spec => []CancelledRestoresOthers
<1>1. ASSUME RunInv, Restorable, outcome = "cancelled" PROVE CancelledRestoresOthers
  <2>1. records = Installed /\ op = NoOp /\ op.pkg = NoPackage /\ IInv
    BY <1>1, RolledBackRecords DEF RunInv, NoOp
  <2>2. \A p \in Installed \ failed : Whole(p)
    BY <2>1, RestIsWhole
  <2>3. \A x \in Paths : file[x] \in records \union failed \union {NoPackage}
                         \/ \E p \in Packages : x \in PycOf[p]
    BY <1>1, <2>1 DEF RunInv, FilesInv, PlainFilesRecorded, Plain
  <2> QED
    BY <2>1, <2>2, <2>3 DEF CancelledRestoresOthers
<1>2. RunInv /\ Restorable => CancelledRestoresOthers
  BY <1>1 DEF CancelledRestoresOthers
<1>3. Spec => []Restorable
  BY RestorableInvariant, NothingRelinked
<1> QED
  BY <1>2, <1>3, RunInvariant, PTL

-----------------------------------------------------------------------------
(* Induction and recursion over an interval.                               *)

(* What holds of the first number, and passes from each to the next, holds *)
(* of all.                                                                 *)
LEMMA UpTo ==
    ASSUME NEW a \in Nat, NEW n \in Nat, NEW Good,
           a \in Good, \A k \in a..n : k < n /\ k \in Good => k + 1 \in Good
    PROVE  a..n \subseteq Good
  <1>1. SUFFICES ASSUME (a..n) \ Good # {} PROVE FALSE
    OBVIOUS
  <1>2. (a..n) \ Good \subseteq Nat
    OBVIOUS
  <1> DEFINE Bad == (a..n) \ Good
  <1>3. \E b \in Bad : \A d \in Bad : ~(<<d, b>> \in OpToRel(<, Nat))
    <2> HIDE DEF Bad
    <2>1. Bad \subseteq Nat /\ Bad # {}
      BY <1>1, <1>2 DEF Bad
    <2> QED
      BY <2>1, NatLessThanWellFounded, WFMin
  <1>4. PICK b \in Bad : \A d \in Bad : ~(<<d, b>> \in OpToRel(<, Nat))
    BY <1>3
  <1>5. b \in Nat /\ b \in a..n /\ b # a
    OBVIOUS
  <1>6. b - 1 \in a..n /\ b - 1 < b /\ b - 1 < n /\ (b - 1) + 1 = b /\ b - 1 \in Nat
    BY <1>5
  <1>7. b - 1 \in Good
    BY <1>4, <1>5, <1>6 DEF OpToRel
  <1>8. b \in Good
    BY <1>6, <1>7
  <1> QED
    BY <1>8

(* A step from each number to the next determines the values up to any.    *)
Runs(S, a, n, first, step) ==
    {run \in [a..n -> S] :
        run = [k \in a..n |-> IF k = a THEN first ELSE step[<<run[k - 1], k>>]]}

LEMMA RunExists ==
    ASSUME NEW S, NEW a \in Nat, NEW n \in Nat, a <= n,
           NEW first \in S, NEW step \in [S \X Nat -> S]
    PROVE  Runs(S, a, n, first, step) # {}
  <1> DEFINE Good == {m \in Nat : a <= m /\ Runs(S, a, m, first, step) # {}}
  <1>1. a \in Good
    <2>1. [k \in a..a |-> first] \in Runs(S, a, a, first, step)
      BY DEF Runs
    <2> QED
      BY <2>1
  <1>2. ASSUME NEW m \in a..n, m < n, m \in Good PROVE m + 1 \in Good
    <2>1. PICK run \in [a..m -> S] :
            run = [k \in a..m |-> IF k = a THEN first ELSE step[<<run[k - 1], k>>]]
      BY <1>2 DEF Runs
    <2> DEFINE last == step[<<run[m], m + 1>>]
               next == [k \in a..(m + 1) |-> IF k = m + 1 THEN last ELSE run[k]]
    <2>2. last \in S
      BY <2>1
    <2>3. next \in [a..(m + 1) -> S]
      BY <2>1, <2>2
    <2>4. ASSUME NEW k \in a..(m + 1)
          PROVE  next[k] = IF k = a THEN first ELSE step[<<next[k - 1], k>>]
      <3>1. CASE k = m + 1
        BY <3>1, <1>2
      <3>2. CASE k # m + 1
        <4>1. k \in a..m /\ (k # a => k - 1 \in a..m /\ k - 1 # m + 1)
          BY <3>2
        <4>2. next[k] = run[k] /\ (k # a => next[k - 1] = run[k - 1])
          BY <4>1, <3>2
        <4>3. run[k] = IF k = a THEN first ELSE step[<<run[k - 1], k>>]
          BY <2>1, <4>1
        <4> QED
          BY <4>2, <4>3
      <3> QED
        BY <3>1, <3>2
    <2> HIDE DEF next
    <2>5. next = [k \in a..(m + 1) |-> IF k = a THEN first ELSE step[<<next[k - 1], k>>]]
      BY <2>3, <2>4
    <2>6. next \in Runs(S, a, m + 1, first, step)
      BY <2>3, <2>5 DEF Runs
    <2> QED
      BY <2>6, <1>2
  <1> HIDE DEF Good
  <1>3. a..n \subseteq Good
    BY <1>1, <1>2, UpTo
  <1> QED
    BY <1>3 DEF Good

(* Two such series agree when the first values do.                         *)
LEMMA RunsAgree ==
    ASSUME NEW a \in Nat, NEW n \in Nat, NEW f, NEW g, a <= n, f[a] = g[a],
           \A k \in a..n : k # a /\ f[k - 1] = g[k - 1] => f[k] = g[k]
    PROVE  f[n] = g[n]
  <1> DEFINE Good == {k \in Nat : f[k] = g[k]}
  <1>1. a \in Good
    OBVIOUS
  <1>2. ASSUME NEW k \in a..n, k < n, k \in Good PROVE k + 1 \in Good
    <2>1. k + 1 \in a..n /\ k + 1 # a /\ (k + 1) - 1 = k /\ k \in Nat /\ k + 1 \in Nat
      BY <1>2
    <2> QED
      BY <2>1, <1>2
  <1> HIDE DEF Good
  <1>3. a..n \subseteq Good
    BY <1>1, <1>2, UpTo
  <1>4. n \in a..n
    OBVIOUS
  <1> QED
    BY <1>3, <1>4 DEF Good

-----------------------------------------------------------------------------
(* Reading the file.                                                       *)

RevisionsRun(list, run) ==
    run = [k \in 0..Len(list) |->
              IF k = 0 THEN <<>>
              ELSE IF IsRevision(list[k]) THEN Append(run[k - 1], list[k]) ELSE run[k - 1]]
SpecsRun(list, run) ==
    run = [k \in 0..Len(list) |-> IF k = 0 THEN {} ELSE Read(run[k - 1], list[k])]

LEMMA RevisionsRunExists ==
    ASSUME NEW list \in Seq(Entry)
    PROVE  \E run \in [0..Len(list) -> Seq(Entry)] : RevisionsRun(list, run)
  <1> DEFINE step == [x \in Seq(Entry) \X Nat |->
                         IF x[2] \in 1..Len(list) /\ IsRevision(list[x[2]])
                         THEN Append(x[1], list[x[2]]) ELSE x[1]]
  <1>1. step \in [Seq(Entry) \X Nat -> Seq(Entry)]
    <2>1. ASSUME NEW x \in Seq(Entry) \X Nat PROVE step[x] \in Seq(Entry)
      <3>1. x[1] \in Seq(Entry)
        OBVIOUS
      <3>2. ASSUME x[2] \in 1..Len(list) PROVE Append(x[1], list[x[2]]) \in Seq(Entry)
        BY <3>1, <3>2, ElementOfSeq, AppendProperties
      <3> QED
        BY <3>1, <3>2
    <2> QED
      BY <2>1
  <1>2. Len(list) \in Nat /\ 0 \in Nat /\ 0 <= Len(list) /\ <<>> \in Seq(Entry)
    BY LenProperties, EmptySeq
  <1> HIDE DEF step
  <1>3. Runs(Seq(Entry), 0, Len(list), <<>>, step) # {}
    BY <1>1, <1>2, RunExists
  <1>4. PICK run : run \in Runs(Seq(Entry), 0, Len(list), <<>>, step)
    BY <1>3
  <1>5. /\ run \in [0..Len(list) -> Seq(Entry)]
        /\ run = [k \in 0..Len(list) |-> IF k = 0 THEN <<>> ELSE step[<<run[k - 1], k>>]]
    BY <1>4 DEF Runs
  <1>6. ASSUME NEW k \in 0..Len(list), k # 0
        PROVE  step[<<run[k - 1], k>>]
                   = IF IsRevision(list[k]) THEN Append(run[k - 1], list[k]) ELSE run[k - 1]
    <2>1. k \in 1..Len(list) /\ k \in Nat /\ k - 1 \in 0..Len(list)
      BY <1>2, <1>6
    <2>2. run[k - 1] \in Seq(Entry)
      BY <1>5, <2>1
    <2> QED
      BY <2>1, <2>2 DEF step
  <1>7. RevisionsRun(list, run)
    BY <1>5, <1>6 DEF RevisionsRun
  <1> QED
    BY <1>5, <1>7

LEMMA RevisionsRead ==
    ASSUME NEW list \in Seq(Entry), NEW run, RevisionsRun(list, run)
    PROVE  RevisionsIn(list) = run[Len(list)]
  <1> DEFINE chosen == CHOOSE f : RevisionsRun(list, f)
  <1>1. RevisionsIn(list) = chosen[Len(list)]
    BY DEF RevisionsIn, RevisionsRun
  <1>2. RevisionsRun(list, chosen)
    OBVIOUS
  <1> HIDE DEF chosen
  <1>3. Len(list) \in Nat /\ 0 \in Nat /\ 0 <= Len(list)
    BY LenProperties
  <1>4. chosen[0] = run[0]
    BY <1>2, <1>3 DEF RevisionsRun
  <1>5. ASSUME NEW k \in 0..Len(list), k # 0, chosen[k - 1] = run[k - 1]
        PROVE  chosen[k] = run[k]
    <2>1. chosen[k] = IF IsRevision(list[k]) THEN Append(chosen[k - 1], list[k]) ELSE chosen[k - 1]
      BY <1>2, <1>5 DEF RevisionsRun
    <2>2. run[k] = IF IsRevision(list[k]) THEN Append(run[k - 1], list[k]) ELSE run[k - 1]
      BY <1>5 DEF RevisionsRun
    <2> QED
      BY <2>1, <2>2, <1>5
  <1>6. chosen[Len(list)] = run[Len(list)]
    BY <1>3, <1>4, <1>5, RunsAgree
  <1> QED
    BY <1>1, <1>6

(* A new entry is a new revision if it changed packages.                   *)
LEMMA RevisionsAppend ==
    ASSUME NEW list \in Seq(Entry), NEW e \in Entry
    PROVE  /\ RevisionsIn(list) \in Seq(Entry)
           /\ RevisionsIn(Append(list, e))
                  = IF IsRevision(e) THEN Append(RevisionsIn(list), e) ELSE RevisionsIn(list)
  <1> DEFINE longer == Append(list, e)
  <1>1. /\ longer \in Seq(Entry) /\ Len(longer) = Len(list) + 1 /\ Len(list) \in Nat
        /\ longer[Len(list) + 1] = e /\ \A k \in 1..Len(list) : longer[k] = list[k]
    BY AppendProperties, LenProperties
  <1> HIDE DEF longer
  <1>2. PICK run : run \in [0..Len(list) -> Seq(Entry)] /\ RevisionsRun(list, run)
    BY RevisionsRunExists
  <1>3. PICK more : more \in [0..Len(longer) -> Seq(Entry)] /\ RevisionsRun(longer, more)
    BY <1>1, RevisionsRunExists
  <1>4. run[Len(list)] = more[Len(list)]
    <2>1. 0 \in Nat /\ 0 <= Len(list) /\ run[0] = more[0]
      BY <1>1, <1>2, <1>3 DEF RevisionsRun
    <2>2. ASSUME NEW k \in 0..Len(list), k # 0, run[k - 1] = more[k - 1] PROVE run[k] = more[k]
      <3>1. longer[k] = list[k] /\ k \in 0..Len(longer)
        BY <1>1, <2>2
      <3>2. run[k] = IF IsRevision(list[k]) THEN Append(run[k - 1], list[k]) ELSE run[k - 1]
        BY <1>2, <2>2 DEF RevisionsRun
      <3>3. more[k] = IF IsRevision(longer[k]) THEN Append(more[k - 1], longer[k]) ELSE more[k - 1]
        BY <1>3, <2>2, <3>1 DEF RevisionsRun
      <3> QED
        BY <2>2, <3>1, <3>2, <3>3
    <2>3. Len(list) \in Nat
      BY <1>1
    <2> QED
      BY <2>1, <2>2, <2>3, RunsAgree
  <1>5. more[Len(list) + 1] = IF IsRevision(e) THEN Append(more[Len(list)], e) ELSE more[Len(list)]
    <2>1. Len(list) + 1 \in 0..Len(longer) /\ Len(list) + 1 # 0 /\ (Len(list) + 1) - 1 = Len(list)
      BY <1>1
    <2> QED
      BY <1>1, <1>3, <2>1 DEF RevisionsRun
  <1>6. RevisionsIn(list) = run[Len(list)] /\ RevisionsIn(longer) = more[Len(list) + 1]
    BY <1>1, <1>2, <1>3, RevisionsRead
  <1>7. RevisionsIn(list) \in Seq(Entry)
    BY <1>1, <1>2, <1>6
  <1> QED
    BY <1>4, <1>5, <1>6, <1>7 DEF longer

(* The specs are those that the last entry leaves, and its own.            *)
LEMMA SpecsRunExists ==
    ASSUME NEW list \in Seq(Entry)
    PROVE  \E run \in [0..Len(list) -> SUBSET MatchSpec] : SpecsRun(list, run)
  <1> DEFINE step == [x \in (SUBSET MatchSpec) \X Nat |->
                         IF x[2] \in 1..Len(list) THEN Read(x[1], list[x[2]]) ELSE x[1]]
  <1>1. step \in [(SUBSET MatchSpec) \X Nat -> SUBSET MatchSpec]
    <2>1. ASSUME NEW x \in (SUBSET MatchSpec) \X Nat PROVE step[x] \in SUBSET MatchSpec
      <3>1. x[1] \in SUBSET MatchSpec
        OBVIOUS
      <3>2. ASSUME x[2] \in 1..Len(list) PROVE Read(x[1], list[x[2]]) \in SUBSET MatchSpec
        <4>1. list[x[2]] \in Entry
          BY <3>2, ElementOfSeq
        <4> QED
          BY <3>1, <4>1 DEF Read, Entry
      <3> QED
        BY <3>1, <3>2
    <2> QED
      BY <2>1
  <1>2. Len(list) \in Nat /\ 0 \in Nat /\ 0 <= Len(list) /\ {} \in SUBSET MatchSpec
    BY LenProperties
  <1> HIDE DEF step
  <1>3. Runs(SUBSET MatchSpec, 0, Len(list), {}, step) # {}
    BY <1>1, <1>2, RunExists
  <1>4. PICK run : run \in Runs(SUBSET MatchSpec, 0, Len(list), {}, step)
    BY <1>3
  <1>5. /\ run \in [0..Len(list) -> SUBSET MatchSpec]
        /\ run = [k \in 0..Len(list) |-> IF k = 0 THEN {} ELSE step[<<run[k - 1], k>>]]
    BY <1>4 DEF Runs
  <1>6. ASSUME NEW k \in 0..Len(list), k # 0
        PROVE  step[<<run[k - 1], k>>] = Read(run[k - 1], list[k])
    <2>1. k \in 1..Len(list) /\ k \in Nat /\ k - 1 \in 0..Len(list)
      BY <1>2, <1>6
    <2>2. run[k - 1] \in SUBSET MatchSpec
      BY <1>5, <2>1
    <2> QED
      BY <2>1, <2>2 DEF step
  <1>7. SpecsRun(list, run)
    BY <1>5, <1>6 DEF SpecsRun
  <1> QED
    BY <1>5, <1>7

LEMMA SpecsRead ==
    ASSUME NEW list \in Seq(Entry), NEW run, SpecsRun(list, run)
    PROVE  SpecsIn(list) = run[Len(list)]
  <1> DEFINE chosen == CHOOSE f : SpecsRun(list, f)
  <1>1. SpecsIn(list) = chosen[Len(list)]
    BY DEF SpecsIn, SpecsRun
  <1>2. SpecsRun(list, chosen)
    OBVIOUS
  <1> HIDE DEF chosen
  <1>3. Len(list) \in Nat /\ 0 \in Nat /\ 0 <= Len(list)
    BY LenProperties
  <1>4. chosen[0] = run[0]
    BY <1>2, <1>3 DEF SpecsRun
  <1>5. ASSUME NEW k \in 0..Len(list), k # 0, chosen[k - 1] = run[k - 1]
        PROVE  chosen[k] = run[k]
    BY <1>2, <1>5 DEF SpecsRun
  <1>6. chosen[Len(list)] = run[Len(list)]
    BY <1>3, <1>4, <1>5, RunsAgree
  <1> QED
    BY <1>1, <1>6

LEMMA SpecsAppend ==
    ASSUME NEW list \in Seq(Entry), NEW e \in Entry
    PROVE  /\ SpecsIn(list) \in SUBSET MatchSpec
           /\ SpecsIn(Append(list, e)) = Read(SpecsIn(list), e)
  <1> DEFINE longer == Append(list, e)
  <1>1. /\ longer \in Seq(Entry) /\ Len(longer) = Len(list) + 1 /\ Len(list) \in Nat
        /\ longer[Len(list) + 1] = e /\ \A k \in 1..Len(list) : longer[k] = list[k]
    BY AppendProperties, LenProperties
  <1> HIDE DEF longer
  <1>2. PICK run : run \in [0..Len(list) -> SUBSET MatchSpec] /\ SpecsRun(list, run)
    BY SpecsRunExists
  <1>3. PICK more : more \in [0..Len(longer) -> SUBSET MatchSpec] /\ SpecsRun(longer, more)
    BY <1>1, SpecsRunExists
  <1>4. run[Len(list)] = more[Len(list)]
    <2>1. 0 \in Nat /\ 0 <= Len(list) /\ run[0] = more[0]
      BY <1>1, <1>2, <1>3 DEF SpecsRun
    <2>2. ASSUME NEW k \in 0..Len(list), k # 0, run[k - 1] = more[k - 1] PROVE run[k] = more[k]
      <3>1. longer[k] = list[k] /\ k \in 0..Len(longer)
        BY <1>1, <2>2
      <3> QED
        BY <1>2, <1>3, <2>2, <3>1 DEF SpecsRun
    <2>3. Len(list) \in Nat
      BY <1>1
    <2> QED
      BY <2>1, <2>2, <2>3, RunsAgree
  <1>5. more[Len(list) + 1] = Read(more[Len(list)], e)
    <2>1. Len(list) + 1 \in 0..Len(longer) /\ Len(list) + 1 # 0 /\ (Len(list) + 1) - 1 = Len(list)
      BY <1>1
    <2> QED
      BY <1>1, <1>3, <2>1 DEF SpecsRun
  <1>6. SpecsIn(list) = run[Len(list)] /\ SpecsIn(longer) = more[Len(list) + 1]
    BY <1>1, <1>2, <1>3, SpecsRead
  <1>7. SpecsIn(list) \in SUBSET MatchSpec
    BY <1>1, <1>2, <1>6
  <1> QED
    BY <1>4, <1>5, <1>6, <1>7 DEF longer

-----------------------------------------------------------------------------
(* Following one name through the revisions above the target.              *)

(* What the prefix holds of a name, what an entry tells of it, and the     *)
(* difference being computed over n revisions.                             *)
Slot == Package \cup {Nothing}
Change == [removed : Slot, installed : Slot]
Diff(n) == [rest : [1..n -> Change], removed : Slot, installed : Slot,
            lastly : BOOLEAN, found : BOOLEAN]

(* What becomes of the entries and of the difference when an installation  *)
(* or a removal is looked for.                                             *)
InstallTaken(d, e, i, n) ==
    /\ e \in Diff(n) /\ (e.lastly <=> d.lastly)
    /\ \A j \in 1..n : e.rest[j].removed = d.rest[j].removed
    /\ \A j \in 1..n : e.rest[j].installed = IF j = i THEN Nothing ELSE d.rest[j].installed
    /\ (e.found <=> d.rest[i].installed # Nothing)
    /\ IF d.rest[i].installed = Nothing THEN e.removed = d.removed /\ e.installed = d.installed
       ELSE IF SameVersion(d.removed, d.rest[i].installed)
       THEN e.removed = Nothing /\ e.installed = d.installed
       ELSE e.removed = d.removed /\ e.installed = d.rest[i].installed
RemoveTaken(d, e, i, n) ==
    /\ e \in Diff(n) /\ (e.lastly <=> d.lastly)
    /\ \A j \in 1..n : e.rest[j].installed = d.rest[j].installed
    /\ \A j \in 1..n : e.rest[j].removed = IF j = i THEN Nothing ELSE d.rest[j].removed
    /\ (e.found <=> d.rest[i].removed # Nothing)
    /\ IF d.rest[i].removed = Nothing THEN e.removed = d.removed /\ e.installed = d.installed
       ELSE IF SameVersion(d.installed, d.rest[i].removed)
       THEN e.installed = Nothing /\ e.removed = d.removed
       ELSE e.installed = d.installed /\ e.removed = d.rest[i].removed

LEMMA InstallHandled ==
    ASSUME NEW n \in Nat, NEW d \in Diff(n), NEW i \in 1..n
    PROVE  InstallTaken(d, HandleInstall(d, i), i, n)
  <1> DEFINE p == d.rest[i].installed
  <1>1. p \in Slot /\ d.rest[i] \in Change /\ d.rest \in [1..n -> Change] /\ Nothing \in Slot
    BY DEF Diff, Change, Slot
  <1>2. CASE p = Nothing
    <2>1. HandleInstall(d, i) = [d EXCEPT !.found = FALSE]
      BY <1>2 DEF HandleInstall
    <2> QED
      BY <2>1, <1>2 DEF InstallTaken, Diff
  <1>3. CASE p # Nothing /\ SameVersion(d.removed, p)
    <2> DEFINE e == [d EXCEPT !.found = TRUE, !.rest[i].installed = Nothing, !.removed = Nothing]
    <2>1. HandleInstall(d, i) = e
      BY <1>3 DEF HandleInstall
    <2>2. /\ e.rest = [d.rest EXCEPT ![i].installed = Nothing] /\ e.found = TRUE
          /\ e.removed = Nothing /\ e.installed = d.installed /\ e.lastly = d.lastly
      BY DEF Diff
    <2>3. e.rest \in [1..n -> Change]
      BY <2>2, <1>1 DEF Change
    <2>4. e \in Diff(n)
      BY <2>3, <1>1 DEF Diff
    <2> HIDE DEF e
    <2> QED
      BY <2>1, <2>2, <2>4, <1>1, <1>3 DEF InstallTaken, Change
  <1>4. CASE p # Nothing /\ ~SameVersion(d.removed, p)
    <2> DEFINE e == [d EXCEPT !.found = TRUE, !.rest[i].installed = Nothing, !.installed = p]
    <2>1. HandleInstall(d, i) = e
      BY <1>4 DEF HandleInstall
    <2>2. /\ e.rest = [d.rest EXCEPT ![i].installed = Nothing] /\ e.found = TRUE
          /\ e.removed = d.removed /\ e.installed = p /\ e.lastly = d.lastly
      BY DEF Diff
    <2>3. e.rest \in [1..n -> Change]
      BY <2>2, <1>1 DEF Change
    <2>4. e \in Diff(n)
      BY <2>3, <1>1 DEF Diff
    <2> HIDE DEF e
    <2> QED
      BY <2>1, <2>2, <2>4, <1>1, <1>4 DEF InstallTaken, Change
  <1> QED
    BY <1>2, <1>3, <1>4

LEMMA RemoveHandled ==
    ASSUME NEW n \in Nat, NEW d \in Diff(n), NEW i \in 1..n
    PROVE  RemoveTaken(d, HandleRemove(d, i), i, n)
  <1> DEFINE p == d.rest[i].removed
  <1>1. p \in Slot /\ d.rest[i] \in Change /\ d.rest \in [1..n -> Change] /\ Nothing \in Slot
    BY DEF Diff, Change, Slot
  <1>2. CASE p = Nothing
    <2>1. HandleRemove(d, i) = [d EXCEPT !.found = FALSE]
      BY <1>2 DEF HandleRemove
    <2> QED
      BY <2>1, <1>2 DEF RemoveTaken, Diff
  <1>3. CASE p # Nothing /\ SameVersion(d.installed, p)
    <2> DEFINE e == [d EXCEPT !.found = TRUE, !.rest[i].removed = Nothing, !.installed = Nothing]
    <2>1. HandleRemove(d, i) = e
      BY <1>3 DEF HandleRemove
    <2>2. /\ e.rest = [d.rest EXCEPT ![i].removed = Nothing] /\ e.found = TRUE
          /\ e.installed = Nothing /\ e.removed = d.removed /\ e.lastly = d.lastly
      BY DEF Diff
    <2>3. e.rest \in [1..n -> Change]
      BY <2>2, <1>1 DEF Change
    <2>4. e \in Diff(n)
      BY <2>3, <1>1 DEF Diff
    <2> HIDE DEF e
    <2> QED
      BY <2>1, <2>2, <2>4, <1>1, <1>3 DEF RemoveTaken, Change
  <1>4. CASE p # Nothing /\ ~SameVersion(d.installed, p)
    <2> DEFINE e == [d EXCEPT !.found = TRUE, !.rest[i].removed = Nothing, !.removed = p]
    <2>1. HandleRemove(d, i) = e
      BY <1>4 DEF HandleRemove
    <2>2. /\ e.rest = [d.rest EXCEPT ![i].removed = Nothing] /\ e.found = TRUE
          /\ e.installed = d.installed /\ e.removed = p /\ e.lastly = d.lastly
      BY DEF Diff
    <2>3. e.rest \in [1..n -> Change]
      BY <2>2, <1>1 DEF Change
    <2>4. e \in Diff(n)
      BY <2>3, <1>1 DEF Diff
    <2> HIDE DEF e
    <2> QED
      BY <2>1, <2>2, <2>4, <1>1, <1>4 DEF RemoveTaken, Change
  <1> QED
    BY <1>2, <1>3, <1>4

(* c[0] is what the target had of the name, c[j] what it was after j more  *)
(* revisions.                                                              *)
Course(n) == [0..n -> Slot]
Seen(n, c) == {c[k] : k \in 0..n} \cup {Nothing}
RemovedAt(c, j) == IF c[j - 1] = c[j] THEN Nothing ELSE c[j - 1]
InstalledAt(c, j) == IF c[j - 1] = c[j] THEN Nothing ELSE c[j]

(* The entries left to consume: removals after a, installations after b.   *)
Left(d, n, c, a, b) ==
    /\ \A j \in 1..n : d.rest[j].removed = IF j <= a THEN Nothing ELSE RemovedAt(c, j)
    /\ \A j \in 1..n : d.rest[j].installed = IF j <= b THEN Nothing ELSE InstalledAt(c, j)

(* The difference between first and a prefix without the name, and between *)
(* first and a prefix that has x of the name.                              *)
Gone(d, first) ==
    /\ d.installed = Nothing
    /\ IF first = Nothing THEN d.removed = Nothing ELSE SameVersion(d.removed, first)
Back(d, first, x) ==
    \/ d.removed = Nothing /\ d.installed = Nothing /\ SameVersion(first, x)
    \/ /\ d.installed = x
       /\ IF first = Nothing THEN d.removed = Nothing
          ELSE SameVersion(d.removed, first) /\ ~SameVersion(d.removed, x)
Balanced(d, first, x) == IF x = Nothing THEN Gone(d, first) ELSE Back(d, first, x)

Known(d, n, c) == d.removed \in Seen(n, c) /\ d.installed \in Seen(n, c)
(* Consumed are m entries; or of the last of them only the removal.        *)
Settled(d, n, c, m) ==
    d \in Diff(n) /\ Left(d, n, c, m, m) /\ Balanced(d, c[0], c[m]) /\ Known(d, n, c)
Torn(d, n, c, m) ==
    d \in Diff(n) /\ Left(d, n, c, m, m - 1) /\ Gone(d, c[0]) /\ Known(d, n, c)
(* The last operation was a removal if the name is gone.                   *)
Turned(d, n, c, m) == Settled(d, n, c, m) /\ (d.lastly <=> c[m] = Nothing)

(* After a removal, an installation is looked for.                         *)
LEMMA InstallStep ==
    ASSUME NEW n \in Nat, NEW c \in Course(n), NEW d, NEW j \in 1..n,
           Torn(d, n, c, j), c[j - 1] # c[j] \/ c[j] = Nothing
    PROVE  Turned(InstallEndsRemoval(d, j), n, c, j)
  <1> DEFINE h == HandleInstall(d, j)
             e == [h EXCEPT !.lastly = ~h.found]
             p == d.rest[j].installed
  <1>1. d \in Diff(n) /\ Left(d, n, c, j, j - 1) /\ Gone(d, c[0]) /\ Known(d, n, c)
    BY DEF Torn
  <1>2. InstallTaken(d, h, j, n)
    BY <1>1, InstallHandled
  <1> HIDE DEF h
  <1>3. h \in Diff(n)
    BY <1>2 DEF InstallTaken
  <1>4. /\ e \in Diff(n) /\ e.rest = h.rest /\ e.removed = h.removed /\ e.installed = h.installed
        /\ (e.lastly <=> ~h.found)
    BY <1>3 DEF Diff
  <1>5. InstallEndsRemoval(d, j) = e
    BY DEF InstallEndsRemoval, h
  <1> HIDE DEF e
  <1>6. p = c[j]
    BY <1>1 DEF Left, InstalledAt
  <1>7. Left(e, n, c, j, j)
    <2>1. ASSUME NEW k \in 1..n
          PROVE  /\ e.rest[k].removed = IF k <= j THEN Nothing ELSE RemovedAt(c, k)
                 /\ e.rest[k].installed = IF k <= j THEN Nothing ELSE InstalledAt(c, k)
      <3>1. /\ e.rest[k].removed = d.rest[k].removed
            /\ e.rest[k].installed = IF k = j THEN Nothing ELSE d.rest[k].installed
        BY <1>2, <1>4 DEF InstallTaken
      <3>2. k # j => (k <= j <=> k <= j - 1)
        OBVIOUS
      <3>3. /\ d.rest[k].removed = IF k <= j THEN Nothing ELSE RemovedAt(c, k)
            /\ d.rest[k].installed = IF k <= j - 1 THEN Nothing ELSE InstalledAt(c, k)
        BY <1>1 DEF Left
      <3> QED
        BY <3>1, <3>2, <3>3
    <2> QED
      BY <2>1 DEF Left
  <1>8. (e.lastly <=> c[j] = Nothing)
    BY <1>2, <1>4, <1>6 DEF InstallTaken
  <1>9. Known(e, n, c)
    <2>1. c[j] \in Seen(n, c) /\ Nothing \in Seen(n, c)
      BY DEF Seen
    <2> QED
      BY <1>1, <1>2, <1>4, <1>6, <2>1 DEF Known, InstallTaken
  <1>10. Balanced(e, c[0], c[j])
    BY <1>1, <1>2, <1>4, <1>6 DEF Balanced, Gone, Back, InstallTaken, SameVersion
  <1> QED
    BY <1>4, <1>5, <1>7, <1>8, <1>9, <1>10 DEF Turned, Settled

(* The name is there: it goes, or is replaced, or nothing happens to it.   *)
LEMMA RemoveStep ==
    ASSUME NEW n \in Nat, NEW c \in Course(n), NEW d, NEW j \in 1..n,
           Settled(d, n, c, j - 1), c[j - 1] # Nothing
    PROVE  Turned(RemoveAndInstall(d, j), n, c, j)
  <1> DEFINE h == HandleRemove(d, j)
             e == [h EXCEPT !.lastly = FALSE]
             p == d.rest[j].removed
  <1>1. d \in Diff(n) /\ Left(d, n, c, j - 1, j - 1) /\ Back(d, c[0], c[j - 1]) /\ Known(d, n, c)
    BY DEF Settled, Balanced
  <1>2. RemoveTaken(d, h, j, n)
    BY <1>1, RemoveHandled
  <1>3. RemoveAndInstall(d, j) = IF h.found THEN InstallEndsRemoval(h, j) ELSE e
    BY DEF RemoveAndInstall
  <1> HIDE DEF h
  <1>4. p = RemovedAt(c, j)
    BY <1>1 DEF Left
  <1>5. Left(h, n, c, j, j - 1)
    <2>1. ASSUME NEW k \in 1..n
          PROVE  /\ h.rest[k].removed = IF k <= j THEN Nothing ELSE RemovedAt(c, k)
                 /\ h.rest[k].installed = IF k <= j - 1 THEN Nothing ELSE InstalledAt(c, k)
      <3>1. /\ h.rest[k].installed = d.rest[k].installed
            /\ h.rest[k].removed = IF k = j THEN Nothing ELSE d.rest[k].removed
        BY <1>2 DEF RemoveTaken
      <3>2. k # j => (k <= j <=> k <= j - 1)
        OBVIOUS
      <3>3. /\ d.rest[k].removed = IF k <= j - 1 THEN Nothing ELSE RemovedAt(c, k)
            /\ d.rest[k].installed = IF k <= j - 1 THEN Nothing ELSE InstalledAt(c, k)
        BY <1>1 DEF Left
      <3> QED
        BY <3>1, <3>2, <3>3
    <2> QED
      BY <2>1 DEF Left
  <1>6. CASE c[j - 1] = c[j]
    <2>1. p = Nothing
      BY <1>4, <1>6 DEF RemovedAt
    <2>2. ~h.found /\ h.removed = d.removed /\ h.installed = d.installed /\ h \in Diff(n)
      BY <1>2, <2>1 DEF RemoveTaken
    <2>3. /\ e \in Diff(n) /\ e.rest = h.rest /\ e.removed = h.removed
          /\ e.installed = h.installed /\ e.lastly = FALSE
      BY <2>2 DEF Diff
    <2> HIDE DEF e
    <2>4. Left(e, n, c, j, j)
      <3>1. ASSUME NEW k \in 1..n
            PROVE  /\ e.rest[k].removed = IF k <= j THEN Nothing ELSE RemovedAt(c, k)
                   /\ e.rest[k].installed = IF k <= j THEN Nothing ELSE InstalledAt(c, k)
        <4>1. /\ e.rest[k].removed = IF k <= j THEN Nothing ELSE RemovedAt(c, k)
              /\ e.rest[k].installed = IF k <= j - 1 THEN Nothing ELSE InstalledAt(c, k)
          BY <1>5, <2>3 DEF Left
        <4>2. k # j => (k <= j <=> k <= j - 1)
          OBVIOUS
        <4>3. InstalledAt(c, j) = Nothing
          BY <1>6 DEF InstalledAt
        <4> QED
          BY <4>1, <4>2, <4>3
      <3> QED
        BY <3>1 DEF Left
    <2>5. Balanced(e, c[0], c[j]) /\ Known(e, n, c)
      BY <1>1, <1>6, <2>2, <2>3 DEF Balanced, Back, Known
    <2> QED
      BY <1>3, <1>6, <2>2, <2>3, <2>4, <2>5 DEF Turned, Settled
  <1>7. CASE c[j - 1] # c[j]
    <2>1. p = c[j - 1] /\ p # Nothing
      BY <1>4, <1>7 DEF RemovedAt
    <2>2. h.found /\ h \in Diff(n)
      BY <1>2, <2>1 DEF RemoveTaken
    <2>3. Gone(h, c[0])
      BY <1>1, <1>2, <2>1 DEF Gone, Back, RemoveTaken, SameVersion
    <2>4. Known(h, n, c)
      <3>1. c[j - 1] \in Seen(n, c) /\ Nothing \in Seen(n, c)
        BY DEF Seen
      <3> QED
        BY <1>1, <1>2, <2>1, <3>1 DEF Known, RemoveTaken
    <2>5. Torn(h, n, c, j)
      BY <1>5, <2>2, <2>3, <2>4 DEF Torn
    <2>6. Turned(InstallEndsRemoval(h, j), n, c, j)
      BY <1>7, <2>5, InstallStep
    <2> QED
      BY <1>3, <2>2, <2>6
  <1> QED
    BY <1>6, <1>7

(* The name is gone: it comes back, or nothing happens to it.              *)
LEMMA ComeBackStep ==
    ASSUME NEW n \in Nat, NEW c \in Course(n), NEW d, NEW j \in 1..n,
           Settled(d, n, c, j - 1), c[j - 1] = Nothing
    PROVE  Turned(InstallEndsRemoval(d, j), n, c, j)
  <1>1. d \in Diff(n) /\ Left(d, n, c, j - 1, j - 1) /\ Gone(d, c[0]) /\ Known(d, n, c)
    BY DEF Settled, Balanced
  <1>2. RemovedAt(c, j) = Nothing
    BY DEF RemovedAt
  <1>3. Left(d, n, c, j, j - 1)
    <2>1. ASSUME NEW k \in 1..n
          PROVE  d.rest[k].removed = IF k <= j THEN Nothing ELSE RemovedAt(c, k)
      <3>1. d.rest[k].removed = IF k <= j - 1 THEN Nothing ELSE RemovedAt(c, k)
        BY <1>1 DEF Left
      <3>2. k # j => (k <= j <=> k <= j - 1)
        OBVIOUS
      <3> QED
        BY <1>2, <3>1, <3>2
    <2> QED
      BY <1>1, <2>1 DEF Left
  <1>4. Torn(d, n, c, j)
    BY <1>1, <1>3 DEF Torn
  <1> QED
    BY <1>4, InstallStep

LEMMA StepsStayTyped ==
    ASSUME NEW n \in Nat, NEW d \in Diff(n), NEW j \in 1..n
    PROVE  /\ InstallEndsRemoval(d, j) \in Diff(n) /\ RemoveAndInstall(d, j) \in Diff(n)
           /\ Len(d.rest) = n
  <1>1. ASSUME NEW e \in Diff(n), NEW b \in BOOLEAN PROVE [e EXCEPT !.lastly = b] \in Diff(n)
    BY DEF Diff
  <1>2. ASSUME NEW e \in Diff(n) PROVE HandleInstall(e, j) \in Diff(n) /\ HandleRemove(e, j) \in Diff(n)
    BY InstallHandled, RemoveHandled DEF InstallTaken, RemoveTaken
  <1>3. ASSUME NEW e \in Diff(n) PROVE InstallEndsRemoval(e, j) \in Diff(n)
    <2>1. HandleInstall(e, j) \in Diff(n)
      BY <1>2
    <2>2. (~HandleInstall(e, j).found) \in BOOLEAN
      OBVIOUS
    <2> QED
      BY <1>1, <2>1, <2>2 DEF InstallEndsRemoval
  <1>4. RemoveAndInstall(d, j) \in Diff(n)
    <2>1. HandleRemove(d, j) \in Diff(n) /\ FALSE \in BOOLEAN
      BY <1>2
    <2> QED
      BY <1>1, <1>3, <2>1 DEF RemoveAndInstall
  <1>5. d.rest \in [1..n -> Change]
    BY DEF Diff
  <1>6. Len(d.rest) = n
    BY <1>5
  <1> QED
    BY <1>3, <1>4, <1>6

RemovedRun(d, i, run) ==
    run = [j \in i..Len(d.rest) |->
              IF j = i
              THEN InstallEndsRemoval([d EXCEPT !.removed = d.rest[i].removed,
                                                !.rest[i].removed = Nothing], i)
              ELSE IF run[j - 1].lastly THEN InstallEndsRemoval(run[j - 1], j)
                   ELSE RemoveAndInstall(run[j - 1], j)]
InstalledRun(d, i, run) ==
    run = [j \in i..Len(d.rest) |->
              IF j = i
              THEN [d EXCEPT !.installed = d.rest[i].installed, !.rest[i].installed = Nothing,
                             !.lastly = FALSE]
              ELSE IF run[j - 1].lastly THEN run[j - 1] ELSE RemoveAndInstall(run[j - 1], j)]

(* A removal of what the target had is followed to the last revision.      *)
LEMMA RemovedFollowed ==
    ASSUME NEW n \in Nat, NEW c \in Course(n), NEW d, NEW i \in 1..n,
           Settled(d, n, c, i - 1), c[i - 1] = c[0], c[0] # Nothing, c[i] # c[i - 1],
           d.removed = Nothing, d.installed = Nothing
    PROVE  Settled(FollowRemoved(d, i), n, c, n)
  <1> DEFINE start == [d EXCEPT !.removed = d.rest[i].removed, !.rest[i].removed = Nothing]
             first == InstallEndsRemoval(start, i)
  <1>1. d \in Diff(n) /\ Left(d, n, c, i - 1, i - 1) /\ Known(d, n, c)
    BY DEF Settled
  <1>2. d.rest[i].removed = c[0] /\ d.rest \in [1..n -> Change] /\ d.rest[i] \in Change
    BY <1>1 DEF Left, RemovedAt, Diff
  <1>3. /\ start.rest = [d.rest EXCEPT ![i].removed = Nothing] /\ start.removed = c[0]
        /\ start.installed = Nothing
    BY <1>1, <1>2 DEF Diff
  <1>4. start \in Diff(n)
    <2>1. start.rest \in [1..n -> Change] /\ c[0] \in Slot
      BY <1>2, <1>3 DEF Change, Slot, Course
    <2> QED
      BY <1>1, <1>2, <1>3, <2>1 DEF Diff
  <1>5. Torn(start, n, c, i)
    <2>1. Left(start, n, c, i, i - 1)
      <3>1. ASSUME NEW k \in 1..n
            PROVE  /\ start.rest[k].removed = IF k <= i THEN Nothing ELSE RemovedAt(c, k)
                   /\ start.rest[k].installed = IF k <= i - 1 THEN Nothing ELSE InstalledAt(c, k)
        <4>1. d.rest[k] \in Change
          BY <1>2
        <4>2. /\ start.rest[k].removed = IF k = i THEN Nothing ELSE d.rest[k].removed
              /\ start.rest[k].installed = d.rest[k].installed
          BY <1>2, <1>3, <4>1 DEF Change
        <4>3. k # i => (k <= i <=> k <= i - 1)
          OBVIOUS
        <4>4. /\ d.rest[k].removed = IF k <= i - 1 THEN Nothing ELSE RemovedAt(c, k)
              /\ d.rest[k].installed = IF k <= i - 1 THEN Nothing ELSE InstalledAt(c, k)
          BY <1>1 DEF Left
        <4> QED
          BY <4>2, <4>3, <4>4
      <3> QED
        BY <3>1 DEF Left
    <2>2. Gone(start, c[0])
      BY <1>3 DEF Gone, SameVersion
    <2>3. Known(start, n, c)
      <3>1. c[0] \in Seen(n, c) /\ Nothing \in Seen(n, c)
        BY DEF Seen
      <3> QED
        BY <1>3, <3>1 DEF Known
    <2> QED
      BY <1>4, <2>1, <2>2, <2>3 DEF Torn
  <1>6. Turned(first, n, c, i)
    BY <1>5, InstallStep
  <1>7. first \in Diff(n) /\ Len(d.rest) = n
    BY <1>1, <1>4, StepsStayTyped
  <1>8. FollowRemoved(d, i) = (CHOOSE run : RemovedRun(d, i, run))[n]
    BY <1>2, <1>7 DEF FollowRemoved, RemovedRun
  <1>9. \A run : RemovedRun(d, i, run) <=>
            run = [j \in i..n |-> IF j = i THEN first
                                  ELSE IF run[j - 1].lastly THEN InstallEndsRemoval(run[j - 1], j)
                                  ELSE RemoveAndInstall(run[j - 1], j)]
    BY <1>7 DEF RemovedRun
  <1> HIDE DEF start, first
  <1>10. \E run : RemovedRun(d, i, run)
    <2> DEFINE step == [x \in Diff(n) \X Nat |->
                           IF x[2] \notin 1..n THEN x[1]
                           ELSE IF x[1].lastly THEN InstallEndsRemoval(x[1], x[2])
                           ELSE RemoveAndInstall(x[1], x[2])]
    <2>1. step \in [Diff(n) \X Nat -> Diff(n)]
      <3>1. ASSUME NEW x \in Diff(n) \X Nat PROVE step[x] \in Diff(n)
        BY StepsStayTyped
      <3> QED
        BY <3>1
    <2>2. i \in Nat /\ i <= n
      OBVIOUS
    <2> HIDE DEF step
    <2>3. Runs(Diff(n), i, n, first, step) # {}
      BY <1>7, <2>1, <2>2, RunExists
    <2>4. PICK run : run \in Runs(Diff(n), i, n, first, step)
      BY <2>3
    <2>5. /\ run \in [i..n -> Diff(n)]
          /\ run = [j \in i..n |-> IF j = i THEN first ELSE step[<<run[j - 1], j>>]]
      BY <2>4 DEF Runs
    <2>6. ASSUME NEW j \in i..n, j # i
          PROVE  step[<<run[j - 1], j>>]
                     = IF run[j - 1].lastly THEN InstallEndsRemoval(run[j - 1], j)
                       ELSE RemoveAndInstall(run[j - 1], j)
      <3>1. j \in 1..n /\ j \in Nat /\ j - 1 \in i..n
        BY <2>6
      <3>2. run[j - 1] \in Diff(n)
        BY <2>5, <3>1
      <3> QED
        BY <3>1, <3>2 DEF step
    <2>7. run = [j \in i..n |-> IF j = i THEN first
                                ELSE IF run[j - 1].lastly THEN InstallEndsRemoval(run[j - 1], j)
                                ELSE RemoveAndInstall(run[j - 1], j)]
      BY <2>5, <2>6
    <2> QED
      BY <1>9, <2>7
  <1>11. PICK run : RemovedRun(d, i, run) /\ FollowRemoved(d, i) = run[n]
    BY <1>8, <1>10
  <1>12. run = [j \in i..n |-> IF j = i THEN first
                               ELSE IF run[j - 1].lastly THEN InstallEndsRemoval(run[j - 1], j)
                               ELSE RemoveAndInstall(run[j - 1], j)]
    BY <1>9, <1>11
  <1> DEFINE Good == {j \in Nat : Turned(run[j], n, c, j)}
  <1>13. i \in Good
    BY <1>6, <1>12
  <1>14. ASSUME NEW j \in i..n, j < n, j \in Good PROVE j + 1 \in Good
    <2>1. j + 1 \in i..n /\ j + 1 # i /\ (j + 1) - 1 = j /\ j + 1 \in 1..n /\ j + 1 \in Nat
      BY <1>14
    <2>2. run[j + 1] = IF run[j].lastly THEN InstallEndsRemoval(run[j], j + 1)
                       ELSE RemoveAndInstall(run[j], j + 1)
      BY <1>12, <2>1
    <2>3. Settled(run[j], n, c, (j + 1) - 1) /\ (run[j].lastly <=> c[(j + 1) - 1] = Nothing)
      BY <1>14, <2>1 DEF Turned
    <2> HIDE DEF Good
    <2>4. Turned(run[j + 1], n, c, j + 1)
      <3>1. CASE run[j].lastly
        BY <2>1, <2>2, <2>3, <3>1, ComeBackStep
      <3>2. CASE ~run[j].lastly
        BY <2>1, <2>2, <2>3, <3>2, RemoveStep
      <3> QED
        BY <3>1, <3>2
    <2> QED
      BY <2>1, <2>4 DEF Good
  <1> HIDE DEF Good
  <1>15. i..n \subseteq Good
    <2>1. i \in Nat
      OBVIOUS
    <2> QED
      BY <2>1, <1>13, <1>14, UpTo
  <1>16. n \in Good
    BY <1>15
  <1> QED
    BY <1>11, <1>16 DEF Good, Turned

(* An installation of what the target had not is followed to the last      *)
(* revision, or to one after which the name is gone again.                 *)
LEMMA InstalledFollowed ==
    ASSUME NEW n \in Nat, NEW c \in Course(n), NEW d, NEW i \in 1..n,
           Settled(d, n, c, i - 1), c[i - 1] = Nothing, c[0] = Nothing, c[i] # Nothing
    PROVE  \E m \in i..n :
               Settled(FollowInstalled(d, i), n, c, m) /\ (m = n \/ c[m] = Nothing)
  <1> DEFINE start == [d EXCEPT !.installed = d.rest[i].installed, !.rest[i].installed = Nothing,
                                !.lastly = FALSE]
  <1>1. d \in Diff(n) /\ Left(d, n, c, i - 1, i - 1) /\ Known(d, n, c) /\ Gone(d, c[0])
    BY DEF Settled, Balanced
  <1>2. d.rest[i].installed = c[i] /\ d.rest \in [1..n -> Change] /\ d.rest[i] \in Change
    BY <1>1 DEF Left, InstalledAt, Diff
  <1>3. /\ start.rest = [d.rest EXCEPT ![i].installed = Nothing] /\ start.removed = d.removed
        /\ start.installed = c[i] /\ start.lastly = FALSE
    BY <1>1, <1>2 DEF Diff
  <1>4. start \in Diff(n)
    <2>1. start.rest \in [1..n -> Change] /\ c[i] \in Slot
      BY <1>2, <1>3 DEF Change, Slot, Course
    <2> QED
      BY <1>1, <1>2, <1>3, <2>1 DEF Diff
  <1>5. Turned(start, n, c, i)
    <2>1. Left(start, n, c, i, i)
      <3>1. ASSUME NEW k \in 1..n
            PROVE  /\ start.rest[k].removed = IF k <= i THEN Nothing ELSE RemovedAt(c, k)
                   /\ start.rest[k].installed = IF k <= i THEN Nothing ELSE InstalledAt(c, k)
        <4>1. d.rest[k] \in Change
          BY <1>2
        <4>2. /\ start.rest[k].removed = d.rest[k].removed
              /\ start.rest[k].installed = IF k = i THEN Nothing ELSE d.rest[k].installed
          BY <1>2, <1>3, <4>1 DEF Change
        <4>3. k # i => (k <= i <=> k <= i - 1)
          OBVIOUS
        <4>4. /\ d.rest[k].removed = IF k <= i - 1 THEN Nothing ELSE RemovedAt(c, k)
              /\ d.rest[k].installed = IF k <= i - 1 THEN Nothing ELSE InstalledAt(c, k)
          BY <1>1 DEF Left
        <4>5. RemovedAt(c, i) = Nothing
          BY DEF RemovedAt
        <4> QED
          BY <4>2, <4>3, <4>4, <4>5
      <3> QED
        BY <3>1 DEF Left
    <2>2. Balanced(start, c[0], c[i])
      BY <1>1, <1>3 DEF Balanced, Back, Gone
    <2>3. Known(start, n, c)
      <3>1. c[i] \in Seen(n, c)
        BY DEF Seen
      <3> QED
        BY <1>1, <1>3, <3>1 DEF Known
    <2> QED
      BY <1>3, <1>4, <2>1, <2>2, <2>3 DEF Turned, Settled
  <1>7. Len(d.rest) = n
    BY <1>1, StepsStayTyped
  <1>8. FollowInstalled(d, i) = (CHOOSE run : InstalledRun(d, i, run))[n]
    BY <1>2, <1>7 DEF FollowInstalled, InstalledRun
  <1>9. \A run : InstalledRun(d, i, run) <=>
            run = [j \in i..n |-> IF j = i THEN start
                                  ELSE IF run[j - 1].lastly THEN run[j - 1]
                                  ELSE RemoveAndInstall(run[j - 1], j)]
    BY <1>7 DEF InstalledRun
  <1> HIDE DEF start
  <1>10. \E run : InstalledRun(d, i, run)
    <2> DEFINE step == [x \in Diff(n) \X Nat |->
                           IF x[2] \notin 1..n \/ x[1].lastly THEN x[1]
                           ELSE RemoveAndInstall(x[1], x[2])]
    <2>1. step \in [Diff(n) \X Nat -> Diff(n)]
      <3>1. ASSUME NEW x \in Diff(n) \X Nat PROVE step[x] \in Diff(n)
        BY StepsStayTyped
      <3> QED
        BY <3>1
    <2>2. i \in Nat /\ i <= n
      OBVIOUS
    <2> HIDE DEF step
    <2>3. Runs(Diff(n), i, n, start, step) # {}
      BY <1>4, <2>1, <2>2, RunExists
    <2>4. PICK run : run \in Runs(Diff(n), i, n, start, step)
      BY <2>3
    <2>5. /\ run \in [i..n -> Diff(n)]
          /\ run = [j \in i..n |-> IF j = i THEN start ELSE step[<<run[j - 1], j>>]]
      BY <2>4 DEF Runs
    <2>6. ASSUME NEW j \in i..n, j # i
          PROVE  step[<<run[j - 1], j>>]
                     = IF run[j - 1].lastly THEN run[j - 1] ELSE RemoveAndInstall(run[j - 1], j)
      <3>1. j \in 1..n /\ j \in Nat /\ j - 1 \in i..n
        BY <2>6
      <3>2. run[j - 1] \in Diff(n)
        BY <2>5, <3>1
      <3> QED
        BY <3>1, <3>2 DEF step
    <2>7. run = [j \in i..n |-> IF j = i THEN start
                                ELSE IF run[j - 1].lastly THEN run[j - 1]
                                ELSE RemoveAndInstall(run[j - 1], j)]
      BY <2>5, <2>6
    <2> QED
      BY <1>9, <2>7
  <1>11. PICK run : InstalledRun(d, i, run) /\ FollowInstalled(d, i) = run[n]
    BY <1>8, <1>10
  <1>12. run = [j \in i..n |-> IF j = i THEN start
                               ELSE IF run[j - 1].lastly THEN run[j - 1]
                               ELSE RemoveAndInstall(run[j - 1], j)]
    BY <1>9, <1>11
  <1> DEFINE Good == {j \in Nat : \E m \in i..j :
                         Turned(run[j], n, c, m) /\ (run[j].lastly \/ m = j)}
  <1>13. i \in Good
    <2>1. Turned(run[i], n, c, i) /\ i \in i..i
      BY <1>5, <1>12
    <2> QED
      BY <2>1
  <1>14. ASSUME NEW j \in i..n, j < n, j \in Good PROVE j + 1 \in Good
    <2>1. j + 1 \in i..n /\ j + 1 # i /\ (j + 1) - 1 = j /\ j + 1 \in 1..n /\ j + 1 \in Nat
          /\ j + 1 \in i..(j + 1)
      BY <1>14
    <2>2. run[j + 1] = IF run[j].lastly THEN run[j] ELSE RemoveAndInstall(run[j], j + 1)
      BY <1>12, <2>1
    <2>3. PICK m \in i..j : Turned(run[j], n, c, m) /\ (run[j].lastly \/ m = j)
      BY <1>14
    <2>4. m \in i..(j + 1)
      BY <2>1
    <2> HIDE DEF Good
    <2>5. CASE run[j].lastly
      BY <2>1, <2>2, <2>3, <2>4, <2>5 DEF Good
    <2>6. CASE ~run[j].lastly
      <3>1. Settled(run[j], n, c, (j + 1) - 1) /\ c[(j + 1) - 1] # Nothing
        BY <2>1, <2>3, <2>6 DEF Turned
      <3>2. Turned(run[j + 1], n, c, j + 1)
        BY <2>1, <2>2, <2>6, <3>1, RemoveStep
      <3> QED
        BY <2>1, <3>2 DEF Good
    <2> QED
      BY <2>5, <2>6
  <1> HIDE DEF Good
  <1>15. i..n \subseteq Good
    <2>1. i \in Nat
      OBVIOUS
    <2> QED
      BY <2>1, <1>13, <1>14, UpTo
  <1>16. n \in Good
    BY <1>15
  <1>17. PICK m \in i..n : Turned(run[n], n, c, m) /\ (run[n].lastly \/ m = n)
    BY <1>16 DEF Good
  <1> QED
    BY <1>11, <1>17 DEF Turned

(* After i revisions of the outer loop at least i entries are consumed; if *)
(* some are left, nothing is different yet.                                *)
Reached(d, n, c, i) ==
    \E m \in i..n :
        /\ Settled(d, n, c, m)
        /\ m = n \/ (c[m] = c[0] /\ d.removed = Nothing /\ d.installed = Nothing)

LEMMA RevisionStep ==
    ASSUME NEW n \in Nat, NEW c \in Course(n), NEW d, NEW i \in 1..n, Reached(d, n, c, i - 1)
    PROVE  Reached(FollowInstalled(FollowRemoved(d, i), i), n, c, i)
  <1>1. PICK m \in (i - 1)..n :
            /\ Settled(d, n, c, m)
            /\ m = n \/ (c[m] = c[0] /\ d.removed = Nothing /\ d.installed = Nothing)
    BY DEF Reached
  <1>2. d \in Diff(n) /\ Left(d, n, c, m, m)
    BY <1>1 DEF Settled
  <1>3. \A e : e.rest[i].removed = Nothing => FollowRemoved(e, i) = e
    BY DEF FollowRemoved
  <1>4. \A e : e.rest[i].installed = Nothing => FollowInstalled(e, i) = e
    BY DEF FollowInstalled
  <1>5. CASE m >= i
    <2>1. d.rest[i].removed = Nothing /\ d.rest[i].installed = Nothing
      BY <1>2, <1>5 DEF Left
    <2>2. FollowInstalled(FollowRemoved(d, i), i) = d
      BY <1>3, <1>4, <2>1
    <2>3. m \in i..n
      BY <1>5
    <2> QED
      BY <1>1, <2>2, <2>3 DEF Reached
  <1>6. CASE m = i - 1
    <2>1. /\ c[i - 1] = c[0] /\ d.removed = Nothing /\ d.installed = Nothing
          /\ Settled(d, n, c, i - 1)
      BY <1>1, <1>6
    <2>2. d.rest[i].removed = RemovedAt(c, i) /\ d.rest[i].installed = InstalledAt(c, i)
      BY <1>2, <1>6 DEF Left
    <2>3. CASE c[i] = c[i - 1]
      <3>1. FollowInstalled(FollowRemoved(d, i), i) = d
        BY <1>3, <1>4, <2>2, <2>3 DEF RemovedAt, InstalledAt
      <3>2. Left(d, n, c, i, i)
        <4>1. ASSUME NEW k \in 1..n
              PROVE  /\ d.rest[k].removed = IF k <= i THEN Nothing ELSE RemovedAt(c, k)
                     /\ d.rest[k].installed = IF k <= i THEN Nothing ELSE InstalledAt(c, k)
          <5>1. /\ d.rest[k].removed = IF k <= i - 1 THEN Nothing ELSE RemovedAt(c, k)
                /\ d.rest[k].installed = IF k <= i - 1 THEN Nothing ELSE InstalledAt(c, k)
            BY <1>2, <1>6 DEF Left
          <5>2. k # i => (k <= i <=> k <= i - 1)
            OBVIOUS
          <5>3. RemovedAt(c, i) = Nothing /\ InstalledAt(c, i) = Nothing
            BY <2>3 DEF RemovedAt, InstalledAt
          <5> QED
            BY <5>1, <5>2, <5>3
        <4> QED
          BY <4>1 DEF Left
      <3>3. Settled(d, n, c, i)
        BY <2>1, <2>3, <3>2 DEF Settled
      <3>4. i \in i..n
        OBVIOUS
      <3> QED
        BY <2>1, <2>3, <3>1, <3>3, <3>4 DEF Reached
    <2>4. CASE c[i] # c[i - 1] /\ c[0] # Nothing
      <3> DEFINE e == FollowRemoved(d, i)
      <3>1. Settled(e, n, c, n)
        BY <2>1, <2>4, RemovedFollowed
      <3> HIDE DEF e
      <3>2. e.rest[i].installed = Nothing
        BY <3>1 DEF Settled, Left
      <3>3. FollowInstalled(e, i) = e /\ n \in i..n
        BY <1>4, <3>2
      <3> QED
        BY <3>1, <3>3 DEF Reached, e
    <2>5. CASE c[i] # c[i - 1] /\ c[0] = Nothing
      <3>1. FollowRemoved(d, i) = d
        BY <1>3, <2>1, <2>2, <2>5 DEF RemovedAt
      <3> DEFINE e == FollowInstalled(d, i)
      <3>2. \E k \in i..n : Settled(e, n, c, k) /\ (k = n \/ c[k] = Nothing)
        BY <2>1, <2>5, InstalledFollowed
      <3> HIDE DEF e
      <3>3. PICK k \in i..n : Settled(e, n, c, k) /\ (k = n \/ c[k] = Nothing)
        BY <3>2
      <3>4. k # n => e.removed = Nothing /\ e.installed = Nothing /\ c[k] = c[0]
        BY <2>5, <3>3 DEF Settled, Balanced, Gone
      <3>5. Reached(e, n, c, i)
        BY <3>3, <3>4 DEF Reached
      <3> QED
        BY <3>1, <3>5 DEF e
    <2> QED
      BY <2>3, <2>4, <2>5
  <1> QED
    BY <1>5, <1>6

Untouched(above) == [rest |-> above, removed |-> Nothing, installed |-> Nothing,
                     lastly |-> FALSE, found |-> FALSE]
DiffRun(above, run) ==
    run = [i \in 0..Len(above) |->
              IF i = 0 THEN Untouched(above)
              ELSE FollowInstalled(FollowRemoved(run[i - 1], i), i)]

(* The difference between the target and now, for a name that went through *)
(* c: all entries are consumed.                                            *)
Changes(c, n, above) ==
    /\ above \in [1..n -> Change]
    /\ \A j \in 1..n : above[j].removed = RemovedAt(c, j) /\ above[j].installed = InstalledAt(c, j)

LEMMA UntouchedReached ==
    ASSUME NEW n \in Nat, NEW c \in Course(n), NEW above, Changes(c, n, above)
    PROVE  Reached(Untouched(above), n, c, 0) /\ Untouched(above) \in Diff(n)
  <1> DEFINE d == Untouched(above)
  <1>1. d \in Diff(n)
    BY DEF Changes, Diff, Untouched, Slot
  <1>2. Left(d, n, c, 0, 0)
    BY DEF Changes, Left, Untouched
  <1>3. Balanced(d, c[0], c[0])
    BY DEF Balanced, Gone, Back, SameVersion, Untouched
  <1>4. Known(d, n, c)
    BY DEF Known, Seen, Untouched
  <1>5. d.removed = Nothing /\ d.installed = Nothing /\ 0 \in 0..n
    BY DEF Untouched
  <1>6. Settled(d, n, c, 0)
    BY <1>1, <1>2, <1>3, <1>4 DEF Settled
  <1> QED
    BY <1>1, <1>5, <1>6 DEF Reached

LEMMA DiffSettled ==
    ASSUME NEW n \in Nat, NEW c \in Course(n), NEW target, NEW name,
           Changes(c, n, Above(target, name))
    PROVE  Settled(DiffOf(target, name), n, c, n)
  <1> DEFINE above == Above(target, name)
             After(x, i) == FollowInstalled(FollowRemoved(x, i), i)
             chosen == CHOOSE f : DiffRun(above, f)
             step == [x \in Diff(n) \X Nat |->
                         IF After(x[1], x[2]) \in Diff(n) THEN After(x[1], x[2]) ELSE x[1]]
             first == Untouched(above)
  <1>1. DiffOf(target, name) = chosen[Len(above)]
    BY DEF DiffOf, DiffRun, Untouched
  <1>2. Len(above) = n
    BY DEF Changes
  <1>3. first \in Diff(n) /\ Reached(first, n, c, 0)
    BY UntouchedReached
  <1>4. step \in [Diff(n) \X Nat -> Diff(n)]
    OBVIOUS
  <1>5. \A x \in Diff(n), i \in Nat : After(x, i) \in Diff(n) => step[<<x, i>>] = After(x, i)
    OBVIOUS
  <1> HIDE DEF step, above, first, chosen
  <1>6. Runs(Diff(n), 0, n, first, step) # {}
    <2>1. 0 \in Nat /\ 0 <= n
      OBVIOUS
    <2> QED
      BY <1>3, <1>4, <2>1, RunExists
  <1>7. PICK run : run \in Runs(Diff(n), 0, n, first, step)
    BY <1>6
  <1>8. /\ run \in [0..n -> Diff(n)]
        /\ run = [k \in 0..n |-> IF k = 0 THEN first ELSE step[<<run[k - 1], k>>]]
    BY <1>7 DEF Runs
  <1>9. ASSUME NEW k \in 1..n, Reached(run[k - 1], n, c, k - 1)
        PROVE  run[k] = After(run[k - 1], k) /\ Reached(run[k], n, c, k)
    <2>1. Reached(After(run[k - 1], k), n, c, k)
      BY <1>9, RevisionStep
    <2>2. After(run[k - 1], k) \in Diff(n)
      BY <2>1 DEF Reached, Settled
    <2>3. k \in 0..n /\ k \in Nat /\ k # 0 /\ k - 1 \in 0..n
      OBVIOUS
    <2>4. run[k] = step[<<run[k - 1], k>>] /\ run[k - 1] \in Diff(n)
      BY <1>8, <2>3
    <2>5. run[k] = After(run[k - 1], k)
      BY <1>5, <2>2, <2>3, <2>4
    <2> QED
      BY <2>1, <2>5
  <1> HIDE DEF After
  <1> DEFINE Good == {k \in Nat : Reached(run[k], n, c, k)}
  <1>10. 0 \in Good
    BY <1>3, <1>8
  <1>11. ASSUME NEW k \in 0..n, k < n, k \in Good PROVE k + 1 \in Good
    <2>1. k + 1 \in 1..n /\ (k + 1) - 1 = k /\ k + 1 \in Nat
      BY <1>11
    <2>2. Reached(run[(k + 1) - 1], n, c, (k + 1) - 1)
      BY <1>11, <2>1
    <2>3. Reached(run[k + 1], n, c, k + 1)
      BY <1>9, <2>1, <2>2
    <2> QED
      BY <2>1, <2>3
  <1>12. 0..n \subseteq Good
    <2> HIDE DEF Good
    <2> QED
      BY <1>10, <1>11, UpTo
  <1>13. \A k \in 0..n : Reached(run[k], n, c, k)
    BY <1>12
  <1>14. DiffRun(above, run)
    <2>1. ASSUME NEW k \in 0..n
          PROVE  run[k] = IF k = 0 THEN first ELSE After(run[k - 1], k)
      <3>1. CASE k = 0
        BY <1>8, <3>1
      <3>2. CASE k # 0
        <4>1. k \in 1..n /\ k - 1 \in 0..n
          BY <3>2
        <4>2. Reached(run[k - 1], n, c, k - 1)
          BY <1>13, <4>1
        <4> QED
          BY <1>9, <3>2, <4>1, <4>2
      <3> QED
        BY <3>1, <3>2
    <2>2. run = [k \in 0..n |-> IF k = 0 THEN first ELSE After(run[k - 1], k)]
      BY <1>8, <2>1
    <2> QED
      BY <1>2, <2>2 DEF DiffRun, After, first
  <1>15. DiffRun(above, chosen)
    BY <1>14 DEF chosen
  <1>16. chosen[n] = run[n]
    <2>1. chosen[0] = run[0] /\ 0 \in Nat /\ 0 <= n
      BY <1>2, <1>14, <1>15 DEF DiffRun
    <2>2. ASSUME NEW k \in 0..n, k # 0, chosen[k - 1] = run[k - 1] PROVE chosen[k] = run[k]
      <3>1. chosen[k] = After(chosen[k - 1], k)
        BY <1>2, <1>15, <2>2 DEF DiffRun, After
      <3>2. run[k] = After(run[k - 1], k)
        BY <1>2, <1>14, <2>2 DEF DiffRun, After
      <3> QED
        BY <2>2, <3>1, <3>2
    <2> QED
      BY <2>1, <2>2, RunsAgree
  <1>17. PICK m \in n..n : Settled(run[n], n, c, m)
    BY <1>13 DEF Reached
  <1> QED
    BY <1>1, <1>2, <1>16, <1>17

-----------------------------------------------------------------------------
(* What a prefix holds of a name.                                          *)
LEMMA OfIs ==
    ASSUME NEW S \in PrefixStates, NEW name
    PROVE  /\ Of(S, name) \in Slot
           /\ Of(S, name) = Nothing <=> name \notin NamesOf(S)
           /\ Of(S, name) # Nothing => Of(S, name) \in S /\ Of(S, name).name = name
           /\ \A p \in S : p.name = name => p = Of(S, name)
  <1>1. S \subseteq Package /\ Nothing \notin Package /\ \A p, q \in S : p.name = q.name => p = q
    BY HistoryAssumption DEF PrefixStates
  <1>2. CASE name \in NamesOf(S)
    <2>1. \E p \in S : p.name = name
      BY <1>2 DEF NamesOf
    <2>2. Of(S, name) = CHOOSE p \in S : p.name = name
      BY <1>2 DEF Of
    <2>3. Of(S, name) \in S /\ Of(S, name).name = name
      BY <2>1, <2>2
    <2> QED
      BY <1>1, <1>2, <2>3 DEF Slot
  <1>3. CASE name \notin NamesOf(S)
    BY <1>3 DEF Of, NamesOf, Slot
  <1> QED
    BY <1>2, <1>3

LEMMA OfDifference ==
    ASSUME NEW S \in PrefixStates, NEW T \in PrefixStates, NEW name
    PROVE  Of(S \ T, name) = IF Of(S, name) = Of(T, name) THEN Nothing ELSE Of(S, name)
  <1>1. S \ T \in PrefixStates
    BY DEF PrefixStates
  <1>2. /\ Of(S, name) = Nothing <=> name \notin NamesOf(S)
        /\ Of(S, name) # Nothing => Of(S, name) \in S /\ Of(S, name).name = name
        /\ \A p \in S : p.name = name => p = Of(S, name)
    BY OfIs
  <1>3. /\ Of(T, name) # Nothing => Of(T, name) \in T /\ Of(T, name).name = name
        /\ \A p \in T : p.name = name => p = Of(T, name)
    BY OfIs
  <1>4. /\ Of(S \ T, name) # Nothing => Of(S \ T, name) \in S \ T /\ Of(S \ T, name).name = name
        /\ \A p \in S \ T : p.name = name => p = Of(S \ T, name)
    BY <1>1, OfIs
  <1>5. Nothing \notin S /\ Nothing \notin T
    BY HistoryAssumption DEF PrefixStates
  <1> QED
    BY <1>2, <1>3, <1>4, <1>5

-----------------------------------------------------------------------------
(* The history as a whole.                                                 *)

(* Every revision tells how the prefix became the next one.                *)
Recorded ==
    /\ Len(past) = Len(Revisions) + 1 /\ past[Len(past)] = prefix
    /\ \A r \in 1..Len(Revisions) :
           /\ Revisions[r].unlink = past[r] \ past[r + 1]
           /\ Revisions[r].link = past[r + 1] \ past[r]

(* Whatever has been installed has been linked by some entry.              *)
EverLinked ==
    \A k \in 1..Len(past) : \A p \in past[k] : \E i \in 1..Len(entries) : p \in entries[i].link

(* Pruning knows a spec of whatever has been asked for, the last one.      *)
Asked == wanted \subseteq NamesOf(RequestedSpecs)
LastAsked ==
    \A s \in RequestedSpecs : \E i \in 1..Len(entries) :
        /\ s \in entries[i].update
        /\ \A j \in (i + 1)..Len(entries) : s.name \notin NamesOf(entries[j].update)

HistoryInv == HistoryTypeOK /\ Recorded /\ EverLinked /\ Asked /\ LastAsked

(* A name went through c since the target, and all of it was undone.       *)
Went(n, c, target, name) ==
    /\ Settled(DiffOf(target, name), n, c, n) /\ c[n] = Of(prefix, name)
    /\ target + 2 <= Len(past) => c[0] = Of(past[target + 2], name)
    /\ \A k \in 0..n : c[k] # Nothing =>
           c[k].name = name /\ \E i \in 1..Len(past) : c[k] \in past[i]

(* What it went through is found in the file.                              *)
LEMMA CourseFound ==
    ASSUME HistoryTypeOK, Recorded, Revisions \in Seq(Entry), NEW target \in Nat, NEW name
    PROVE  \E n \in Nat : \E c \in Course(n) : Went(n, c, target, name)
  <1> DEFINE base == IF target + 2 <= Len(past) THEN target + 2 ELSE Len(past)
             n == Len(past) - base
             c == [k \in 0..n |-> Of(past[base + k], name)]
             above == Above(target, name)
  <1>1. /\ past \in Seq(PrefixStates) /\ Len(past) \in Nat /\ Len(Revisions) \in Nat
        /\ Len(past) = Len(Revisions) + 1 /\ past[Len(past)] = prefix
    BY LenProperties DEF HistoryTypeOK, Recorded
  <1>2. /\ base \in Nat /\ base \in 1..Len(past) /\ n \in Nat /\ base + n = Len(past)
        /\ base + 0 = base
        /\ n = IF target + 2 <= Len(Revisions) THEN Len(Revisions) - (target + 2) + 1 ELSE 0
    <2>1. base = (IF target + 2 <= Len(past) THEN target + 2 ELSE Len(past)) /\ n = Len(past) - base
      OBVIOUS
    <2>2. Len(past) \in Nat /\ Len(Revisions) \in Nat /\ Len(past) = Len(Revisions) + 1
      BY <1>1
    <2> HIDE DEF base, n
    <2>3. CASE target + 2 <= Len(past)
      <3>1. base = target + 2
        BY <2>1, <2>3
      <3>2. base \in Nat /\ base \in 1..Len(past) /\ n \in Nat /\ base + n = Len(past)
        BY <2>1, <2>2, <2>3, <3>1
      <3>3. n = IF target + 2 <= Len(Revisions) THEN Len(Revisions) - (target + 2) + 1 ELSE 0
        <4>1. CASE target + 2 <= Len(Revisions)
          BY <2>1, <2>2, <3>1, <4>1
        <4>2. CASE ~(target + 2 <= Len(Revisions))
          BY <2>1, <2>2, <2>3, <3>1, <4>2
        <4> QED
          BY <4>1, <4>2
      <3> QED
        BY <3>2, <3>3
    <2>4. CASE ~(target + 2 <= Len(past))
      <3>1. base = Len(past) /\ ~(target + 2 <= Len(Revisions))
        BY <2>1, <2>2, <2>4
      <3>2. base \in Nat /\ base \in 1..Len(past) /\ n = 0
        BY <2>1, <2>2, <3>1
      <3> QED
        BY <3>1, <3>2, <2>2
    <2> QED
      BY <2>3, <2>4
  <1>3. target + 2 <= Len(past) => base = target + 2
    OBVIOUS
  <1>4. n # 0 => target + 2 <= Len(Revisions)
    BY <1>1
  <1> HIDE DEF base, n
  <1>5. ASSUME NEW k \in 0..n PROVE base + k \in 1..Len(past) /\ past[base + k] \in PrefixStates
    <2>1. base + k \in 1..Len(past)
      BY <1>1, <1>2
    <2> QED
      BY <1>1, <2>1, ElementOfSeq
  <1>6. c \in Course(n)
    BY <1>5, OfIs DEF Course
  <1>7. c[n] = Of(prefix, name) /\ (target + 2 <= Len(past) => c[0] = Of(past[target + 2], name))
    BY <1>1, <1>2, <1>3
  <1>8. ASSUME NEW k \in 0..n, c[k] # Nothing
        PROVE  c[k].name = name /\ \E i \in 1..Len(past) : c[k] \in past[i]
    <2>1. c[k] = Of(past[base + k], name)
      OBVIOUS
    <2>2. base + k \in 1..Len(past) /\ past[base + k] \in PrefixStates
      BY <1>5
    <2>3. c[k] \in past[base + k] /\ c[k].name = name
      BY <1>8, <2>1, <2>2, OfIs
    <2> QED
      BY <2>2, <2>3
  <1>9. Changes(c, n, above)
    <2> DEFINE revisions == SubSeq(Revisions, target + 2, Len(Revisions))
    <2>1. target + 2 \in Int /\ Len(Revisions) \in Int
          /\ \A i \in (target + 2)..Len(Revisions) : Revisions[i] \in Entry
      BY <1>1, ElementOfSeq
    <2>2. /\ revisions \in Seq(Entry)
          /\ Len(revisions)
                 = IF target + 2 <= Len(Revisions) THEN Len(Revisions) - (target + 2) + 1 ELSE 0
          /\ \A i \in 1..Len(Revisions) - (target + 2) + 1 :
                 revisions[i] = Revisions[target + 2 + i - 1]
      BY <2>1, SubSeqProperties
    <2>3. Len(revisions) = n
      BY <1>2, <2>2
    <2>4. DOMAIN revisions = 1..n
      BY <2>2, <2>3
    <2>5. above = [i \in 1..n |-> [removed |-> Of(revisions[i].unlink, name),
                                   installed |-> Of(revisions[i].link, name)]]
      BY <2>4 DEF Above
    <2> HIDE DEF above
    <2>6. ASSUME NEW j \in 1..n
          PROVE  /\ above[j].removed = RemovedAt(c, j) /\ above[j].installed = InstalledAt(c, j)
                 /\ above[j] \in Change
      <3> DEFINE before == past[base + (j - 1)]
                 after == past[base + j]
      <3>1. before \in PrefixStates /\ after \in PrefixStates /\ j - 1 \in 0..n /\ j \in 0..n
        <4>1. j - 1 \in 0..n /\ j \in 0..n
          BY <1>2
        <4> QED
          BY <1>5, <4>1
      <3>2. c[j - 1] = Of(before, name) /\ c[j] = Of(after, name)
        BY <3>1
      <3>3. target + 2 <= Len(past) /\ base = target + 2 /\ j \in 1..Len(Revisions) - (target + 2) + 1
            /\ base + (j - 1) \in 1..Len(Revisions) /\ target + 2 + j - 1 = base + (j - 1)
            /\ (base + (j - 1)) + 1 = base + j
        <4>1. n # 0 /\ target + 2 <= Len(Revisions)
          BY <1>2, <1>4
        <4>2. target + 2 <= Len(past) /\ base = target + 2
          BY <1>1, <1>3, <4>1
        <4> QED
          BY <1>1, <1>2, <4>1, <4>2
      <3>4. revisions[j] = Revisions[base + (j - 1)]
        BY <2>2, <3>3
      <3> HIDE DEF revisions, base, c
      <3>5. revisions[j].unlink = before \ after /\ revisions[j].link = after \ before
        BY <3>3, <3>4 DEF Recorded
      <3> HIDE DEF before, after
      <3>6. above[j].removed = RemovedAt(c, j)
        BY <2>5, <3>1, <3>2, <3>5, OfDifference DEF RemovedAt
      <3>7. above[j].installed = InstalledAt(c, j)
        BY <2>5, <3>1, <3>2, <3>5, OfDifference DEF InstalledAt
      <3>8. RemovedAt(c, j) \in Slot /\ InstalledAt(c, j) \in Slot
        BY <1>6, <3>1 DEF RemovedAt, InstalledAt, Course, Slot
      <3>9. above[j] \in Change
        BY <2>5, <3>6, <3>7, <3>8 DEF Change
      <3> QED
        BY <3>6, <3>7, <3>9
    <2>7. above \in [1..n -> Change]
      BY <2>5, <2>6
    <2> QED
      BY <2>6, <2>7 DEF Changes
  <1> HIDE DEF c, n, base
  <1>10. Settled(DiffOf(target, name), n, c, n)
    BY <1>2, <1>6, <1>9, DiffSettled
  <1>11. Went(n, c, target, name)
    BY <1>7, <1>8, <1>10 DEF Went
  <1> QED
    BY <1>2, <1>6, <1>11

(* What undoing the difference does to a name that the prefix has as x.    *)
LEMMA DiffIs ==
    ASSUME HistoryTypeOK, Recorded, Revisions \in Seq(Entry), NEW target \in Nat,
           NEW name \in PackageNames
    PROVE  /\ DiffOf(target, name).removed \in Slot /\ DiffOf(target, name).installed \in Slot
           /\ DiffOf(target, name).removed # Nothing => DiffOf(target, name).removed.name = name
           /\ DiffOf(target, name).installed # Nothing
                  => DiffOf(target, name).installed = Of(prefix, name)
           /\ Of(prefix, name) # Nothing /\ DiffOf(target, name).removed # Nothing
                  => DiffOf(target, name).installed = Of(prefix, name)
  <1> DEFINE d == DiffOf(target, name)
             x == Of(prefix, name)
  <1>1. PICK n \in Nat : \E c \in Course(n) : Went(n, c, target, name)
    BY CourseFound
  <1>2. PICK c \in Course(n) : Went(n, c, target, name)
    BY <1>1
  <1>3. /\ Settled(d, n, c, n) /\ c[n] = x
        /\ \A k \in 0..n : c[k] # Nothing => c[k].name = name
    BY <1>2 DEF Went
  <1> HIDE DEF d, x
  <1>4. d \in Diff(n) /\ Known(d, n, c) /\ Balanced(d, c[0], x)
    BY <1>3 DEF Settled
  <1>5. d.removed # Nothing => d.removed.name = name
    BY <1>3, <1>4 DEF Known, Seen
  <1>6. d.installed # Nothing => d.installed = x
    BY <1>4 DEF Balanced, Gone, Back
  <1>7. x # Nothing /\ d.removed # Nothing => d.installed = x
    BY <1>4 DEF Balanced, Gone, Back
  <1>8. d.removed \in Slot /\ d.installed \in Slot
    BY <1>4 DEF Diff
  <1> QED
    BY <1>5, <1>6, <1>7, <1>8 DEF d, x

(* Going back never leaves two packages of a name, rebuilt or not.         *)
LEMMA RevisionInstallable ==
    ASSUME HistoryTypeOK, Recorded, Revisions \in Seq(Entry), NEW target \in Nat
    PROVE  /\ FromRevision(target).removed \in SUBSET Package
           /\ FromRevision(target).installed \in SUBSET Package
           /\ (prefix \ FromRevision(target).installed) \cup FromRevision(target).removed
                  \in PrefixStates
  <1> DEFINE removed == {DiffOf(target, n).removed : n \in PackageNames} \ {Nothing}
             installed == {DiffOf(target, n).installed : n \in PackageNames} \ {Nothing}
             to == (prefix \ installed) \cup removed
  <1>1. FromRevision(target).removed = removed /\ FromRevision(target).installed = installed
    BY DEF FromRevision
  <1>2. removed \subseteq Package /\ installed \subseteq Package
    BY DiffIs DEF Slot
  <1>3. prefix \in PrefixStates /\ prefix \subseteq Package /\ Nothing \notin prefix
        /\ \A p, q \in prefix : p.name = q.name => p = q
    BY HistoryAssumption DEF HistoryTypeOK, PrefixStates
  <1>4. \A p \in prefix : p.name \in PackageNames
    BY <1>3 DEF Package
  <1>5. ASSUME NEW p \in removed
        PROVE  p.name \in PackageNames /\ p = DiffOf(target, p.name).removed /\ p # Nothing
    <2>1. PICK n \in PackageNames : p = DiffOf(target, n).removed /\ p # Nothing
      OBVIOUS
    <2>2. p.name = n
      BY <2>1, DiffIs
    <2> QED
      BY <2>1, <2>2
  <1>6. ASSUME NEW p \in removed, NEW q \in prefix \ installed PROVE p.name # q.name
    <2>1. SUFFICES ASSUME p.name = q.name PROVE FALSE
      OBVIOUS
    <2>2. q.name \in PackageNames /\ DiffOf(target, q.name).removed # Nothing
      BY <1>5, <2>1
    <2>3. q = Of(prefix, q.name) /\ q # Nothing
      BY <1>3, OfIs
    <2>4. DiffOf(target, q.name).installed = q
      BY <2>2, <2>3, DiffIs
    <2> QED
      BY <2>2, <2>3, <2>4
  <1> HIDE DEF removed, installed
  <1>7. to \in PrefixStates
    <2>1. ASSUME NEW p \in to, NEW q \in to, p.name = q.name PROVE p = q
      <3>1. CASE p \in removed /\ q \in removed
        BY <1>5, <2>1, <3>1
      <3>2. CASE p \in prefix \ installed /\ q \in prefix \ installed
        BY <1>3, <2>1, <3>2
      <3>3. CASE p \in removed /\ q \in prefix \ installed
        BY <1>6, <2>1, <3>3
      <3>4. CASE q \in removed /\ p \in prefix \ installed
        BY <1>6, <2>1, <3>4
      <3> QED
        BY <3>1, <3>2, <3>3, <3>4
    <2>2. to \subseteq Package
      BY <1>2, <1>3
    <2> QED
      BY <2>1, <2>2 DEF PrefixStates
  <1> QED
    BY <1>1, <1>2, <1>7

(* What every command does to the history.                                 *)
LEMMA TransactionRecorded ==
    ASSUME HistoryInv, NEW to \in PrefixStates, NEW update \in SUBSET MatchSpec,
           NEW remove \in SUBSET PackageNames, Transact(to, update, remove),
           wanted' \subseteq (wanted \ remove) \cup NamesOf(update)
    PROVE  HistoryInv'
  <1> DEFINE written == [unlink |-> prefix \ to, link |-> to \ prefix,
                         update |-> update, remove |-> remove]
  <1>1. /\ prefix' = to /\ entries' = Append(entries, written)
        /\ past' = IF IsRevision(written) THEN Append(past, to) ELSE past
    BY DEF Transact
  <1>2. /\ prefix \in PrefixStates /\ entries \in Seq(Entry) /\ past \in Seq(PrefixStates)
        /\ wanted \in SUBSET PackageNames
    BY DEF HistoryInv, HistoryTypeOK
  <1>3. written \in Entry
    BY <1>2 DEF Entry, PrefixStates
  <1>4. IsRevision(written) <=> to # prefix
    BY DEF IsRevision
  <1>5. /\ written.unlink = prefix \ to /\ written.link = to \ prefix
        /\ written.update = update /\ written.remove = remove
    OBVIOUS
  <1> HIDE DEF written
  <1>6. /\ Revisions \in Seq(Entry)
        /\ Revisions' = IF IsRevision(written) THEN Append(Revisions, written) ELSE Revisions
        /\ RequestedSpecs \in SUBSET MatchSpec
        /\ RequestedSpecs' = Read(RequestedSpecs, written)
    BY <1>1, <1>2, <1>3, RevisionsAppend, SpecsAppend DEF Revisions, RequestedSpecs
  <1>7. /\ Len(entries) \in Nat /\ Len(entries') = Len(entries) + 1
        /\ entries'[Len(entries) + 1] = written
        /\ \A i \in 1..Len(entries) : entries'[i] = entries[i]
    BY <1>1, <1>2, <1>3, AppendProperties, LenProperties
  <1>8. HistoryTypeOK'
    <2>1. NamesOf(update) \subseteq PackageNames
      BY DEF NamesOf, MatchSpec
    <2>2. Append(entries, written) \in Seq(Entry) /\ Append(past, to) \in Seq(PrefixStates)
      BY <1>2, <1>3, AppendProperties
    <2> QED
      BY <1>1, <1>2, <2>1, <2>2 DEF HistoryTypeOK
  <1>9. Recorded'
    <2>1. Recorded
      BY DEF HistoryInv
    <2>2. CASE IsRevision(written)
      <3>1. /\ past' = Append(past, to) /\ Len(past') = Len(past) + 1 /\ Len(past) \in Nat
            /\ past'[Len(past) + 1] = to /\ \A i \in 1..Len(past) : past'[i] = past[i]
        BY <1>1, <1>2, <2>2, AppendProperties, LenProperties
      <3>2. /\ Revisions' = Append(Revisions, written) /\ Len(Revisions') = Len(Revisions) + 1
            /\ Len(Revisions) \in Nat /\ Revisions'[Len(Revisions) + 1] = written
            /\ \A i \in 1..Len(Revisions) : Revisions'[i] = Revisions[i]
        BY <1>3, <1>6, <2>2, AppendProperties, LenProperties
      <3>3. /\ Len(past) = Len(Revisions) + 1 /\ past[Len(past)] = prefix
            /\ \A r \in 1..Len(Revisions) :
                   /\ Revisions[r].unlink = past[r] \ past[r + 1]
                   /\ Revisions[r].link = past[r + 1] \ past[r]
        BY <2>1 DEF Recorded
      <3>4. ASSUME NEW r \in 1..Len(Revisions')
            PROVE  /\ Revisions'[r].unlink = past'[r] \ past'[r + 1]
                   /\ Revisions'[r].link = past'[r + 1] \ past'[r]
        <4>1. CASE r = Len(Revisions) + 1
          <5>1. Revisions'[r] = written /\ past'[r + 1] = to /\ past'[r] = prefix
            <6>1. r = Len(past) /\ r \in 1..Len(past)
              BY <3>1, <3>2, <3>3, <4>1
            <6> QED
              BY <3>1, <3>2, <3>3, <4>1, <6>1
          <5> QED
            BY <1>5, <5>1
        <4>2. CASE r # Len(Revisions) + 1
          <5>1. r \in 1..Len(Revisions) /\ r \in 1..Len(past) /\ r + 1 \in 1..Len(past)
            BY <3>1, <3>2, <3>3, <4>2
          <5>2. Revisions'[r] = Revisions[r] /\ past'[r] = past[r] /\ past'[r + 1] = past[r + 1]
            BY <3>1, <3>2, <5>1
          <5> QED
            BY <3>3, <5>1, <5>2
        <4> QED
          BY <4>1, <4>2
      <3> QED
        BY <1>1, <3>1, <3>2, <3>3, <3>4 DEF Recorded
    <2>3. CASE ~IsRevision(written)
      BY <1>1, <1>4, <1>6, <2>1, <2>3 DEF Recorded
    <2> QED
      BY <2>2, <2>3
  <1>10. EverLinked'
    <2>1. ASSUME NEW k \in 1..Len(past), NEW p \in past[k]
          PROVE  \E i \in 1..Len(entries') : p \in entries'[i].link
      <3>1. PICK i \in 1..Len(entries) : p \in entries[i].link
        BY DEF HistoryInv, EverLinked
      <3>2. i \in 1..Len(entries') /\ entries'[i] = entries[i]
        BY <1>7
      <3> QED
        BY <3>1, <3>2
    <2>2. CASE ~IsRevision(written)
      BY <1>1, <2>1, <2>2 DEF EverLinked
    <2>3. CASE IsRevision(written)
      <3>1. /\ Len(past') = Len(past) + 1 /\ Len(past) \in Nat
            /\ past'[Len(past) + 1] = to /\ \A i \in 1..Len(past) : past'[i] = past[i]
        BY <1>1, <1>2, <2>3, AppendProperties, LenProperties
      <3>2. Len(past) \in 1..Len(past) /\ past[Len(past)] = prefix
        <4>1. Len(past) = Len(Revisions) + 1 /\ past[Len(past)] = prefix /\ Len(Revisions) \in Nat
          BY <1>6, LenProperties DEF HistoryInv, Recorded
        <4> QED
          BY <4>1
      <3>3. ASSUME NEW p \in to PROVE \E i \in 1..Len(entries') : p \in entries'[i].link
        <4>1. CASE p \in prefix
          BY <2>1, <3>2, <4>1
        <4>2. CASE p \notin prefix
          <5>1. p \in entries'[Len(entries) + 1].link /\ Len(entries) + 1 \in 1..Len(entries')
            BY <1>5, <1>7, <4>2
          <5> QED
            BY <5>1
        <4> QED
          BY <4>1, <4>2
      <3>4. ASSUME NEW k \in 1..Len(past'), NEW p \in past'[k]
            PROVE  \E i \in 1..Len(entries') : p \in entries'[i].link
        <4>1. CASE k = Len(past) + 1
          BY <3>1, <3>3, <4>1
        <4>2. CASE k # Len(past) + 1
          <5>1. k \in 1..Len(past) /\ past'[k] = past[k]
            BY <3>1, <4>2
          <5> QED
            BY <2>1, <5>1
        <4> QED
          BY <4>1, <4>2
      <3> QED
        BY <3>4 DEF EverLinked
    <2> QED
      BY <2>2, <2>3
  <1>11. Asked'
    <2>1. ASSUME NEW n \in wanted' PROVE n \in NamesOf(RequestedSpecs')
      <3>1. CASE n \in NamesOf(update)
        BY <1>5, <1>6, <3>1 DEF Read, NamesOf
      <3>2. CASE n \notin NamesOf(update)
        <4>1. n \in wanted /\ n \notin remove
          BY <3>2
        <4>2. PICK s \in RequestedSpecs : s.name = n
          BY <4>1 DEF HistoryInv, Asked, NamesOf
        <4>3. s \in RequestedSpecs'
          BY <1>5, <1>6, <3>2, <4>1, <4>2 DEF Read
        <4> QED
          BY <4>2, <4>3 DEF NamesOf
      <3> QED
        BY <3>1, <3>2
    <2> QED
      BY <2>1 DEF Asked
  <1>12. LastAsked'
    <2>1. ASSUME NEW s \in RequestedSpecs'
          PROVE  \E i \in 1..Len(entries') :
                     /\ s \in entries'[i].update
                     /\ \A j \in (i + 1)..Len(entries') : s.name \notin NamesOf(entries'[j].update)
      <3>1. CASE s \in update
        <4>1. /\ Len(entries) + 1 \in 1..Len(entries') /\ s \in entries'[Len(entries) + 1].update
              /\ ((Len(entries) + 1) + 1)..Len(entries') = {}
          BY <1>5, <1>7, <3>1
        <4> QED
          BY <4>1
      <3>2. CASE s \notin update
        <4>1. s \in RequestedSpecs /\ s.name \notin NamesOf(update)
          BY <1>5, <1>6, <3>2 DEF Read
        <4>2. PICK i \in 1..Len(entries) :
                  /\ s \in entries[i].update
                  /\ \A j \in (i + 1)..Len(entries) : s.name \notin NamesOf(entries[j].update)
          BY <4>1 DEF HistoryInv, LastAsked
        <4>3. i \in 1..Len(entries') /\ s \in entries'[i].update
          BY <1>7, <4>2
        <4>4. ASSUME NEW j \in (i + 1)..Len(entries') PROVE s.name \notin NamesOf(entries'[j].update)
          <5>1. CASE j = Len(entries) + 1
            BY <1>5, <1>7, <4>1, <5>1
          <5>2. CASE j # Len(entries) + 1
            <6>1. j \in (i + 1)..Len(entries) /\ j \in 1..Len(entries)
              BY <1>7, <5>2
            <6>2. entries'[j] = entries[j]
              BY <1>7, <6>1
            <6> QED
              BY <4>2, <6>1, <6>2
          <5> QED
            BY <5>1, <5>2
        <4> QED
          BY <4>3, <4>4
      <3> QED
        BY <3>1, <3>2
    <2> QED
      BY <2>1 DEF LastAsked
  <1> QED
    BY <1>8, <1>9, <1>10, <1>11, <1>12 DEF HistoryInv

LEMMA InitialHistory == HistoryInit => HistoryInv
  <1> SUFFICES ASSUME HistoryInit PROVE HistoryInv
    OBVIOUS
  <1>1. prefix = {} /\ entries = <<>> /\ past = <<{}>> /\ wanted = {}
    BY DEF HistoryInit
  <1>2. entries \in Seq(Entry) /\ Len(entries) = 0
    BY <1>1
  <1>3. Revisions = <<>>
    <2>1. PICK run : run \in [0..Len(entries) -> Seq(Entry)] /\ RevisionsRun(entries, run)
      BY <1>2, RevisionsRunExists
    <2>2. run[0] = <<>>
      BY <1>2, <2>1 DEF RevisionsRun
    <2> QED
      BY <1>2, <2>1, <2>2, RevisionsRead DEF Revisions
  <1>4. RequestedSpecs = {}
    <2>1. PICK run : run \in [0..Len(entries) -> SUBSET MatchSpec] /\ SpecsRun(entries, run)
      BY <1>2, SpecsRunExists
    <2>2. run[0] = {}
      BY <1>2, <2>1 DEF SpecsRun
    <2> QED
      BY <1>2, <2>1, <2>2, SpecsRead DEF RequestedSpecs
  <1>5. {} \in PrefixStates
    BY DEF PrefixStates
  <1>6. past \in Seq(PrefixStates) /\ Len(past) = 1 /\ past[1] = {}
    BY <1>1, <1>5
  <1>7. HistoryTypeOK
    BY <1>1, <1>2, <1>5, <1>6 DEF HistoryTypeOK
  <1>8. Recorded
    BY <1>1, <1>3, <1>6 DEF Recorded
  <1>9. EverLinked
    <2>1. \A k \in 1..Len(past) : past[k] = {}
      BY <1>6
    <2> QED
      BY <2>1 DEF EverLinked
  <1> QED
    BY <1>1, <1>4, <1>7, <1>8, <1>9 DEF HistoryInv, Asked, LastAsked

LEMMA HistoryStep == HistoryInv /\ [HistoryNext]_historyVars => HistoryInv'
  <1> SUFFICES ASSUME HistoryInv, [HistoryNext]_historyVars PROVE HistoryInv'
    OBVIOUS
  <1>1. prefix \in PrefixStates /\ prefix \subseteq Package /\ wanted \subseteq PackageNames
    BY DEF HistoryInv, HistoryTypeOK, PrefixStates
  <1>2. \A S \in SUBSET Package : NamesOf(S) \subseteq PackageNames
    BY DEF NamesOf, Package
  <1>3. /\ Revisions \in Seq(Entry) /\ RequestedSpecs \subseteq MatchSpec
        /\ NamesOf(RequestedSpecs) \subseteq PackageNames
    <2>1. [unlink |-> {}, link |-> {}, update |-> {}, remove |-> {}] \in Entry
      BY DEF Entry
    <2>2. entries \in Seq(Entry)
      BY DEF HistoryInv, HistoryTypeOK
    <2>3. Revisions \in Seq(Entry) /\ RequestedSpecs \in SUBSET MatchSpec
      BY <2>1, <2>2, RevisionsAppend, SpecsAppend DEF Revisions, RequestedSpecs
    <2> QED
      BY <2>3 DEF NamesOf, MatchSpec
  <1>5. ASSUME NEW S \in SUBSET Package
        PROVE  /\ {ExplicitSpec(p) : p \in S} \in SUBSET MatchSpec
               /\ NamesOf({ExplicitSpec(p) : p \in S}) = NamesOf(S)
    BY DEF ExplicitSpec, MatchSpec, NamesOf, Package
  <1>6. CASE InstallSpecs
    <2>1. PICK to \in PrefixStates, specs \in SUBSET MatchSpec :
              Transact(to, specs, {}) /\ wanted' = wanted \cup NamesOf(specs)
      BY <1>6 DEF InstallSpecs, SpecLists
    <2>2. {} \in SUBSET PackageNames /\ wanted' \subseteq (wanted \ {}) \cup NamesOf(specs)
      BY <2>1
    <2> QED
      BY <2>1, <2>2, TransactionRecorded
  <1>7. CASE UpdateSpecs
    <2>1. PICK to \in PrefixStates, specs \in SUBSET MatchSpec :
              Transact(to, specs, NamesOf(specs)) /\ wanted' = wanted \cup NamesOf(specs)
      BY <1>7 DEF UpdateSpecs, SpecLists
    <2>2. /\ NamesOf(specs) \in SUBSET PackageNames
          /\ wanted' \subseteq (wanted \ NamesOf(specs)) \cup NamesOf(specs)
      BY <2>1 DEF NamesOf, MatchSpec
    <2> QED
      BY <2>1, <2>2, TransactionRecorded
  <1>8. CASE EnvUpdate
    <2> DEFINE LeftOut(specs) == NamesOf(RequestedSpecs) \ NamesOf(specs)
    <2>1. PICK to \in PrefixStates, specs \in SUBSET MatchSpec :
              /\ Transact(to, specs, LeftOut(specs))
              /\ wanted' = (wanted \ LeftOut(specs)) \cup NamesOf(specs)
      BY <1>8 DEF EnvUpdate, SpecLists
    <2>2. LeftOut(specs) \in SUBSET PackageNames
      BY <1>3
    <2> QED
      BY <2>1, <2>2, TransactionRecorded
  <1>9. CASE RemoveSpecs
    <2>1. PICK to \in SUBSET prefix, names \in SUBSET NamesOf(prefix) :
              Transact(to, {}, names) /\ wanted' = wanted \ names
      BY <1>9 DEF RemoveSpecs
    <2>2. to \in PrefixStates
      BY <1>1 DEF PrefixStates
    <2>3. /\ names \in SUBSET PackageNames /\ {} \in SUBSET MatchSpec
          /\ wanted' \subseteq (wanted \ names) \cup NamesOf({})
      BY <1>1, <1>2, <2>1
    <2> QED
      BY <2>1, <2>2, <2>3, TransactionRecorded
  <1>10. CASE InstallExplicit
    <2>1. PICK to \in PrefixStates :
              /\ Transact(to, {ExplicitSpec(p) : p \in to \ prefix}, {})
              /\ wanted' = wanted \cup NamesOf(to \ prefix)
      BY <1>10 DEF InstallExplicit
    <2>2. to \ prefix \in SUBSET Package /\ {} \in SUBSET PackageNames
      BY DEF PrefixStates
    <2>3. /\ {ExplicitSpec(p) : p \in to \ prefix} \in SUBSET MatchSpec
          /\ wanted' \subseteq (wanted \ {}) \cup NamesOf({ExplicitSpec(p) : p \in to \ prefix})
      BY <1>5, <2>1, <2>2
    <2> QED
      BY <2>1, <2>2, <2>3, TransactionRecorded
  <1>11. CASE InstallLockfile \/ \E prune \in BOOLEAN : UpdateAll(prune)
    <2>1. PICK to \in PrefixStates, specs \in SUBSET MatchSpec :
              Transact(to, specs, {}) /\ wanted' = wanted \cup NamesOf(specs)
      <3>1. CASE InstallLockfile
        <4>1. PICK to \in PrefixStates : Transact(to, {}, {}) /\ wanted' = wanted
          BY <3>1 DEF InstallLockfile
        <4>2. {} \in SUBSET MatchSpec /\ NamesOf({}) = {}
          BY DEF NamesOf
        <4> QED
          BY <4>1, <4>2
      <3>2. CASE \E prune \in BOOLEAN : UpdateAll(prune)
        BY <3>2 DEF UpdateAll, SpecLists
      <3> QED
        BY <1>11, <3>1, <3>2
    <2>2. {} \in SUBSET PackageNames /\ wanted' \subseteq (wanted \ {}) \cup NamesOf(specs)
      BY <2>1
    <2> QED
      BY <2>1, <2>2, TransactionRecorded
  <1>12. ASSUME NEW target \in 0..MaxEntries, InstallRevision(target) PROVE HistoryInv'
    <2> DEFINE removed == FromRevision(target).removed
               installed == FromRevision(target).installed
    <2>1. /\ Transact((prefix \ installed) \cup removed,
                      {ExplicitSpec(p) : p \in removed}, NamesOf(installed))
          /\ wanted' = wanted \ (NamesOf(installed) \ NamesOf(removed))
      BY <1>12 DEF InstallRevision
    <2>2. target \in Nat
      BY HistoryAssumption
    <2>3. /\ removed \in SUBSET Package /\ installed \in SUBSET Package
          /\ (prefix \ installed) \cup removed \in PrefixStates
      BY <1>3, <2>2, RevisionInstallable DEF HistoryInv
    <2> HIDE DEF removed, installed
    <2>4. /\ {ExplicitSpec(p) : p \in removed} \in SUBSET MatchSpec
          /\ NamesOf(installed) \in SUBSET PackageNames
          /\ wanted' \subseteq (wanted \ NamesOf(installed))
                                \cup NamesOf({ExplicitSpec(p) : p \in removed})
      BY <1>2, <1>5, <2>1, <2>3
    <2> QED
      BY <2>1, <2>3, <2>4, TransactionRecorded
  <1>13. CASE UNCHANGED historyVars
    BY <1>13 DEF historyVars, HistoryInv, HistoryTypeOK, Recorded, EverLinked, Asked, LastAsked,
                Revisions, RequestedSpecs
  <1> QED
    BY <1>6, <1>7, <1>8, <1>9, <1>10, <1>11, <1>12, <1>13 DEF HistoryNext

LEMMA HistoryInvariant == HistorySpec => []HistoryInv
  BY InitialHistory, HistoryStep, PTL DEF HistorySpec

(* The prefix and its history keep their types: in particular no way back  *)
(* to a revision leaves two packages of a name (PackageDiff::              *)
(* from_revision() and install_revision()).                                *)
THEOREM HistoryTypeCorrect == HistorySpec => []HistoryTypeOK
  <1>1. HistoryInv => HistoryTypeOK
    BY DEF HistoryInv
  <1> QED
    BY <1>1, HistoryInvariant, PTL

(* If no version of a name was rebuilt, its packages are told apart by     *)
(* their versions.                                                         *)
LEMMA VersionsTell ==
    ASSUME HistoryInv, NEW name, ~Rebuilt(name), NEW p, NEW q,
           \E i \in 1..Len(past) : p \in past[i], \E i \in 1..Len(past) : q \in past[i],
           p.name = name, q.name = name, SameVersion(p, q)
    PROVE  p = q
  <1>1. PICK i \in 1..Len(entries) : p \in entries[i].link
    BY DEF HistoryInv, EverLinked
  <1>2. PICK j \in 1..Len(entries) : q \in entries[j].link
    BY DEF HistoryInv, EverLinked
  <1>3. entries \in Seq(Entry) /\ DOMAIN entries = 1..Len(entries)
    BY LenProperties DEF HistoryInv, HistoryTypeOK
  <1>4. entries[i] \in Entry /\ entries[j] \in Entry
    BY <1>3, ElementOfSeq
  <1>5. p \in Package /\ q \in Package
    BY <1>1, <1>2, <1>4 DEF Entry
  <1>6. p.build = q.build
    BY <1>1, <1>2, <1>3 DEF Rebuilt, SameVersion
  <1> QED
    BY <1>5, <1>6 DEF Package, SameVersion

LEMMA RestoredNow == HistoryInv => RevisionRestored
  <1> SUFFICES ASSUME HistoryInv, NEW target, target \in 0..(Len(Revisions) - 1),
                      NEW name, name \in PackageNames, ~Rebuilt(name)
               PROVE  DiffRestores(target, name)
    BY DEF RevisionRestored
  <1>1. Revisions \in Seq(Entry) /\ Len(Revisions) \in Nat
    <2>1. [unlink |-> {}, link |-> {}, update |-> {}, remove |-> {}] \in Entry
      BY DEF Entry
    <2>2. Revisions \in Seq(Entry)
      BY <2>1, RevisionsAppend DEF Revisions, HistoryInv, HistoryTypeOK
    <2> QED
      BY <2>2, LenProperties
  <1>2. /\ Len(past) = Len(Revisions) + 1 /\ past \in Seq(PrefixStates) /\ HistoryTypeOK /\ Recorded
        /\ prefix \in PrefixStates
    BY DEF HistoryInv, Recorded, HistoryTypeOK
  <1>3. target \in Nat /\ target + 2 <= Len(past) /\ target + 2 \in 1..Len(past)
    BY <1>1, <1>2
  <1>5. PICK n \in Nat : \E c \in Course(n) : Went(n, c, target, name)
    BY <1>1, <1>2, <1>3, CourseFound
  <1>6. PICK c \in Course(n) : Went(n, c, target, name)
    BY <1>5
  <1> DEFINE d == DiffOf(target, name)
             x == Of(prefix, name)
             then == past[target + 2]
             first == Of(then, name)
  <1>4. then \in PrefixStates
    BY <1>2, <1>3, ElementOfSeq
  <1> HIDE DEF then
  <1>7. /\ Settled(d, n, c, n) /\ c[n] = x /\ c[0] = first
        /\ \A k \in 0..n : c[k] # Nothing =>
               c[k].name = name /\ \E i \in 1..Len(past) : c[k] \in past[i]
    BY <1>3, <1>6 DEF Went, then
  <1> HIDE DEF d, x, first
  <1>8. Known(d, n, c) /\ Balanced(d, first, x) /\ 0 \in 0..n /\ n \in 0..n
    BY <1>7 DEF Settled
  <1>9. ASSUME NEW k \in 0..n, SameVersion(c[k], first) PROVE c[k] = first
    BY <1>7, <1>8, <1>9, VersionsTell DEF SameVersion
  <1>10. SameVersion(d.removed, first) => d.removed = first
    BY <1>8, <1>9 DEF Known, Seen, SameVersion
  <1>11. SameVersion(first, x) => x = first
    BY <1>7, <1>8, <1>9 DEF SameVersion
  <1>12. /\ x = Nothing => d.installed = Nothing /\ d.removed = first
         /\ x # Nothing => \/ d.removed = Nothing /\ d.installed = Nothing /\ x = first
                           \/ d.installed = x /\ d.removed = first /\ x # first
    BY <1>8, <1>10, <1>11 DEF Balanced, Gone, Back, SameVersion
  <1>13. /\ x # Nothing => x \in prefix /\ x.name = name
         /\ \A p \in prefix : p.name = name => p = x
         /\ Nothing \notin prefix
    BY <1>2, HistoryAssumption, OfIs DEF x, PrefixStates
  <1>14. /\ first # Nothing => first \in then /\ first.name = name
         /\ \A p \in then : p.name = name => p = first
         /\ Nothing \notin then
    BY <1>4, HistoryAssumption, OfIs DEF first, PrefixStates
  <1> DEFINE undone == (prefix \ {d.installed}) \cup ({d.removed} \ {Nothing})
  <1>15. {p \in undone : p.name = name} = {p \in then : p.name = name}
    <2>1. {p \in then : p.name = name} = {first} \ {Nothing}
      BY <1>14
    <2>2. {p \in undone : p.name = name} = {first} \ {Nothing}
      <3>1. CASE x = Nothing
        BY <1>12, <1>13, <1>14, <3>1
      <3>2. CASE x # Nothing /\ d.removed = Nothing /\ d.installed = Nothing /\ x = first
        BY <1>13, <1>14, <3>2
      <3>3. CASE x # Nothing /\ d.installed = x /\ d.removed = first /\ x # first
        BY <1>13, <1>14, <3>3
      <3> QED
        BY <1>12, <3>1, <3>2, <3>3
    <2> QED
      BY <2>1, <2>2
  <1>16. d.installed # Nothing => d.installed \in prefix
    BY <1>12, <1>13
  <1>17. d.removed \notin prefix
    BY <1>12, <1>13, <1>14
  <1> QED
    BY <1>15, <1>16, <1>17 DEF DiffRestores, d, then

(* "install --revision N" brings back exactly the packages of revision N   *)
(* of a name, after any number of installations, removals, updates and     *)
(* rollbacks, if none of its versions was rebuilt (PackageDiff::           *)
(* from_revision()).                                                       *)
THEOREM RevisionsRestore == HistorySpec => []RevisionRestored
  BY RestoredNow, HistoryInvariant, PTL

(* "update --all --prune" spares whatever the user has asked for and that  *)
(* still matches (get_requested_specs_map() and create_update_request()).  *)
THEOREM PruningSpares == HistorySpec => PruneSparesRequested
  <1> DEFINE Spared ==
        UpdateAll(TRUE) =>
            \A n \in wanted \cap NamesOf(prefix) : StillMatches(n) => n \in NamesOf(prefix')
  <1>1. HistoryInv => Spared
    <2> SUFFICES ASSUME HistoryInv, UpdateAll(TRUE),
                        NEW n \in wanted \cap NamesOf(prefix), StillMatches(n)
                 PROVE  n \in NamesOf(prefix')
      OBVIOUS
    <2>1. PICK to \in PrefixStates :
              /\ \A p \in prefix : (\E s \in RequestedSpecs : Matches(s, p)) => p.name \in NamesOf(to)
              /\ prefix' = to
      BY DEF UpdateAll, Transact
    <2>2. PICK s \in RequestedSpecs : s.name = n
      BY DEF HistoryInv, Asked, NamesOf
    <2>3. PICK i \in 1..Len(entries) :
              /\ s \in entries[i].update
              /\ \A j \in (i + 1)..Len(entries) : s.name \notin NamesOf(entries[j].update)
      BY <2>2 DEF HistoryInv, LastAsked
    <2>4. DOMAIN entries = 1..Len(entries)
      BY LenProperties DEF HistoryInv, HistoryTypeOK
    <2>5. PICK p \in prefix : Matches(s, p)
      BY <2>2, <2>3, <2>4 DEF StillMatches
    <2>6. p.name \in NamesOf(to) /\ p.name = n
      BY <2>1, <2>2, <2>5 DEF Matches
    <2> QED
      BY <2>1, <2>6
  <1>2. HistoryInv => [Spared]_historyVars
    BY <1>1
  <1> HIDE DEF Spared
  <1>3. HistorySpec => [][Spared]_historyVars
    BY <1>2, HistoryInvariant, PTL
  <1> QED
    BY <1>3 DEF PruneSparesRequested, Spared
=============================================================================
