-------------------------- MODULE PackageFetchProofs --------------------------
(***************************************************************************)
(* The package caches implement PackageStore for any packages, caches and  *)
(* number of extraction threads.  Linking finds every package after a      *)
(* fetch that succeeded, but for those an extracting subprocess left       *)
(* unfinished and those looked up under two names.                         *)
(***************************************************************************)
EXTENDS PackageFetch, TLAPS

(* The package still has to be extracted or cleared.                       *)
Working(p) ==
    need[p] \in {"extract", "download"} /\ task[p] \notin {"extracted", "collected"}

Available(p) == \E c \in Caches : Accepted(c, p)

(* No cache has a package that is worked on, and what an extraction finds  *)
(* on its way is never taken for the whole.                                *)
WorkInv ==
    \A p \in Packages :
      /\ Working(p) => \A c \in Caches : ~Accepted(c, p)
      /\ task[p] \in {"extracting", "recording"} => record[<<Target, p>>] = "none"
      /\ task[p] = "extracting" => content[<<Target, p>>] \in {"absent", "partial"}
      /\ task[p] = "recording" =>
           \/ content[<<Target, p>>] = "whole"
           \/ content[<<Target, p>>] \in {"partial", "short"} /\ p \in died

(* Only a tarball that was validated, or cannot be, is extracted.          *)
SourceInv ==
    \A p \in Packages :
      /\ p \notin Checked => \A c \in Caches : tarball[<<c, p>>] # "wrong"
      /\ task[p] # "none" => need[p] \in {"extract", "download"}
      /\ task[p] = "queued" => need[p] = "download"
      /\ need[p] = "download" => source[p] = Target
      /\ need[p] = "extract" \/ task[p] \in {"waiting", "clearing", "extracting"} =>
           tarball[<<source[p], p>>] # "wrong"

(* The memo tables are right as long as the fetchers are being made, and   *)
(* what they say is there remains there.                                   *)
MemoInv ==
    \A p \in Packages :
      /\ dirFound[p] # NoCache => Accepted(dirFound[p], p)
      /\ tarFound[p] # NoCache /\ need[p] = "unplanned" => ValidTarball(tarFound[p], p)
      /\ \A c \in Caches :
           /\ dirMemo[<<c, p>>] = "yes" => Accepted(c, p)
           /\ need[p] = "unplanned" =>
                /\ dirMemo[<<c, p>>] = "no" => ~Accepted(c, p)
                /\ tarMemo[<<c, p>>] = "yes" => ValidTarball(c, p)

(* Where a fetch that succeeds gets its packages from.                     *)
ReadyInv ==
    /\ \A p \in Packages :
         /\ need[p] = "nothing" => Available(p)
         /\ task[p] = "extracted" \/ (task[p] = "collected" /\ allValid) =>
              Available(p) \/ p \in died
    /\ phase # "plan" => \A p \in Packages : need[p] # "unplanned"
    /\ phase = "plan" => \A p \in Packages : task[p] = "none"
    /\ phase \in {"plan", "fetch", "collect"} => result = "none"
    /\ phase = "link" => result = "true"

IInv == TypeOK /\ UsableIsWhole /\ WorkInv /\ SourceInv /\ MemoInv /\ ReadyInv

-----------------------------------------------------------------------------
LEMMA Constants ==
    /\ Target \in Caches /\ NoCache \notin Caches
    /\ \A c \in Caches, p \in Packages : <<c, p>> \in Places
  BY CachesAssumption DEF Caches, NoCache, Places

LEMMA FirstHit ==
  ASSUME NEW c, NEW hits, IsFirst(c, hits)
  PROVE  c \in hits \/ (c = NoCache /\ hits = {})
  BY DEF IsFirst

LEMMA EachPlace ==
  ASSUME NEW x \in Places
  PROVE  \E c \in Caches, p \in Packages : x = <<c, p>>
  BY DEF Places

LEMMA PlaceChanged ==
  ASSUME NEW S, NEW f \in [Places -> S], NEW c \in Caches, NEW p \in Packages, NEW v
  PROVE  \A d \in Caches, q \in Packages :
           [f EXCEPT ![<<c, p>>] = v][<<d, q>>] = IF d = c /\ q = p THEN v ELSE f[<<d, q>>]
  BY Constants

LEMMA InitialInvariant == Init => IInv
<1> SUFFICES ASSUME Init PROVE IInv
  OBVIOUS
<1> USE Constants
<1>1. PICK left \in [Places -> UNION {Before[x] : x \in Places}] :
        /\ \A x \in Places : left[x] \in Before[x]
        /\ tarball = [x \in Places |-> left[x][1]]
        /\ content = [x \in Places |-> left[x][2]]
        /\ record = [x \in Places |-> left[x][3]]
  BY DEF Init
<1>2. \A c \in Caches, p \in Packages :
        LET x == <<c, p>> IN
        /\ tarball[x] \in Tarballs /\ content[x] \in Contents /\ record[x] \in Records
        /\ record[x] # "none" => content[x] # "absent"
        /\ record[x] = "ours" => content[x] = "whole"
        /\ p \notin Checked => tarball[x] # "wrong"
  <2> SUFFICES ASSUME NEW c \in Caches, NEW p \in Packages, NEW x, x = <<c, p>>
               PROVE  /\ tarball[x] \in Tarballs /\ content[x] \in Contents
                      /\ record[x] \in Records
                      /\ record[x] # "none" => content[x] # "absent"
                      /\ record[x] = "ours" => content[x] = "whole"
                      /\ p \notin Checked => tarball[x] # "wrong"
    OBVIOUS
  <2>1. x \in Places /\ left[x] \in Settled(p)
    BY <1>1, BeforeAssumption
  <2>2. tarball[x] = left[x][1] /\ content[x] = left[x][2] /\ record[x] = left[x][3]
    BY <1>1, <2>1
  <2> QED
    BY <2>1, <2>2 DEF Settled, Tarballs, Contents, Records
<1>3. \A x \in Places :
        /\ tarball[x] \in Tarballs /\ content[x] \in Contents /\ record[x] \in Records
        /\ record[x] # "none" => content[x] # "absent"
        /\ record[x] = "ours" => content[x] = "whole"
  BY <1>2, EachPlace
<1>4. /\ tarball \in [Places -> Tarballs]
      /\ content \in [Places -> Contents]
      /\ record \in [Places -> Records]
  <2>1. tarball \in [Places -> Tarballs]
    BY <1>1, <1>3
  <2>2. content \in [Places -> Contents]
    BY <1>1, <1>3
  <2>3. record \in [Places -> Records]
    BY <1>1, <1>3
  <2> QED
    BY <2>1, <2>2, <2>3
<1>5. TypeOK
  <2>1. failures \in 0..MaxFailures /\ runs \in 0..MaxRuns
    BY BoundsAssumption DEF Init
  <2>2. /\ dirMemo \in [Places -> Memos] /\ tarMemo \in [Places -> Memos]
        /\ dirFound \in [Packages -> Caches \cup {NoCache}]
        /\ tarFound \in [Packages -> Caches \cup {NoCache}]
        /\ source \in [Packages -> Caches \cup {NoCache}]
        /\ need \in [Packages -> Needs] /\ task \in [Packages -> Tasks]
    BY DEF Init, Memos, Needs, Tasks
  <2> QED
    BY <1>3, <1>4, <2>1, <2>2 DEF Init, TypeOK
<1>6. UsableIsWhole
  BY <1>3 DEF UsableIsWhole
<1> QED
  BY <1>2, <1>5, <1>6 DEF Init, IInv, WorkInv, SourceInv, MemoInv, ReadyInv, Working

-----------------------------------------------------------------------------
(* Looking packages up.                                                    *)

(* A directory that is found is one, and one that no cache has when the    *)
(* fetcher is made is in none.                                             *)
LEMMA DirFound ==
  ASSUME IInv, NEW p \in Packages, NEW c \in Caches \cup {NoCache}, DirLookup(p, c)
  PROVE  /\ c # NoCache => Accepted(c, p)
         /\ c = NoCache /\ need[p] = "unplanned" => \A d \in Caches : ~Accepted(d, p)
<1>1. /\ MemoInv /\ UsableIsWhole
      /\ \A d \in Caches : dirMemo[<<d, p>>] \in {"unknown", "yes", "no"}
  BY Constants DEF IInv, TypeOK, Memos
<1>2. \A d \in Caches : d \in DirHits(p) => Accepted(d, p)
  BY <1>1 DEF DirHits, MemoInv
<1>3. need[p] = "unplanned" => \A d \in Caches : d \notin DirHits(p) => ~Accepted(d, p)
  BY <1>1 DEF DirHits, MemoInv
<1>4. CASE dirFound[p] # NoCache
  BY <1>1, <1>4 DEF DirLookup, MemoInv
<1>5. CASE dirFound[p] = NoCache
  <2>1. c \in DirHits(p) \/ (c = NoCache /\ DirHits(p) = {})
    BY <1>5, FirstHit DEF DirLookup
  <2>2. c # NoCache => c \in Caches
    OBVIOUS
  <2> QED
    BY <1>2, <1>3, <2>1, <2>2, Constants DEF DirHits
<1> QED
  BY <1>4, <1>5

LEMMA TarFound ==
  ASSUME IInv, NEW p \in Packages, need[p] = "unplanned",
         NEW t \in Caches \cup {NoCache}, TarLookup(p, t), t # NoCache
  PROVE  ValidTarball(t, p)
<1>1. MemoInv
  BY DEF IInv
<1>2. CASE tarFound[p] # NoCache
  BY <1>1, <1>2 DEF TarLookup, MemoInv
<1>3. CASE tarFound[p] = NoCache
  <2>1. t \in TarHits(p)
    BY <1>3, FirstHit DEF TarLookup
  <2> QED
    BY <1>1, <2>1 DEF TarHits, MemoInv
<1> QED
  BY <1>2, <1>3

LEMMA MemosRight ==
  ASSUME IInv, NEW p \in Packages, NEW a
  PROVE  /\ DirMemos(p, a) \in [Places -> Memos] /\ TarMemos(p, a) \in [Places -> Memos]
         /\ \A c \in Caches, q \in Packages :
              /\ DirMemos(p, a)[<<c, q>>] = "yes" => Accepted(c, q)
              /\ need[q] = "unplanned" =>
                   /\ DirMemos(p, a)[<<c, q>>] = "no" => ~Accepted(c, q)
                   /\ TarMemos(p, a)[<<c, q>>] = "yes" => ValidTarball(c, q)
<1>1. MemoInv /\ UsableIsWhole /\ dirMemo \in [Places -> Memos] /\ tarMemo \in [Places -> Memos]
  BY DEF IInv, TypeOK
<1>2. DirMemos(p, a) \in [Places -> Memos] /\ TarMemos(p, a) \in [Places -> Memos]
  BY <1>1 DEF DirMemos, TarMemos, Memos
<1>3. ASSUME NEW c \in Caches, NEW q \in Packages
      PROVE  /\ DirMemos(p, a)[<<c, q>>] \in {dirMemo[<<c, q>>], IF Accepted(c, q) THEN "yes" ELSE "no"}
             /\ TarMemos(p, a)[<<c, q>>] \in {tarMemo[<<c, q>>], IF ValidTarball(c, q) THEN "yes" ELSE "no"}
  BY Constants DEF DirMemos, TarMemos
<1> QED
  BY <1>1, <1>2, <1>3 DEF MemoInv

LEMMA ForgottenMemos ==
  ASSUME NEW memo \in [Places -> Memos], NEW p, NEW cs
  PROVE  /\ Forgotten(memo, p, cs) \in [Places -> Memos]
         /\ \A x \in Places : Forgotten(memo, p, cs)[x] \in {memo[x], "unknown"}
  BY DEF Forgotten, Memos

(* Only invalid tarballs of the package are removed.                       *)
LEMMA RemovedTarballs ==
  ASSUME TypeOK, NEW p \in Packages, NEW t, NEW asked
  PROVE  LET kept == WithoutInvalid(p, t, asked) IN
         /\ kept \in [Places -> Tarballs]
         /\ \A c \in Caches, q \in Packages :
              \/ kept[<<c, q>>] = tarball[<<c, q>>]
              \/ q = p /\ ~ValidTarball(c, q) /\ kept[<<c, q>>] = "absent"
  BY Constants DEF TypeOK, WithoutInvalid, Tarballs

-----------------------------------------------------------------------------
(* Planning.                                                               *)

OnlyInvalidRemoved(p) ==
    /\ tarball' \in [Places -> Tarballs]
    /\ \A d \in Caches, q \in Packages :
         \/ tarball'[<<d, q>>] = tarball[<<d, q>>]
         \/ q = p /\ ~ValidTarball(d, q) /\ tarball'[<<d, q>>] = "absent"

(* What the memo tables say after the step was so before it.               *)
TablesRight ==
    /\ dirMemo' \in [Places -> Memos] /\ tarMemo' \in [Places -> Memos]
    /\ dirFound' \in [Packages -> Caches \cup {NoCache}]
    /\ tarFound' \in [Packages -> Caches \cup {NoCache}]
    /\ \A q \in Packages :
         /\ dirFound'[q] # NoCache => Accepted(dirFound'[q], q)
         /\ tarFound'[q] # NoCache /\ need[q] = "unplanned" => ValidTarball(tarFound'[q], q)
    /\ \A d \in Caches, q \in Packages :
         /\ dirMemo'[<<d, q>>] = "yes" => Accepted(d, q)
         /\ need[q] = "unplanned" =>
              /\ dirMemo'[<<d, q>>] = "no" => ~Accepted(d, q)
              /\ tarMemo'[<<d, q>>] = "yes" => ValidTarball(d, q)

(* What looking a package up may do, with or without making its fetcher.   *)
LEMMA PlanStep ==
  ASSUME IInv, NEW p \in Packages, phase = "plan", need[p] = "unplanned",
         NEW c \in Caches \cup {NoCache}, NEW t \in Caches \cup {NoCache},
         c # NoCache => Accepted(c, p) /\ t = NoCache,
         c = NoCache => \A d \in Caches : ~Accepted(d, p),
         t # NoCache => ValidTarball(t, p),
         Planned(p, c, t) \/ UNCHANGED <<need, source>>,
         OnlyInvalidRemoved(p),
         TablesRight,
         reported' \subseteq Packages,
         UNCHANGED <<content, record, task, command, sig, bounds, died>>
  PROVE  IInv'
<1> USE Constants DEF command, bounds, OnlyInvalidRemoved, TablesRight
<1>1. /\ TypeOK /\ UsableIsWhole /\ WorkInv /\ SourceInv /\ MemoInv /\ ReadyInv
      /\ task[p] = "none"
  BY DEF IInv, SourceInv
<1>2. /\ need' \in [Packages -> Needs] /\ source' \in [Packages -> Caches \cup {NoCache}]
      /\ \A q \in Packages : source'[q] # NoCache <=> need'[q] \in {"extract", "download"}
      /\ \A q \in Packages \ {p} : need'[q] = need[q] /\ source'[q] = source[q]
      /\ \/ need'[p] = "unplanned" /\ source'[p] = source[p]
         \/ need'[p] = "nothing" /\ Accepted(c, p) /\ c \in Caches
         \/ need'[p] = "extract" /\ c = NoCache /\ source'[p] = t /\ ValidTarball(t, p) /\ t \in Caches
         \/ need'[p] = "download" /\ c = NoCache /\ source'[p] = Target
  <2>1. CASE UNCHANGED <<need, source>>
    BY <1>1, <2>1 DEF TypeOK
  <2>2. CASE Planned(p, c, t)
    BY <1>1, <2>2 DEF TypeOK, Planned, Needs
  <2> QED
    BY <2>1, <2>2
<1>3. \A d \in Caches, q \in Packages : ValidTarball(d, q) => ValidTarball(d, q)'
  BY <1>1 DEF ValidTarball
<1>4. TypeOK'
  BY <1>1, <1>2 DEF TypeOK
<1>5. UsableIsWhole'
  BY <1>1 DEF UsableIsWhole
<1>6. WorkInv'
  BY <1>1, <1>2 DEF WorkInv, Working, Accepted
<1>7. SourceInv'
  <2>1. ASSUME NEW q \in Packages \ {p}, NEW d \in Caches PROVE tarball'[<<d, q>>] = tarball[<<d, q>>]
    OBVIOUS
  <2>2. ASSUME NEW q \in Packages, q \notin Checked, NEW d \in Caches
        PROVE  tarball'[<<d, q>>] # "wrong"
    <3>1. tarball[<<d, q>>] # "wrong"
      BY <1>1, <2>2 DEF SourceInv
    <3> QED
      BY <3>1
  <2>3. need'[p] = "extract" => tarball'[<<t, p>>] # "wrong"
    BY <1>1, <1>2, <2>2 DEF ValidTarball
  <2>4. ASSUME NEW q \in Packages \ {p},
               need[q] = "extract" \/ task[q] \in {"waiting", "clearing", "extracting"}
        PROVE  tarball'[<<source[q], q>>] # "wrong"
    <3>1. need[q] \in {"extract", "download"} /\ tarball[<<source[q], q>>] # "wrong"
      BY <1>1, <2>4 DEF SourceInv
    <3>2. source[q] \in Caches
      BY <1>1, <3>1 DEF TypeOK
    <3> QED
      BY <2>1, <3>1, <3>2
  <2> QED
    BY <1>1, <1>2, <2>2, <2>3, <2>4 DEF SourceInv
<1>8. MemoInv'
  <2>1. \A q \in Packages : need'[q] = "unplanned" => need[q] = "unplanned"
    BY <1>2
  <2>2. \A q \in Packages : tarFound'[q] # NoCache => tarFound'[q] \in Caches
    OBVIOUS
  <2>3. \A d \in Caches, q \in Packages : Accepted(d, q)' <=> Accepted(d, q)
    BY DEF Accepted
  <2>4. ASSUME NEW q \in Packages
        PROVE  /\ (dirFound[q] # NoCache => Accepted(dirFound[q], q))'
               /\ (tarFound[q] # NoCache /\ need[q] = "unplanned" =>
                     ValidTarball(tarFound[q], q))'
    <3>1. dirFound'[q] # NoCache => Accepted(dirFound'[q], q)
      OBVIOUS
    <3>2. tarFound'[q] # NoCache /\ need'[q] = "unplanned" => ValidTarball(tarFound'[q], q)
      BY <2>1
    <3>3. (tarFound[q] # NoCache /\ need[q] = "unplanned" => ValidTarball(tarFound[q], q))'
      BY <1>3, <2>2, <3>2 DEF ValidTarball
    <3> QED
      BY <3>1, <3>3 DEF Accepted
  <2> QED
    BY <1>3, <2>1, <2>3, <2>4 DEF MemoInv
<1>9. ReadyInv'
  <2>1. ASSUME NEW q \in Packages PROVE Available(q)' <=> Available(q)
    BY DEF Available, Accepted
  <2>2. need'[p] = "nothing" => Available(p)
    BY <1>2 DEF Available
  <2>3. UNCHANGED <<task, allValid, phase, result>>
    OBVIOUS
  <2> QED
    BY <1>1, <1>2, <2>1, <2>2, <2>3 DEF ReadyInv
<1> QED
  BY <1>4, <1>5, <1>6, <1>7, <1>8, <1>9 DEF IInv

LEMMA ReportStep ==
  ASSUME IInv, NEW p \in Packages, Report(p)
  PROVE  IInv'
<1>1. PICK c \in Caches \cup {NoCache}, t \in Caches \cup {NoCache} :
        /\ DirLookup(p, c)
        /\ dirMemo' = DirMemos(p, c) /\ dirFound' = [dirFound EXCEPT ![p] = c]
        /\ \/ c # NoCache /\ t = NoCache /\ UNCHANGED <<tarball, tarMemo, tarFound>>
           \/ /\ c = NoCache /\ TarLookup(p, t)
              /\ tarMemo' = TarMemos(p, t) /\ tarFound' = [tarFound EXCEPT ![p] = t]
              /\ tarball' = WithoutInvalid(p, t, {d \in Caches : tarMemo[<<d, p>>] = "unknown"})
  BY DEF Report
<1>2. /\ phase = "plan" /\ need[p] = "unplanned" /\ reported' = reported \cup {p}
      /\ UNCHANGED <<content, record, need, source, task, command, sig, bounds, died>>
  BY DEF Report
<1>3. TypeOK /\ MemoInv
  BY DEF IInv
<1>4. /\ c # NoCache => Accepted(c, p)
      /\ c = NoCache => \A d \in Caches : ~Accepted(d, p)
  BY <1>1, <1>2, DirFound
<1>5. /\ dirMemo' \in [Places -> Memos] /\ tarMemo' \in [Places -> Memos]
      /\ \A d \in Caches, q \in Packages :
           /\ dirMemo'[<<d, q>>] = "yes" => Accepted(d, q)
           /\ need[q] = "unplanned" =>
                /\ dirMemo'[<<d, q>>] = "no" => ~Accepted(d, q)
                /\ tarMemo'[<<d, q>>] = "yes" => ValidTarball(d, q)
  BY <1>1, <1>3, MemosRight DEF TypeOK, MemoInv
<1>6. OnlyInvalidRemoved(p)
  BY <1>1, <1>3, RemovedTarballs DEF TypeOK, OnlyInvalidRemoved
<1>7. t # NoCache => ValidTarball(t, p)
  BY <1>1, <1>2, TarFound
<1>8. /\ dirFound' \in [Packages -> Caches \cup {NoCache}]
      /\ tarFound' \in [Packages -> Caches \cup {NoCache}]
      /\ \A q \in Packages :
           /\ dirFound'[q] # NoCache => Accepted(dirFound'[q], q)
           /\ tarFound'[q] # NoCache /\ need[q] = "unplanned" => ValidTarball(tarFound'[q], q)
  BY <1>1, <1>3, <1>4, <1>7 DEF TypeOK, MemoInv
<1>9. TablesRight /\ (Planned(p, c, t) \/ UNCHANGED <<need, source>>)
  BY <1>2, <1>5, <1>8 DEF TablesRight
<1>10. reported' \subseteq Packages
      /\ UNCHANGED <<content, record, task, command, sig, bounds, died>>
  BY <1>2, <1>3 DEF TypeOK
<1>11. c # NoCache => t = NoCache
  BY <1>1
<1> QED
  BY <1>2, <1>4, <1>6, <1>7, <1>9, <1>10, <1>11, PlanStep

LEMMA MakeFetcherStep ==
  ASSUME IInv, NEW p \in Packages, Plan(p)
  PROVE  IInv'
<1>1. PICK c \in Caches \cup {NoCache}, t \in Caches \cup {NoCache} :
        /\ DirLookup(p, c)
        /\ dirFound' = [dirFound EXCEPT ![p] = c]
        /\ dirMemo' = Forgotten(DirMemos(p, c), p, Cleared(c, t))
        /\ \/ c # NoCache /\ t = NoCache /\ UNCHANGED <<tarball, tarMemo, tarFound>>
           \/ /\ c = NoCache /\ TarLookup(p, t)
              /\ tarFound' = [tarFound EXCEPT ![p] = t]
              /\ tarMemo' = Forgotten(TarMemos(p, t), p, Cleared(c, t))
              /\ tarball' = WithoutInvalid(p, t, {d \in Caches : tarMemo[<<d, p>>] = "unknown"})
        /\ Planned(p, c, t)
  BY DEF Plan
<1>2. /\ phase = "plan" /\ need[p] = "unplanned"
      /\ UNCHANGED <<content, record, reported, task, command, sig, bounds, died>>
  BY DEF Plan
<1>3. TypeOK /\ MemoInv
  BY DEF IInv
<1>4. /\ c # NoCache => Accepted(c, p)
      /\ c = NoCache => \A d \in Caches : ~Accepted(d, p)
  BY <1>1, <1>2, DirFound
<1>5. /\ dirMemo' \in [Places -> Memos] /\ tarMemo' \in [Places -> Memos]
      /\ \A d \in Caches, q \in Packages :
           /\ dirMemo'[<<d, q>>] = "yes" => Accepted(d, q)
           /\ need[q] = "unplanned" =>
                /\ dirMemo'[<<d, q>>] = "no" => ~Accepted(d, q)
                /\ tarMemo'[<<d, q>>] = "yes" => ValidTarball(d, q)
  <2>1. /\ dirMemo' \in [Places -> Memos]
        /\ \A x \in Places : dirMemo'[x] \in {DirMemos(p, c)[x], "unknown"}
    BY <1>1, MemosRight, ForgottenMemos
  <2>2. /\ tarMemo' \in [Places -> Memos]
        /\ \A x \in Places : tarMemo'[x] \in {tarMemo[x], TarMemos(p, t)[x], "unknown"}
    BY <1>1, <1>3, MemosRight, ForgottenMemos DEF TypeOK
  <2> QED
    BY <1>3, <2>1, <2>2, MemosRight, Constants DEF MemoInv
<1>6. OnlyInvalidRemoved(p)
  BY <1>1, <1>3, RemovedTarballs DEF TypeOK, OnlyInvalidRemoved
<1>7. t # NoCache => ValidTarball(t, p)
  BY <1>1, <1>2, TarFound
<1>8. /\ dirFound' \in [Packages -> Caches \cup {NoCache}]
      /\ tarFound' \in [Packages -> Caches \cup {NoCache}]
      /\ \A q \in Packages :
           /\ dirFound'[q] # NoCache => Accepted(dirFound'[q], q)
           /\ tarFound'[q] # NoCache /\ need[q] = "unplanned" => ValidTarball(tarFound'[q], q)
  BY <1>1, <1>3, <1>4, <1>7 DEF TypeOK, MemoInv
<1>9. TablesRight /\ (c # NoCache => t = NoCache) /\ Planned(p, c, t)
  BY <1>1, <1>5, <1>8 DEF TablesRight
<1>10. reported' \subseteq Packages
  BY <1>2, <1>3 DEF TypeOK
<1> QED
  BY <1>2, <1>4, <1>6, <1>7, <1>9, <1>10, PlanStep

LEMMA MakeRenamedStep ==
  ASSUME IInv, NEW p \in Packages, PlanRenamed(p)
  PROVE  IInv'
<1>1. PICK c \in Caches \cup {NoCache}, t \in Caches \cup {NoCache} :
        /\ IsFirst(c, {d \in Caches : Accepted(d, p)})
        /\ \/ c # NoCache /\ t = NoCache /\ UNCHANGED tarball
           \/ /\ c = NoCache /\ IsFirst(t, {d \in Caches : ValidTarball(d, p)})
              /\ tarball' = WithoutInvalid(p, t, Caches)
        /\ Planned(p, c, t)
  BY DEF PlanRenamed
<1>2. /\ phase = "plan" /\ need[p] = "unplanned"
      /\ UNCHANGED <<content, record, memos, reported, task, command, sig, bounds, died>>
  BY DEF PlanRenamed
<1>3. TypeOK /\ MemoInv /\ UsableIsWhole
  BY DEF IInv
<1>4. /\ c # NoCache => Accepted(c, p)
      /\ c = NoCache => \A d \in Caches : ~Accepted(d, p)
  BY <1>1, <1>3, FirstHit , Constants
<1>5. OnlyInvalidRemoved(p)
  BY <1>1, <1>3, RemovedTarballs DEF TypeOK, OnlyInvalidRemoved
<1>6. t # NoCache => ValidTarball(t, p)
  BY <1>1, FirstHit
<1>7. UNCHANGED <<dirMemo, tarMemo, dirFound, tarFound>> /\ reported' \subseteq Packages
      /\ UNCHANGED <<content, record, task, command, sig, bounds, died>>
  BY <1>2, <1>3 DEF memos, TypeOK
<1>8. /\ dirMemo' \in [Places -> Memos] /\ tarMemo' \in [Places -> Memos]
      /\ dirFound' \in [Packages -> Caches \cup {NoCache}]
      /\ tarFound' \in [Packages -> Caches \cup {NoCache}]
  BY <1>3, <1>7 DEF TypeOK
<1>9. /\ \A q \in Packages :
           /\ dirFound'[q] # NoCache => Accepted(dirFound'[q], q)
           /\ tarFound'[q] # NoCache /\ need[q] = "unplanned" => ValidTarball(tarFound'[q], q)
      /\ \A d \in Caches, q \in Packages :
           /\ dirMemo'[<<d, q>>] = "yes" => Accepted(d, q)
           /\ need[q] = "unplanned" =>
                /\ dirMemo'[<<d, q>>] = "no" => ~Accepted(d, q)
                /\ tarMemo'[<<d, q>>] = "yes" => ValidTarball(d, q)
  BY <1>3, <1>7 DEF MemoInv
<1>10. TablesRight /\ (c # NoCache => t = NoCache) /\ Planned(p, c, t)
  BY <1>1, <1>8, <1>9 DEF TablesRight
<1> QED
  BY <1>2, <1>4, <1>5, <1>6, <1>7, <1>10, PlanStep

-----------------------------------------------------------------------------
(* Extraction tasks.                                                       *)

(* What a task that is to leave `con' and `rec' in the directory may do.   *)
Usable(con, rec) == rec = "ours" /\ (Disabled \/ con \notin {"absent", "partial"})

Leaves(p, to, con, rec) ==
    /\ rec # "none" => con # "absent"
    /\ rec = "ours" => con = "whole" \/ p \in died'
    /\ Usable(con, rec) => to = "extracted"
    /\ to = "extracted" => Usable(con, rec) \/ p \in died'
    /\ to \in {"extracting", "recording"} => rec = "none"
    /\ to = "extracting" => con \in {"absent", "partial"}
    /\ to = "recording" => con = "whole" \/ (con \in {"partial", "short"} /\ p \in died')
    /\ to \in {"waiting", "clearing", "extracting"} => tarball[<<source[p], p>>] # "wrong"

(* Nothing that could be linked is lost, and only p can be from now on.    *)
Kept == \A c \in Caches, q \in Packages : Accepted(c, q) => Accepted(c, q)'

LEMMA TaskStep ==
  ASSUME IInv, NEW p \in Packages, task[p] \in Active,
         NEW to \in {"waiting", "clearing", "extracting", "recording"} \cup Final,
         NEW con \in Contents, NEW rec \in Records,
         task' = [task EXCEPT ![p] = to],
         content' = [content EXCEPT ![<<Target, p>>] = con],
         record' = [record EXCEPT ![<<Target, p>>] = rec],
         died' \in {died, died \cup {p}, died \ {p}},
         UNCHANGED <<tarball, memos, plan, command, sig, runs>>,
         failures' \in 0..MaxFailures,
         Leaves(p, to, con, rec)
  PROVE  /\ IInv' /\ Kept /\ ~Available(p)
         /\ \A q \in Packages : Available(q)' <=> Available(q) \/ (q = p /\ Usable(con, rec))
<1> USE Constants DEF memos, plan, command, Leaves
<1>1. TypeOK /\ UsableIsWhole /\ WorkInv /\ SourceInv /\ MemoInv /\ ReadyInv
  BY DEF IInv
<1>2. need[p] \in {"extract", "download"} /\ Working(p)
  BY <1>1 DEF SourceInv, Working, Active
<1>3. \A c \in Caches : ~Accepted(c, p)
  BY <1>1, <1>2 DEF WorkInv
<1>4. \A c \in Caches, q \in Packages :
        /\ ~(c = Target /\ q = p) => /\ content'[<<c, q>>] = content[<<c, q>>]
                                     /\ record'[<<c, q>>] = record[<<c, q>>]
        /\ c = Target /\ q = p => content'[<<c, q>>] = con /\ record'[<<c, q>>] = rec
  BY <1>1 DEF TypeOK
<1>5. \A q \in Packages : task'[q] = IF q = p THEN to ELSE task[q]
  BY <1>1 DEF TypeOK
<1>6. /\ content' \in [Places -> Contents] /\ record' \in [Places -> Records]
      /\ task' \in [Packages -> Tasks] /\ died' \subseteq Packages
      /\ \A q \in Packages \ {p} : q \in died' <=> q \in died
  BY <1>1 DEF TypeOK, Tasks, Active
<1>7. TypeOK'
  <2>1. \A x \in Places : record'[x] # "none" => content'[x] # "absent"
    BY <1>1 DEF TypeOK
  <2> QED
    BY <1>1, <1>6, <2>1 DEF TypeOK
<1>8. UsableIsWhole'
  <2>1. \A c \in Caches, q \in Packages :
          record'[<<c, q>>] = "ours" =>
            content'[<<c, q>>] = "whole" \/ (c = Target /\ q \in died')
    BY <1>1, <1>4, <1>6 DEF UsableIsWhole
  <2> QED
    BY <2>1, EachPlace DEF UsableIsWhole
<1>9. \A c \in Caches, q \in Packages :
        Accepted(c, q)' <=> Accepted(c, q) \/ (c = Target /\ q = p /\ Usable(con, rec))
  <2> SUFFICES ASSUME NEW c \in Caches, NEW q \in Packages
               PROVE  Accepted(c, q)' <=>
                        Accepted(c, q) \/ (c = Target /\ q = p /\ Usable(con, rec))
    OBVIOUS
  <2>1. CASE c = Target /\ q = p
    BY <1>3, <1>4, <2>1 DEF Accepted, Usable
  <2>2. CASE ~(c = Target /\ q = p)
    BY <1>4, <2>2 DEF Accepted
  <2> QED
    BY <2>1, <2>2
<1>10. WorkInv'
  <2>1. \A q \in Packages : Working(q)' => Working(q) /\ (q = p => to # "extracted")
    BY <1>2, <1>5 DEF Working
  <2>2. \A q \in Packages : Working(q)' => \A c \in Caches : ~Accepted(c, q)'
    BY <1>1, <1>9, <2>1 DEF WorkInv
  <2> QED
    BY <1>1, <1>4, <1>5, <1>6, <2>2 DEF WorkInv
<1>11. SourceInv'
  BY <1>1, <1>2, <1>5 DEF SourceInv, Final
<1>12. MemoInv'
  <2>1. \A q \in Packages : dirFound[q] # NoCache => dirFound[q] \in Caches
    BY <1>1 DEF TypeOK
  <2>2. \A c \in Caches, q \in Packages : ValidTarball(c, q)' <=> ValidTarball(c, q)
    BY DEF ValidTarball
  <2>3. \A q \in Packages : tarFound[q] # NoCache => tarFound[q] \in Caches
    BY <1>1 DEF TypeOK
  <2>4. \A c \in Caches, q \in Packages :
          need[q] = "unplanned" => (Accepted(c, q)' <=> Accepted(c, q))
    BY <1>2, <1>9
  <2> QED
    BY <1>1, <1>9, <2>1, <2>2, <2>3, <2>4 DEF MemoInv
<1>13. \A q \in Packages : Available(q)' <=> Available(q) \/ (q = p /\ Usable(con, rec))
  BY <1>9 DEF Available
<1>14. ReadyInv'
  <2>1. phase # "plan"
    BY <1>1 DEF ReadyInv, Active
  <2> QED
    BY <1>1, <1>2, <1>5, <1>6, <1>13, <2>1 DEF ReadyInv, Final
<1> QED
  BY <1>3, <1>7, <1>8, <1>9, <1>10, <1>11, <1>12, <1>13, <1>14 DEF IInv, Kept, Available

(* What an extraction task means for the store.                            *)
TaskEffect(p) ==
    \/ UNCHANGED died /\ \A q \in Packages : Available(q)' <=> Available(q) \/ q = p
    \/ /\ \A q \in Packages : Available(q)' <=> Available(q)
       /\ ~Available(p) /\ died' \in {died, died \cup {p}, died \ {p}}

LEMMA TaskActions ==
  ASSUME IInv, NEW p \in Packages, Task(p)
  PROVE  /\ IInv' /\ Kept /\ TaskEffect(p)
         /\ task[p] \in Active /\ UNCHANGED <<command, tarball>>
<1> DEFINE Directory(con, rec) ==
             /\ content' = [content EXCEPT ![<<Target, p>>] = con]
             /\ record' = [record EXCEPT ![<<Target, p>>] = rec]
           con0 == content[<<Target, p>>]
           rec0 == record[<<Target, p>>]
<1> USE Constants
<1>1. /\ TypeOK /\ WorkInv /\ SourceInv /\ con0 \in Contents /\ rec0 \in Records
      /\ failures \in 0..MaxFailures /\ task[p] \in Tasks
      /\ rec0 # "none" => con0 # "absent"
      /\ rec0 = "ours" => con0 = "whole" \/ p \in died
  BY DEF IInv, TypeOK, UsableIsWhole
<1>2. task[p] \in Active => ~Usable(con0, rec0)
  BY <1>1 DEF WorkInv, SourceInv, Working, Accepted, Active, Usable
<1>3. UNCHANGED <<content, record>> => Directory(con0, rec0)
  BY <1>1 DEF TypeOK
<1>4. \A con : /\ content' = [content EXCEPT ![<<Target, p>>] = con]
               /\ UNCHANGED record
               => Directory(con, rec0)
  BY <1>1 DEF TypeOK
<1>5. TaskOnly => UNCHANGED <<memos, plan, command, sig, runs>>
  BY DEF TaskOnly
<1>6. UNCHANGED failures => failures' \in 0..MaxFailures
  BY <1>1
<1>7. Stopped(p) => failures' \in 0..MaxFailures
  BY <1>1, BoundsAssumption DEF Stopped
<1>8. ASSUME NEW to \in {"waiting", "clearing", "extracting", "recording"} \cup Final,
             NEW con \in Contents, NEW rec \in Records,
             task[p] \in Active, task' = [task EXCEPT ![p] = to], Directory(con, rec),
             TaskOnly, UNCHANGED tarball, failures' \in 0..MaxFailures,
             \/ UNCHANGED died
             \/ died' \in {died \cup {p}, died \ {p}} /\ rec = "none",
             Leaves(p, to, con, rec)
      PROVE  /\ IInv' /\ Kept /\ TaskEffect(p)
             /\ task[p] \in Active /\ UNCHANGED <<command, tarball>>
  <2>1. UNCHANGED <<tarball, memos, plan, command, sig, runs>>
    BY <1>5, <1>8
  <2>2. died' \in {died, died \cup {p}, died \ {p}}
    BY <1>8
  <2>3. /\ IInv' /\ Kept /\ ~Available(p)
        /\ \A q \in Packages : Available(q)' <=> Available(q) \/ (q = p /\ Usable(con, rec))
    BY <1>8, <2>1, <2>2, TaskStep
  <2>4. CASE UNCHANGED died /\ Usable(con, rec)
    BY <1>8, <2>1, <2>3, <2>4 DEF TaskEffect
  <2>5. CASE ~Usable(con, rec)
    BY <1>8, <2>1, <2>2, <2>3, <2>5 DEF TaskEffect
  <2> QED
    BY <1>8, <2>4, <2>5 DEF Usable
<1> HIDE DEF Directory, con0, rec0
<1>9. CASE Validate(p)
  <2>1. /\ Directory(con0, rec0) /\ TaskOnly /\ UNCHANGED <<tarball, died>>
        /\ failures' \in 0..MaxFailures /\ task[p] = "queued"
        /\ \E to \in {"invalid", "interrupted", "waiting"} :
             /\ task' = [task EXCEPT ![p] = to]
             /\ to = "waiting" => tarball[<<Target, p>>] = "good"
    BY <1>3, <1>6, <1>9 DEF Validate, Moves, disk
  <2>2. source[p] = Target
    BY <1>1, <2>1 DEF SourceInv
  <2> QED
    BY <1>1, <1>2, <1>8, <2>1, <2>2 DEF Active, Final, Leaves
<1>10. CASE Acquire(p)
  <2>1. /\ Directory(con0, rec0) /\ TaskOnly /\ UNCHANGED <<tarball, died>>
        /\ failures' \in 0..MaxFailures /\ task[p] = "waiting"
        /\ \E to \in {"interrupted", "clearing"} : task' = [task EXCEPT ![p] = to]
    BY <1>3, <1>6, <1>10 DEF Acquire, Moves, disk
  <2>2. tarball[<<source[p], p>>] # "wrong"
    BY <1>1, <2>1 DEF SourceInv
  <2> QED
    BY <1>1, <1>2, <1>8, <2>1, <2>2 DEF Active, Final, Leaves
<1>11. CASE RemoveSome(p)
  <2>1. /\ task[p] = "clearing" /\ task' = [task EXCEPT ![p] = "clearing"]
        /\ TaskOnly /\ UNCHANGED <<tarball, died>> /\ failures' \in 0..MaxFailures
        /\ con0 # "absent"
    BY <1>1, <1>6, <1>11 DEF RemoveSome, TypeOK, con0
  <2>2. Directory("partial", rec0) \/ Directory("partial", "none")
    BY <1>4, <1>11 DEF RemoveSome, Directory
  <2>3. tarball[<<source[p], p>>] # "wrong"
    BY <1>1, <2>1 DEF SourceInv
  <2>4. rec0 = "ours" => con0 = "partial" /\ ~Disabled
    BY <1>2, <2>1 DEF Usable, Active
  <2>5. Leaves(p, "clearing", "partial", rec0) /\ Leaves(p, "clearing", "partial", "none")
    BY <1>1, <2>1, <2>3, <2>4 DEF Leaves, Usable
  <2> QED
    BY <1>1, <1>8, <2>1, <2>2, <2>5 DEF Active, Contents, Records
<1>12. CASE ClearPath(p)
  <2>1. /\ task[p] = "clearing" /\ task' = [task EXCEPT ![p] = "extracting"]
        /\ TaskOnly /\ UNCHANGED tarball /\ failures' \in 0..MaxFailures
        /\ Directory("absent", "none") /\ died' = died \ {p}
    BY <1>6, <1>12 DEF ClearPath, Moves, Directory
  <2>2. tarball[<<source[p], p>>] # "wrong"
    BY <1>1, <2>1 DEF SourceInv
  <2> QED
    BY <1>8, <2>1, <2>2 DEF Active, Contents, Records, Leaves, Usable
<1>13. CASE ExtractSome(p)
  <2>1. /\ task[p] = "extracting" /\ task' = [task EXCEPT ![p] = "extracting"]
        /\ TaskOnly /\ UNCHANGED <<tarball, died>> /\ failures' \in 0..MaxFailures
        /\ Directory("partial", rec0)
    BY <1>1, <1>4, <1>6, <1>13 DEF ExtractSome, TypeOK
  <2>2. tarball[<<source[p], p>>] # "wrong" /\ rec0 = "none"
    BY <1>1, <2>1 DEF SourceInv, WorkInv, rec0
  <2> QED
    BY <1>8, <2>1, <2>2 DEF Active, Contents, Records, Leaves, Usable
<1>14. CASE ExtractDone(p)
  <2>1. /\ task[p] = "extracting" /\ tarball[<<source[p], p>>] \in {"good", "wrong"}
        /\ TaskOnly /\ UNCHANGED <<tarball, died>> /\ failures' \in 0..MaxFailures
        /\ \/ task' = [task EXCEPT ![p] = "recording"] /\ Directory(Unpacked(p), rec0)
           \/ /\ task' = [task EXCEPT ![p] = "failed"]
              /\ Directory("absent", rec0) \/ Directory(Unpacked(p), rec0)
    BY <1>4, <1>6, <1>14 DEF ExtractDone, Moves
  <2>2. /\ tarball[<<source[p], p>>] # "wrong" /\ rec0 = "none"
        /\ content[<<Target, p>>] \in {"absent", "partial"}
    BY <1>1, <2>1 DEF SourceInv, WorkInv, rec0
  <2>3. Unpacked(p) = "whole"
    BY <2>1, <2>2 DEF Unpacked
  <2> QED
    BY <1>8, <2>1, <2>2, <2>3 DEF Active, Final, Contents, Records, Leaves, Usable
<1>15. CASE ExtractFails(p)
  <2>1. /\ task[p] = "extracting" /\ task' = [task EXCEPT ![p] = "failed"]
        /\ TaskOnly /\ UNCHANGED <<tarball, died>> /\ failures' \in 0..MaxFailures
        /\ \E left \in {"partial", "short", "absent"} : Directory(left, rec0)
    BY <1>4, <1>7, <1>15 DEF ExtractFails, Moves
  <2>2. rec0 = "none"
    BY <1>1, <2>1 DEF WorkInv, rec0
  <2> QED
    BY <1>8, <2>1, <2>2 DEF Active, Final, Contents, Records, Leaves, Usable
<1>16. CASE ChildFails(p)
  <2>1. /\ task[p] = "extracting"
        /\ TaskOnly /\ UNCHANGED tarball /\ failures' \in 0..MaxFailures
        /\ \/ task' = [task EXCEPT ![p] = "recording"] /\ died' = died \cup {p}
           \/ task' = [task EXCEPT ![p] = "failed"] /\ UNCHANGED died
        /\ \E left \in {"partial", "short"} : Directory(left, rec0)
    BY <1>4, <1>7, <1>16 DEF ChildFails, Moves
  <2>2. rec0 = "none"
    BY <1>1, <2>1 DEF WorkInv, rec0
  <2> QED
    BY <1>8, <2>1, <2>2 DEF Active, Final, Contents, Records, Leaves, Usable
<1>17. CASE WriteRecord(p)
  <2>1. /\ task[p] = "recording" /\ TaskOnly /\ UNCHANGED <<tarball, died>>
        /\ failures' \in 0..MaxFailures
        /\ \/ task' = [task EXCEPT ![p] = "extracted"] /\ Directory(con0, "ours")
           \/ task' = [task EXCEPT ![p] = "failed"] /\ Directory(con0, rec0)
    BY <1>1, <1>3, <1>6, <1>17 DEF WriteRecord, Moves, Directory, con0, TypeOK
  <2>2. rec0 = "none" /\ (con0 = "whole" \/ (con0 \in {"partial", "short"} /\ p \in died))
    BY <1>1, <2>1 DEF WorkInv, rec0, con0
  <2>3. Leaves(p, "extracted", con0, "ours") /\ Leaves(p, "failed", con0, "none")
    BY <2>1, <2>2 DEF Leaves, Usable
  <2> QED
    BY <1>1, <1>8, <2>1, <2>2, <2>3 DEF Active, Final, Contents, Records
<1> QED
  BY <1>9, <1>10, <1>11, <1>12, <1>13, <1>14, <1>15, <1>16, <1>17 DEF Task

-----------------------------------------------------------------------------
(* The command and its downloads.                                          *)

(* A step of the command that only moves it on.                            *)
LEMMA QuietStep ==
  ASSUME IInv, UNCHANGED <<disk, memos, plan, task, allValid, bounds, died>>,
         sig' \in BOOLEAN,
         \/ UNCHANGED <<phase, result>>
         \/ /\ phase # "plan" /\ phase' \in {"collect", "link", "ended"}
            /\ result' \in {"none", "true", "false", "thrown", "missing"}
            /\ phase' = "collect" => result' = "none"
            /\ phase' = "link" => result' = "true"
  PROVE  IInv' /\ Kept /\ \A q \in Packages : Available(q)' <=> Available(q)
<1> USE DEF disk, memos, plan, bounds
<1>1. TypeOK /\ UsableIsWhole /\ WorkInv /\ SourceInv /\ MemoInv /\ ReadyInv
  BY DEF IInv
<1>2. TypeOK'
  BY <1>1 DEF TypeOK
<1>3. UsableIsWhole' /\ WorkInv' /\ SourceInv'
  BY <1>1 DEF UsableIsWhole, WorkInv, SourceInv, Working, Accepted
<1>4. MemoInv'
  BY <1>1 DEF MemoInv, Accepted, ValidTarball
<1>5. Kept /\ \A q \in Packages : Available(q)' <=> Available(q)
  BY DEF Kept, Available, Accepted
<1>6. ReadyInv'
  BY <1>1, <1>5 DEF ReadyInv
<1> QED
  BY <1>2, <1>3, <1>4, <1>5, <1>6 DEF IInv

LEMMA StartFetchStep ==
  ASSUME IInv, StartFetch
  PROVE  IInv' /\ Kept /\ \A q \in Packages : Available(q)' <=> Available(q)
<1> USE DEF disk, memos, plan, bounds
<1>1. TypeOK /\ UsableIsWhole /\ WorkInv /\ SourceInv /\ MemoInv /\ ReadyInv
  BY DEF IInv
<1>2. /\ phase = "plan" /\ (\A p \in Packages : need[p] # "unplanned") /\ phase' = "fetch"
      /\ task' = [p \in Packages |-> IF need[p] = "extract" THEN "waiting" ELSE "none"]
      /\ UNCHANGED <<disk, memos, plan, allValid, result, sig, bounds, died>>
  BY DEF StartFetch
<1>3. \A p \in Packages : task[p] = "none"
  BY <1>1, <1>2 DEF ReadyInv
<1>4. TypeOK'
  <2>1. task' \in [Packages -> Tasks]
    BY <1>2 DEF Tasks, Active
  <2> QED
    BY <1>1, <1>2, <2>1 DEF TypeOK
<1>5. UsableIsWhole' /\ WorkInv'
  BY <1>1, <1>2, <1>3 DEF UsableIsWhole, WorkInv, Working, Accepted
<1>6. SourceInv'
  BY <1>1, <1>2 DEF SourceInv
<1>7. MemoInv'
  BY <1>1, <1>2 DEF MemoInv, Accepted, ValidTarball
<1>8. Kept /\ \A q \in Packages : Available(q)' <=> Available(q)
  BY <1>2 DEF Kept, Available, Accepted
<1>9. ReadyInv'
  BY <1>1, <1>2, <1>8 DEF ReadyInv
<1> QED
  BY <1>4, <1>5, <1>6, <1>7, <1>8, <1>9 DEF IInv

(* Tarballs that are downloaded come, change and go; those of packages     *)
(* that are not being fetched stay as they are.                            *)
LEMMA TarballStep ==
  ASSUME IInv, phase # "plan",
         UNCHANGED <<content, record, memos, plan, allValid, sig, runs, died>>,
         tarball' \in [Places -> Tarballs],
         task' \in [Packages -> Tasks],
         \A q \in Packages :
           \/ task'[q] = task[q]
           \/ need[q] = "download" /\ task[q] = "none" /\ task'[q] = "queued",
         \A c \in Caches, q \in Packages :
           \/ tarball'[<<c, q>>] = tarball[<<c, q>>]
           \/ /\ need[q] = "download" /\ task[q] = "none"
              /\ q \in Checked \/ tarball'[<<c, q>>] # "wrong",
         failures' \in 0..MaxFailures,
         \/ UNCHANGED <<phase, result>>
         \/ phase' = "ended" /\ result' \in {"thrown", "false"}
  PROVE  IInv' /\ Kept /\ \A q \in Packages : Available(q)' <=> Available(q)
<1> USE DEF memos, plan
<1>1. TypeOK /\ UsableIsWhole /\ WorkInv /\ SourceInv /\ MemoInv /\ ReadyInv
  BY DEF IInv
<1>2. TypeOK'
  BY <1>1 DEF TypeOK
<1>3. UsableIsWhole' /\ WorkInv'
  BY <1>1 DEF UsableIsWhole, WorkInv, Working, Accepted
<1>4. \A q \in Packages : need[q] \in {"extract", "download"} => source[q] \in Caches
  BY <1>1 DEF TypeOK
<1>5. SourceInv'
  <2>1. ASSUME NEW q \in Packages, q \notin Checked, NEW c \in Caches
        PROVE  tarball'[<<c, q>>] # "wrong"
    BY <1>1, <2>1 DEF SourceInv
  <2>2. ASSUME NEW q \in Packages,
               need[q] = "extract" \/ task'[q] \in {"waiting", "clearing", "extracting"}
        PROVE  tarball'[<<source[q], q>>] # "wrong"
    <3>1. need[q] \in {"extract", "download"} /\ tarball[<<source[q], q>>] # "wrong"
      BY <1>1, <2>2 DEF SourceInv
    <3>2. ~(need[q] = "download" /\ task[q] = "none")
      BY <2>2
    <3> QED
      BY <1>4, <3>1, <3>2
  <2>3. \A q \in Packages :
          /\ task'[q] # "none" => need[q] \in {"extract", "download"}
          /\ task'[q] = "queued" => need[q] = "download"
          /\ need[q] = "download" => source[q] = Target
    BY <1>1 DEF SourceInv
  <2> QED
    BY <2>1, <2>2, <2>3 DEF SourceInv
<1>6. MemoInv'
  <2>1. \A q \in Packages : need[q] # "unplanned"
    BY <1>1 DEF ReadyInv
  <2> QED
    BY <1>1, <2>1 DEF MemoInv, Accepted
<1>7. Kept /\ \A q \in Packages : Available(q)' <=> Available(q)
  BY DEF Kept, Available, Accepted
<1>8. ReadyInv'
  BY <1>1, <1>7 DEF ReadyInv
<1> QED
  BY <1>2, <1>3, <1>5, <1>6, <1>7, <1>8 DEF IInv

LEMMA DownloadStep ==
  ASSUME IInv, Download
  PROVE  IInv' /\ Kept /\ \A q \in Packages : Available(q)' <=> Available(q)
<1> USE Constants
<1>1. TypeOK /\ SourceInv
  BY DEF IInv
<1>2. ASSUME NEW p \in Packages, Receive(p) \/ Arrive(p)
      PROVE  IInv' /\ Kept /\ \A q \in Packages : Available(q)' <=> Available(q)
  <2>1. /\ phase = "fetch" /\ need[p] = "download" /\ task[p] = "none"
        /\ UNCHANGED <<content, record, memos, plan, command, sig, runs, died>>
        /\ failures' \in 0..MaxFailures
        /\ task' = [task EXCEPT ![p] = task'[p]] /\ task'[p] \in {"none", "queued"}
        /\ \E left \in Tarballs : /\ tarball' = [tarball EXCEPT ![<<Target, p>>] = left]
                                  /\ p \in Checked \/ left # "wrong"
    <3>1. CASE Receive(p)
      BY <1>1, <3>1 DEF Receive, Pending, bounds, TypeOK, Tarballs
    <3>2. CASE Arrive(p)
      <4>1. failures' \in 0..MaxFailures
        BY <1>1, <3>2, BoundsAssumption DEF Arrive, TypeOK
      <4> QED
        BY <1>1, <3>2, <4>1 DEF Arrive, Pending, bounds, TypeOK, Tarballs
    <3> QED
      BY <1>2, <3>1, <3>2
  <2>2. /\ tarball' \in [Places -> Tarballs] /\ task' \in [Packages -> Tasks]
        /\ \A q \in Packages \ {p} : task'[q] = task[q]
        /\ \A c \in Caches, q \in Packages :
             \/ tarball'[<<c, q>>] = tarball[<<c, q>>]
             \/ q = p /\ (p \in Checked \/ tarball'[<<c, q>>] # "wrong")
    BY <1>1, <2>1 DEF TypeOK, Tasks, Active
  <2>3. UNCHANGED <<phase, result, allValid>>
    BY <2>1 DEF command
  <2> QED
    BY <2>1, <2>2, <2>3, TarballStep
<1>3. CASE DownloadFails
  <2>1. /\ phase = "fetch" /\ phase' = "ended" /\ result' \in {"thrown", "false"}
        /\ UNCHANGED <<content, record, memos, plan, task, allValid, sig, runs, died>>
        /\ task' \in [Packages -> Tasks]
    BY <1>1, <1>3 DEF DownloadFails, TypeOK
  <2>2. failures' \in 0..MaxFailures
    BY <1>1, <1>3, BoundsAssumption DEF DownloadFails, TypeOK
  <2>3. PICK gone \in SUBSET Pending :
          tarball' = [x \in Places |-> IF x[1] = Target /\ x[2] \in gone
                                       THEN "absent" ELSE tarball[x]]
    BY <1>3 DEF DownloadFails
  <2>4. /\ tarball' \in [Places -> Tarballs]
        /\ \A c \in Caches, q \in Packages :
             \/ tarball'[<<c, q>>] = tarball[<<c, q>>]
             \/ need[q] = "download" /\ task[q] = "none" /\ tarball'[<<c, q>>] = "absent"
    BY <1>1, <2>3 DEF TypeOK, Tarballs, Pending
  <2> QED
    BY <2>1, <2>2, <2>4, TarballStep
<1> QED
  BY <1>2, <1>3 DEF Download

(* Clearing what was not valid takes no package away.                      *)
LEMMA CollectStep ==
  ASSUME IInv, NEW p \in Packages, Collect(p)
  PROVE  /\ IInv' /\ Kept /\ \A q \in Packages : Available(q)' <=> Available(q)
         /\ \/ UNCHANGED died
            \/ ~Available(p) /\ died' = died \ {p} /\ ~allValid' /\ UNCHANGED result
         /\ result = "none" /\ result' \in {"none", "thrown"}
<1> USE Constants DEF memos, plan, bounds, disk
<1>1. TypeOK /\ UsableIsWhole /\ WorkInv /\ SourceInv /\ MemoInv /\ ReadyInv
  BY DEF IInv
<1>2. /\ phase = "collect" /\ result = "none" /\ \A q \in Packages : need[q] # "unplanned"
      /\ UNCHANGED <<memos, plan, sig, bounds>>
  BY <1>1 DEF Collect, ReadyInv
<1>3. CASE phase' = "ended" /\ result' = "thrown" /\ UNCHANGED <<disk, task, allValid, died>>
  BY <1>1, <1>2, <1>3, QuietStep DEF TypeOK
<1>4. CASE /\ task[p] = "extracted" /\ task' = [task EXCEPT ![p] = "collected"]
           /\ UNCHANGED <<disk, command, died>>
  <2>1. UNCHANGED <<phase, result, allValid>>
    BY <1>4 DEF command
  <2>2. \A q \in Packages : task'[q] = IF q = p THEN "collected" ELSE task[q]
    BY <1>1, <1>4 DEF TypeOK
  <2>3. TypeOK'
    BY <1>1, <1>2, <1>4, <2>1 DEF TypeOK, Tasks
  <2>4. UsableIsWhole' /\ WorkInv'
    BY <1>1, <1>2, <1>4, <2>2 DEF UsableIsWhole, WorkInv, Working, Accepted
  <2>5. SourceInv'
    BY <1>1, <1>2, <1>4, <2>2 DEF SourceInv
  <2>6. MemoInv'
    BY <1>1, <1>2, <1>4 DEF MemoInv, Accepted
  <2>7. Kept /\ \A q \in Packages : Available(q)' <=> Available(q)
    BY <1>4 DEF Kept, Available, Accepted
  <2>8. ReadyInv'
    BY <1>1, <1>2, <1>4, <2>1, <2>2, <2>7 DEF ReadyInv
  <2> QED
    BY <1>2, <1>4, <2>1, <2>3, <2>4, <2>5, <2>6, <2>7, <2>8 DEF IInv
<1>5. CASE /\ task[p] \in {"invalid", "failed"} /\ source[p] \in Writable
           /\ tarball' = [tarball EXCEPT ![<<source[p], p>>] = "absent"]
           /\ content' = [content EXCEPT ![<<source[p], p>>] = "absent"]
           /\ record' = [record EXCEPT ![<<source[p], p>>] = "none"]
           /\ task' = [task EXCEPT ![p] = "collected"]
           /\ died' = IF source[p] = Target THEN died \ {p} ELSE died
           /\ allValid' = FALSE /\ UNCHANGED <<phase, result>>
  <2>1. /\ need[p] \in {"extract", "download"} /\ Working(p) /\ source[p] \in Caches
        /\ \A c \in Caches : ~Accepted(c, p)
        /\ died' \subseteq Packages /\ \A q \in Packages \ {p} : q \in died' <=> q \in died
    BY <1>1, <1>5 DEF SourceInv, Working, WorkInv, TypeOK
  <2>2. \A q \in Packages : task'[q] = IF q = p THEN "collected" ELSE task[q]
    BY <1>1, <1>5 DEF TypeOK
  <2>3. \A c \in Caches, q \in Packages :
          /\ tarball'[<<c, q>>] = IF c = source[p] /\ q = p THEN "absent" ELSE tarball[<<c, q>>]
          /\ content'[<<c, q>>] = IF c = source[p] /\ q = p THEN "absent" ELSE content[<<c, q>>]
          /\ record'[<<c, q>>] = IF c = source[p] /\ q = p THEN "none" ELSE record[<<c, q>>]
    <3>1. /\ tarball \in [Places -> Tarballs] /\ content \in [Places -> Contents]
          /\ record \in [Places -> Records]
      BY <1>1 DEF TypeOK
    <3> QED
      BY <1>5, <2>1, <3>1, PlaceChanged
  <2>4. \A c \in Caches, q \in Packages : Accepted(c, q)' <=> Accepted(c, q)
    BY <2>1, <2>3 DEF Accepted
  <2>5. TypeOK'
    <3>1. /\ tarball' \in [Places -> Tarballs] /\ content' \in [Places -> Contents]
          /\ record' \in [Places -> Records] /\ task' \in [Packages -> Tasks]
      BY <1>1, <1>5 DEF TypeOK, Tarballs, Contents, Records, Tasks
    <3>2. \A x \in Places : record'[x] # "none" => content'[x] # "absent"
      BY <1>1, <1>5 DEF TypeOK
    <3> QED
      BY <1>1, <1>2, <1>5, <2>1, <3>1, <3>2 DEF TypeOK
  <2>6. UsableIsWhole'
    <3>1. \A c \in Caches, q \in Packages :
            record'[<<c, q>>] = "ours" =>
              content'[<<c, q>>] = "whole" \/ (c = Target /\ q \in died')
      BY <1>1, <1>5, <2>3 DEF UsableIsWhole
    <3> QED
      BY <3>1, EachPlace DEF UsableIsWhole
  <2>7. WorkInv'
    BY <1>1, <1>2, <2>1, <2>2, <2>3, <2>4 DEF WorkInv, Working
  <2>8. SourceInv'
    <3>1. \A q \in Packages : source[q] # NoCache => source[q] \in Caches
      BY <1>1 DEF TypeOK
    <3>2. \A q \in Packages : need[q] \in {"extract", "download"} => source[q] \in Caches
      BY <1>1, <3>1 DEF TypeOK
    <3> QED
      BY <1>1, <1>2, <2>1, <2>2, <2>3, <3>2 DEF SourceInv
  <2>9. MemoInv'
    BY <1>1, <1>2, <2>4 DEF MemoInv, TypeOK
  <2>10. Kept /\ ~Available(p) /\ \A q \in Packages : Available(q)' <=> Available(q)
    BY <2>1, <2>4 DEF Kept, Available
  <2>11. ReadyInv'
    BY <1>1, <1>2, <1>5, <2>1, <2>2, <2>10 DEF ReadyInv
  <2> QED
    BY <1>2, <1>5, <2>5, <2>6, <2>7, <2>8, <2>9, <2>10, <2>11 DEF IInv
<1> QED
  BY <1>3, <1>4, <1>5 DEF Collect

(* A directory that is linked is one that was found.                       *)
LEMMA LookupStep ==
  ASSUME IInv, NEW p \in Packages, Lookup(p)
  PROVE  /\ IInv' /\ Kept /\ UNCHANGED died
         /\ \A q \in Packages : Available(q)' <=> Available(q)
         /\ result = "true" /\ result' \in {"true", "missing"}
<1> USE Constants DEF plan, bounds, disk
<1>1. TypeOK /\ UsableIsWhole /\ WorkInv /\ SourceInv /\ MemoInv /\ ReadyInv
  BY DEF IInv
<1>2. PICK c \in Caches \cup {NoCache} :
        /\ DirLookup(p, c)
        /\ dirMemo' = DirMemos(p, c)
        /\ dirFound' = [dirFound EXCEPT ![p] = c]
        /\ phase' = IF c = NoCache THEN "ended" ELSE phase
        /\ result' = IF c = NoCache THEN "missing" ELSE result
  BY DEF Lookup
<1>3. /\ phase = "link" /\ result = "true" /\ \A q \in Packages : need[q] # "unplanned"
      /\ UNCHANGED <<disk, tarMemo, tarFound, plan, task, allValid, sig, bounds, died>>
  BY <1>1 DEF Lookup, ReadyInv
<1>4. /\ dirMemo' \in [Places -> Memos]
      /\ \A d \in Caches, q \in Packages : dirMemo'[<<d, q>>] = "yes" => Accepted(d, q)
  BY <1>2, MemosRight
<1>5. c # NoCache => Accepted(c, p)
  BY <1>2, DirFound
<1>6. TypeOK'
  BY <1>1, <1>2, <1>3, <1>4 DEF TypeOK
<1>7. UsableIsWhole' /\ WorkInv' /\ SourceInv'
  BY <1>1, <1>3 DEF UsableIsWhole, WorkInv, SourceInv, Working, Accepted
<1>8. MemoInv'
  <2>1. \A q \in Packages : dirFound'[q] = IF q = p THEN c ELSE dirFound[q]
    BY <1>1, <1>2 DEF TypeOK
  <2> QED
    BY <1>1, <1>3, <1>4, <1>5, <2>1 DEF MemoInv, Accepted
<1>9. Kept /\ \A q \in Packages : Available(q)' <=> Available(q)
  BY <1>3 DEF Kept, Available, Accepted
<1>10. ReadyInv'
  BY <1>1, <1>2, <1>3, <1>9 DEF ReadyInv
<1> QED
  BY <1>2, <1>3, <1>6, <1>7, <1>8, <1>9, <1>10 DEF IInv

LEMMA NewCommandStep ==
  ASSUME IInv, NewCommand
  PROVE  /\ IInv' /\ Kept /\ UNCHANGED died
         /\ (\A q \in Packages : Available(q)' <=> Available(q)) 
         /\ result' = "none"
<1> USE Constants DEF disk
<1>1. TypeOK /\ UsableIsWhole /\ SourceInv
  BY DEF IInv
<1>2. TypeOK'
  <2>1. runs' \in 0..MaxRuns
    BY <1>1, BoundsAssumption DEF NewCommand, TypeOK
  <2>2. /\ dirMemo' \in [Places -> Memos] /\ tarMemo' \in [Places -> Memos]
        /\ dirFound' \in [Packages -> Caches \cup {NoCache}]
        /\ tarFound' \in [Packages -> Caches \cup {NoCache}]
        /\ source' \in [Packages -> Caches \cup {NoCache}]
        /\ need' \in [Packages -> Needs] /\ task' \in [Packages -> Tasks]
    BY DEF NewCommand, Memos, Needs, Tasks
  <2> QED
    BY <1>1, <2>1, <2>2 DEF NewCommand, TypeOK
<1>3. UsableIsWhole'
  BY <1>1 DEF NewCommand, UsableIsWhole
<1>4. WorkInv' /\ MemoInv'
  BY DEF NewCommand, WorkInv, Working, MemoInv
<1>5. SourceInv'
  BY <1>1 DEF NewCommand, SourceInv
<1>6. ReadyInv'
  BY DEF NewCommand, ReadyInv
<1>7. Kept /\ \A q \in Packages : Available(q)' <=> Available(q)
  BY DEF NewCommand, Kept, Available, Accepted
<1> QED
  BY <1>2, <1>3, <1>4, <1>5, <1>6, <1>7 DEF IInv, NewCommand

-----------------------------------------------------------------------------
(* Every step, with what it means for the store.                           *)

(* The answer of the store as far as the refinement needs it.              *)
LEMMA AnswerIs ==
  /\ result = "none" => Answer = "none"
  /\ result \in {"true", "missing"} => Answer = "success"
  /\ result \in {"false", "thrown"} => Answer = "failure"
  BY DEF Answer

StoreStep ==
    \/ UNCHANGED died /\ \A q \in Packages : Available(q)' <=> Available(q)
    \/ UNCHANGED result /\ \E p \in Packages : TaskEffect(p)

AnswerStep ==
    \/ result' = result
    \/ result' = "none"
    \/ result = "none" /\ result' \in {"false", "thrown"}
    \/ result = "none" /\ result' = "true" /\ \A q \in Packages : Available(q) \/ q \in died
    \/ result = "true" /\ result' = "missing"

LEMMA Step ==
  ASSUME IInv, [Next]_vars
  PROVE  IInv' /\ Kept /\ StoreStep /\ AnswerStep
<1> USE DEF StoreStep, AnswerStep
<1>1. TypeOK /\ ReadyInv
  BY DEF IInv
<1>2. ASSUME NEW p \in Packages, Report(p) \/ Plan(p) \/ PlanRenamed(p)
      PROVE  IInv' /\ Kept /\ StoreStep /\ AnswerStep
  <2>1. IInv'
    BY <1>2, ReportStep, MakeFetcherStep, MakeRenamedStep
  <2>2. UNCHANGED <<content, record, command, died>>
    BY <1>2 DEF Report, Plan, PlanRenamed
  <2> QED
    BY <2>1, <2>2 DEF Kept, Available, Accepted, command
<1>3. ASSUME NEW p \in Packages, Collect(p)
      PROVE  IInv' /\ Kept /\ StoreStep /\ AnswerStep
  <2>1. /\ IInv' /\ Kept /\ \A q \in Packages : Available(q)' <=> Available(q)
        /\ \/ UNCHANGED died
           \/ ~Available(p) /\ died' = died \ {p} /\ UNCHANGED result
        /\ result = "none" /\ result' \in {"none", "thrown"}
    BY <1>3, CollectStep
  <2> QED
    BY <2>1 DEF TaskEffect
<1>4. CASE \E p \in Packages : Lookup(p)
  BY <1>4, LookupStep
<1>5. CASE StartFetch
  BY <1>5, StartFetchStep DEF StartFetch
<1>6. CASE WaitAll
  <2>1. phase = "fetch" /\ result = "none" /\ sig' \in BOOLEAN
    BY <1>1, <1>6 DEF WaitAll, ReadyInv, TypeOK
  <2> QED
    BY <1>6, <2>1, QuietStep DEF WaitAll
<1>7. CASE FetchEnds
  <2>1. /\ phase = "collect" /\ result = "none" /\ sig' \in BOOLEAN
        /\ \A p \in ExtractTasks : task[p] = "collected"
        /\ \A p \in Packages : need[p] # "unplanned"
        /\ UNCHANGED <<disk, memos, plan, task, allValid, sig, bounds, died>>
    BY <1>1, <1>7 DEF FetchEnds, ReadyInv, TypeOK
  <2>2. /\ phase' \in {"link", "ended"} /\ result' \in {"true", "false", "thrown"}
        /\ phase' = "link" => result' = "true"
        /\ result' = "true" => allValid
    BY <1>1, <1>7 DEF FetchEnds, TypeOK
  <2>3. IInv' /\ Kept /\ \A q \in Packages : Available(q)' <=> Available(q)
    BY <2>1, <2>2, QuietStep
  <2>4. ASSUME allValid, NEW q \in Packages PROVE Available(q) \/ q \in died
    <3>1. need[q] = "nothing" \/ q \in ExtractTasks
      BY <1>1, <2>1 DEF TypeOK, Needs, ExtractTasks
    <3> QED
      BY <1>1, <2>1, <2>4, <3>1 DEF ReadyInv
  <2> QED
    BY <2>1, <2>2, <2>3, <2>4
<1>8. CASE LinkEnds
  <2>1. phase = "link" /\ result = "true" /\ sig' \in BOOLEAN
    BY <1>1, <1>8 DEF LinkEnds, ReadyInv, TypeOK
  <2> QED
    BY <1>8, <2>1, QuietStep DEF LinkEnds
<1>9. CASE Download
  <2>1. IInv' /\ Kept /\ \A q \in Packages : Available(q)' <=> Available(q)
    BY <1>9, DownloadStep
  <2>2. UNCHANGED died /\ (result' = result \/ (result = "none" /\ result' \in {"false", "thrown"}))
    BY <1>1, <1>9 DEF Download, Receive, Arrive, DownloadFails, command, ReadyInv
  <2> QED
    BY <2>1, <2>2
<1>10. CASE \E p \in Packages : Task(p)
  BY <1>10, TaskActions DEF command
<1>11. CASE Interrupt
  <2>1. /\ sig' \in BOOLEAN
        /\ UNCHANGED <<disk, memos, plan, task, allValid, bounds, died, phase, result>>
    BY <1>11 DEF Interrupt, command
  <2> QED
    BY <2>1, QuietStep
<1>12. CASE Kill \/ Restart
  BY <1>12, NewCommandStep DEF Kill, Restart
<1>13. CASE UNCHANGED vars
  <2>1. /\ sig' \in BOOLEAN
        /\ UNCHANGED <<disk, memos, plan, task, allValid, bounds, died, phase, result>>
    BY <1>1, <1>13 DEF vars, command, TypeOK
  <2> QED
    BY <2>1, QuietStep
<1> QED
  BY <1>2, <1>3, <1>4, <1>5, <1>6, <1>7, <1>8, <1>9, <1>10, <1>11, <1>12, <1>13
 DEF Next, Command, Ended

LEMMA InvariantHolds ==
  Spec => []IInv
<1>1. IInv /\ [Next]_vars => IInv'
  BY Step
<1> QED
  BY <1>1, InitialInvariant, PTL DEF Spec

(* The variables keep their types, and a record file is never on its own.  *)
THEOREM TypeCorrect ==
  Spec => []TypeOK
<1>1. IInv => TypeOK
  BY DEF IInv
<1> QED
  BY <1>1, InvariantHolds, PTL

(* Whatever is interrupted, killed or fails, a directory that carries the  *)
(* package's repodata_record.json is whole, unless the subprocess that     *)
(* extracted it died (PackageExtractTask::run, clear_extract_path,         *)
(* extract_subproc, write_repodata_record).                                *)
THEOREM UsableDirectories ==
  Spec => []UsableIsWhole
<1>1. IInv => UsableIsWhole
  BY DEF IInv
<1> QED
  BY <1>1, InvariantHolds, PTL

(* A directory that MultiPackageCache remembers can be linked until the    *)
(* command ends, although others are cleared meanwhile.                    *)
THEOREM CachedAnswers ==
  Spec => []CachedAnswersHold
<1>1. IInv => CachedAnswersHold
  <2> SUFFICES ASSUME IInv PROVE CachedAnswersHold
    OBVIOUS
  <2>1. MemoInv
    BY DEF IInv
  <2> QED
    BY <2>1 DEF CachedAnswersHold, MemoInv
<1> QED
  BY <1>1, InvariantHolds, PTL

LEMMA StoreRefined ==
  ASSUME IInv, [Next]_vars
  PROVE  [Store!Next]_<<Ready, died, Answer>>
<1>1. StoreStep /\ AnswerStep
  BY Step
<1>2. /\ Ready \subseteq Packages
      /\ \A p \in Packages : p \in Ready <=> Available(p)
  BY DEF Ready, Available
<1>3. /\ Ready' \subseteq Packages
      /\ \A p \in Packages : p \in Ready' <=> Available(p)'
  BY DEF Ready, Available
<1>4. /\ result' = result => Answer' = Answer
      /\ result' = "none" => Answer' = "none"
      /\ result' \in {"true", "missing"} => Answer' = "success"
      /\ result' \in {"false", "thrown"} => Answer' = "failure"
  BY DEF Answer
<1>5. CASE UNCHANGED died /\ \A q \in Packages : Available(q)' <=> Available(q)
  <2>1. Ready' = Ready /\ died' = died
    BY <1>2, <1>3, <1>5
  <2>2. CASE result' = result
    BY <1>4, <2>1, <2>2
  <2>3. CASE result' = "none"
    BY <1>4, <2>1, <2>3 DEF Store!Next, Store!StartOver
  <2>4. CASE result = "none" /\ result' \in {"false", "thrown"}
    BY <1>4, <2>1, <2>4, AnswerIs DEF Store!Next, Store!Fail
  <2>5. CASE result = "none" /\ result' = "true" /\ \A q \in Packages : Available(q) \/ q \in died
    <3>1. Ready \cup died = Packages
      BY <1>2, <2>5 DEF IInv, TypeOK
    <3> QED
      BY <1>4, <2>1, <2>5, <3>1, AnswerIs DEF Store!Next, Store!Succeed
  <2>6. CASE result = "true" /\ result' = "missing"
    BY <1>4, <2>1, <2>6, AnswerIs
  <2> QED
    BY <1>1, <2>2, <2>3, <2>4, <2>5, <2>6 DEF AnswerStep
<1>6. ASSUME result' = result, NEW p \in Packages,
             \/ UNCHANGED died /\ \A q \in Packages : Available(q)' <=> Available(q) \/ q = p
             \/ /\ \A q \in Packages : Available(q)' <=> Available(q)
                /\ ~Available(p) /\ died' \in {died, died \cup {p}, died \ {p}}
      PROVE  [Store!Next]_<<Ready, died, Answer>>
  <2>1. Answer' = Answer
    BY <1>4, <1>6
  <2>2. CASE UNCHANGED died /\ \A q \in Packages : Available(q)' <=> Available(q) \/ q = p
    <3>1. Ready' = Ready \cup {p}
      BY <1>2, <1>3, <2>2
    <3> QED
      BY <2>1, <2>2, <3>1 DEF Store!Next, Store!Extract
  <2>3. CASE /\ \A q \in Packages : Available(q)' <=> Available(q)
             /\ ~Available(p) /\ died' \in {died, died \cup {p}, died \ {p}}
    <3>1. Ready' = Ready /\ p \notin Ready
      BY <1>2, <1>3, <2>3
    <3> QED
      BY <2>1, <2>3, <3>1 DEF Store!Next, Store!Doubt, Store!Clear
  <2> QED
    BY <1>6, <2>2, <2>3
<1> QED
  BY <1>1, <1>5, <1>6 DEF StoreStep, TaskEffect

(* No package that could be linked is lost, by whatever step of whatever   *)
(* command, and a fetch that succeeds has them all, but for those that an  *)
(* extracting subprocess left unfinished: the caches implement             *)
(* PackageStore.                                                           *)
THEOREM ImplementsStore ==
  Spec => StoreSpec
<1>1. Init => Store!Init
  <2> SUFFICES ASSUME Init PROVE Store!Init
    OBVIOUS
  <2>1. result = "none" /\ died = {}
    BY DEF Init
  <2> QED
    BY <2>1, AnswerIs DEF Store!Init, Ready
<1>2. IInv /\ [Next]_vars => [Store!Next]_<<Ready, died, Answer>>
  BY StoreRefined
<1> QED
  BY <1>1, <1>2, InvariantHolds, PTL DEF Spec, StoreSpec, Store!Spec
-----------------------------------------------------------------------------
(* Why linking finds every package after a fetch that succeeded.           *)

(* Looking the package up will find a directory.                           *)
Sees(p) ==
    dirFound[p] # NoCache \/ \E c \in Caches : Accepted(c, p) /\ dirMemo[<<c, p>>] # "no"

BeforeLink == phase \in {"plan", "fetch", "collect"}

(* What the report remembers of a package that is both looked up for it    *)
(* and fetched under another channel name is never cleared.                *)
TwoNames == Reported \cap Renamed

(* The package was extracted, and that is still so.                        *)
Extracted(p) == task[p] = "extracted" \/ (task[p] = "collected" /\ allValid)

(* Nothing that is remembered hides the directory a package is extracted   *)
(* to, or the one that makes extracting it needless.                       *)
SightInv ==
    /\ reported \subseteq Reported
    /\ BeforeLink =>
         \A p \in Packages \ TwoNames :
           /\ p \in Renamed => \A c \in Caches : dirMemo[<<c, p>>] = "unknown"
           /\ need[p] = "nothing" => Sees(p)
           /\ need[p] \in {"extract", "download"} => dirMemo[<<Target, p>>] # "no"
    /\ \A p \in Packages : Extracted(p) => Accepted(Target, p) \/ p \in died
    /\ phase = "link" => \A p \in Packages \ (TwoNames \cup died) : Sees(p)
    /\ phase = "link" \/ result = "missing" =>
         \A p \in Packages : task[p] \in {"none", "collected"}
    /\ ReadyMeansFound

LEMMA InitialSight == Init => SightInv
  BY Constants DEF Init, SightInv, BeforeLink, Extracted, ReadyMeansFound

(* What is seen of a package depends on nothing else of it.                *)
LEMMA SeesKept ==
  ASSUME Kept, NEW q \in Packages, Sees(q), dirFound'[q] = dirFound[q],
         \A c \in Caches : dirMemo'[<<c, q>>] = dirMemo[<<c, q>>]
  PROVE  Sees(q)'
<1>1. CASE dirFound[q] # NoCache
  BY <1>1 DEF Sees
<1>2. CASE \E c \in Caches : Accepted(c, q) /\ dirMemo[<<c, q>>] # "no"
  <2>1. PICK c \in Caches : Accepted(c, q) /\ dirMemo[<<c, q>>] # "no"
    BY <1>2
  <2>2. Accepted(c, q)' /\ dirMemo'[<<c, q>>] # "no"
    BY <2>1 DEF Kept
  <2> QED
    BY <2>2 DEF Sees
<1> QED
  BY <1>1, <1>2 DEF Sees

(* Making one fetcher, or looking a package up for the report.             *)
LEMMA PlanningSight ==
  ASSUME IInv, SightInv, Kept, NEW p \in Packages, phase = "plan",
         UNCHANGED <<content, record, task, phase, result, allValid, died>>,
         reported' \subseteq Reported,
         \A q \in Packages \ {p} :
           /\ need'[q] = need[q] /\ dirFound'[q] = dirFound[q]
           /\ \A c \in Caches : dirMemo'[<<c, q>>] = dirMemo[<<c, q>>],
         p \in Renamed \ TwoNames => \A c \in Caches : dirMemo'[<<c, p>>] = "unknown",
         p \notin TwoNames =>
           /\ need'[p] = "nothing" => Sees(p)'
           /\ need'[p] \in {"extract", "download"} => dirMemo'[<<Target, p>>] # "no"
  PROVE  SightInv'
<1>1. ReadyInv
  BY DEF IInv
<1>2. result = "none"
  BY <1>1 DEF ReadyInv
<1>3. ReadyMeansFound'
  BY <1>2 DEF ReadyMeansFound
<1>4. \A q \in Packages : Extracted(q)' => Accepted(Target, q)' \/ q \in died'
  BY Constants DEF SightInv, Extracted, Accepted
<1>5. ASSUME NEW q \in Packages \ TwoNames
      PROVE  /\ q \in Renamed => \A c \in Caches : dirMemo'[<<c, q>>] = "unknown"
             /\ need'[q] = "nothing" => Sees(q)'
             /\ need'[q] \in {"extract", "download"} => dirMemo'[<<Target, q>>] # "no"
  <2>1. CASE q = p
    BY <2>1
  <2>2. CASE q # p
    BY <2>2, SeesKept, Constants DEF SightInv, BeforeLink
  <2> QED
    BY <2>1, <2>2
<1> QED
  BY <1>2, <1>3, <1>4, <1>5 DEF SightInv, BeforeLink, TwoNames

(* Looking a package up for the report.                                    *)
LEMMA ReportSight ==
  ASSUME IInv, SightInv, Kept, NEW p \in Packages, Report(p)
  PROVE  SightInv'
<1>1. TypeOK
  BY DEF IInv
<1>2. PICK c \in Caches \cup {NoCache} :
        dirMemo' = DirMemos(p, c) /\ dirFound' = [dirFound EXCEPT ![p] = c]
  BY DEF Report
<1>3. /\ phase = "plan" /\ need[p] = "unplanned" /\ p \in Reported
      /\ reported' = reported \cup {p}
      /\ UNCHANGED <<content, record, need, task, phase, result, allValid, died>>
  BY DEF Report, command
<1>4. \A d \in Caches, q \in Packages \ {p} :
        dirMemo'[<<d, q>>] = dirMemo[<<d, q>>] /\ dirFound'[q] = dirFound[q]
  BY <1>1, <1>2, Constants DEF DirMemos, TypeOK
<1>5. p \in Renamed => p \in TwoNames
  BY <1>3 DEF TwoNames
<1>6. reported' \subseteq Reported
  BY <1>3 DEF SightInv
<1> QED
  BY <1>3, <1>4, <1>5, <1>6, PlanningSight, Constants

(* A fetcher that has something to extract forgets that it was not there.  *)
LEMMA FetcherSight ==
  ASSUME IInv, SightInv, Kept, NEW p \in Packages, Plan(p)
  PROVE  SightInv'
<1>1. TypeOK
  BY DEF IInv
<1>2. PICK c \in Caches \cup {NoCache}, t \in Caches \cup {NoCache} :
        /\ dirFound' = [dirFound EXCEPT ![p] = c]
        /\ dirMemo' = Forgotten(DirMemos(p, c), p, Cleared(c, t))
        /\ Planned(p, c, t)
  BY DEF Plan
<1>3. /\ phase = "plan" /\ need[p] = "unplanned" /\ p \notin Renamed
      /\ UNCHANGED <<content, record, reported, task, phase, result, allValid, died>>
  BY DEF Plan, command
<1>4. \A d \in Caches, q \in Packages \ {p} :
        /\ dirMemo'[<<d, q>>] = dirMemo[<<d, q>>] /\ dirFound'[q] = dirFound[q]
        /\ need'[q] = need[q]
  BY <1>1, <1>2, Constants DEF DirMemos, Forgotten, Planned, TypeOK
<1>5. need'[p] = "nothing" => Sees(p)'
  <2>1. need'[p] = "nothing" => c # NoCache
    BY <1>1, <1>2 DEF Planned, TypeOK
  <2>2. dirFound'[p] = c
    BY <1>1, <1>2 DEF TypeOK
  <2> QED
    BY <2>1, <2>2 DEF Sees
<1>6. need'[p] \in {"extract", "download"} => dirMemo'[<<Target, p>>] # "no"
  <2>1. need'[p] \in {"extract", "download"} => c = NoCache
    BY <1>1, <1>2 DEF Planned, TypeOK
  <2>2. c = NoCache => dirMemo'[<<Target, p>>] = "unknown"
    BY <1>2, Constants DEF Forgotten, Cleared
  <2> QED
    BY <2>1, <2>2
<1>7. reported' \subseteq Reported
  BY <1>3 DEF SightInv
<1> QED
  BY <1>3, <1>4, <1>5, <1>6, <1>7, PlanningSight, Constants

(* Under another name nothing was remembered, and nothing is.              *)
LEMMA RenamedSight ==
  ASSUME IInv, SightInv, Kept, NEW p \in Packages, PlanRenamed(p)
  PROVE  SightInv'
<1>1. TypeOK
  BY DEF IInv
<1>2. PICK c \in Caches \cup {NoCache}, t \in Caches \cup {NoCache} :
        IsFirst(c, {d \in Caches : Accepted(d, p)}) /\ Planned(p, c, t)
  BY DEF PlanRenamed
<1>3. /\ phase = "plan" /\ p \in Renamed
      /\ UNCHANGED <<content, record, dirMemo, dirFound, reported>>
      /\ UNCHANGED <<task, phase, result, allValid, died>>
  BY DEF PlanRenamed, memos, command
<1>4. \A q \in Packages \ {p} : need'[q] = need[q]
  BY <1>1, <1>2 DEF Planned, TypeOK
<1>5. p \notin TwoNames => \A d \in Caches : dirMemo[<<d, p>>] = "unknown"
  BY <1>3 DEF SightInv, BeforeLink
<1>6. p \notin TwoNames /\ need'[p] = "nothing" => Sees(p)'
  <2>1. need'[p] = "nothing" => c # NoCache
    BY <1>1, <1>2 DEF Planned, TypeOK
  <2>2. c # NoCache => c \in Caches /\ Accepted(c, p)
    BY <1>1, <1>2, FirstHit
  <2>3. c # NoCache => c \in Caches /\ Accepted(c, p)'
    BY <1>3, <2>2 DEF Accepted
  <2> QED
    BY <1>3, <1>5, <2>1, <2>3 DEF Sees
<1>7. reported' \subseteq Reported
  BY <1>3 DEF SightInv
<1> QED
  BY <1>3, <1>4, <1>5, <1>6, <1>7, PlanningSight, Constants

(* Linking finds what it looks up, and looking up one package hides no     *)
(* other.                                                                  *)
LEMMA LookupSight ==
  ASSUME IInv, SightInv, Kept, NEW p \in Packages, Lookup(p)
  PROVE  SightInv'
<1> USE Constants
<1>1. TypeOK
  BY DEF IInv
<1>2. PICK c \in Caches \cup {NoCache} :
        /\ DirLookup(p, c)
        /\ dirMemo' = DirMemos(p, c)
        /\ dirFound' = [dirFound EXCEPT ![p] = c]
        /\ phase' = IF c = NoCache THEN "ended" ELSE phase
        /\ result' = IF c = NoCache THEN "missing" ELSE result
  BY DEF Lookup
<1>3. /\ phase = "link" /\ dirFound[p] = NoCache /\ result = "true"
      /\ UNCHANGED <<content, record, reported, need, task, allValid, died>>
  BY DEF Lookup, disk, plan, IInv, ReadyInv
<1>4. IsFirst(c, DirHits(p)) /\ DirHits(p) \subseteq Caches
  BY <1>2, <1>3, Zenon DEF DirLookup, DirHits
<1>5. \A d \in Caches : dirMemo[<<d, p>>] \in {"unknown", "yes", "no"}
  BY <1>1 DEF TypeOK, Memos
<1>6. CASE c = NoCache
  <2>1. \A d \in Caches : d \notin DirHits(p)
    BY <1>4, <1>6 DEF IsFirst
  <2>2. \A d \in Caches : dirMemo[<<d, p>>] # "yes"
                          /\ (dirMemo[<<d, p>>] = "unknown" => ~Accepted(d, p))
    BY <1>5, <2>1 DEF DirHits
  <2>3. ~Sees(p)
    BY <1>3, <1>5, <2>2 DEF Sees
  <2>4. p \in died \cup (Reported \cap Renamed)
    BY <1>3, <2>3 DEF SightInv, TwoNames
  <2>5. \A d \in Caches : dirMemo'[<<d, p>>] = "no"
    BY <1>2, <1>5, <1>6, <2>2 DEF DirMemos, Asked
  <2>6. ReadyMeansFound'
    BY <1>3, <2>4, <2>5 DEF ReadyMeansFound
  <2>7. phase' = "ended" /\ result' = "missing"
    BY <1>2, <1>6
  <2>8. \A q \in Packages : Extracted(q)' => Accepted(Target, q)' \/ q \in died'
    BY <1>3 DEF SightInv, Extracted, Accepted
  <2> QED
    BY <1>3, <2>6, <2>7, <2>8 DEF SightInv, BeforeLink
<1>7. CASE c # NoCache
  <2>1. phase' = "link" /\ result' = "true"
    BY <1>2, <1>3, <1>7
  <2>2. Sees(p)'
    BY <1>1, <1>2, <1>7 DEF Sees, TypeOK
  <2>3. \A d \in Caches, q \in Packages \ {p} :
          dirMemo'[<<d, q>>] = dirMemo[<<d, q>>] /\ dirFound'[q] = dirFound[q]
    BY <1>1, <1>2 DEF DirMemos, TypeOK
  <2>4. \A q \in Packages \ {p} : Sees(q) => Sees(q)'
    BY <2>3, SeesKept
  <2>5. \A q \in Packages : Extracted(q)' => Accepted(Target, q)' \/ q \in died'
    BY <1>3 DEF SightInv, Extracted, Accepted
  <2>6. \A q \in Packages \ (TwoNames \cup died) : Sees(q)'
    BY <1>3, <2>2, <2>4 DEF SightInv
  <2> QED
    BY <1>3, <2>1, <2>5, <2>6 DEF SightInv, BeforeLink, ReadyMeansFound, TwoNames
<1> QED
  BY <1>6, <1>7

(* A step that leaves what is planned and remembered as it is.             *)
LEMMA OtherSight ==
  ASSUME IInv, SightInv, Kept,
         UNCHANGED <<reported, need, dirMemo, dirFound>>,
         phase' \in {phase, "ended"} \/ (BeforeLink /\ phase' \in {"fetch", "collect"}),
         result' = result \/ result' # "missing",
         phase = "link" \/ result' = "missing" => UNCHANGED <<task, died>>,
         \A p \in Packages :
           Extracted(p)' => \/ Extracted(p) /\ (p \in died => p \in died')
                            \/ Accepted(Target, p)' \/ p \in died'
  PROVE  SightInv'
<1>1. \A q \in Packages : Sees(q) => Sees(q)'
  BY SeesKept
<1>2. /\ BeforeLink' => BeforeLink
      /\ phase' = "link" => phase = "link"
  BY DEF BeforeLink
<1>3. ASSUME NEW p \in Packages, Extracted(p)' PROVE Accepted(Target, p)' \/ p \in died'
  BY <1>3, Constants DEF SightInv, Kept
<1>4. ReadyMeansFound'
  BY DEF SightInv, ReadyMeansFound
<1>5. phase' = "link" \/ result' = "missing" =>
        /\ phase = "link" \/ result = "missing"
        /\ UNCHANGED <<task, died>>
  BY <1>2
<1> QED
  BY <1>1, <1>2, <1>3, <1>4, <1>5 DEF SightInv, TwoNames

(* What an extraction task does to what is extracted.                      *)
LEMMA TaskSight ==
  ASSUME IInv, NEW p \in Packages, Task(p)
  PROVE  \A q \in Packages :
           Extracted(q)' => \/ Extracted(q) /\ (q \in died => q \in died')
                            \/ Accepted(Target, q)' \/ q \in died'
<1> USE Constants
<1>1. /\ TypeOK /\ WorkInv /\ task[p] \in Active /\ UNCHANGED allValid
  BY TaskActions DEF IInv, command
<1>2. ASSUME NEW to \in Tasks, task' = [task EXCEPT ![p] = to],
             to # "extracted" /\ to # "collected",
             \A q \in Packages \ {p} : q \in died => q \in died'
      PROVE  \A q \in Packages : Extracted(q)' => Extracted(q) /\ (q \in died => q \in died')
  <2>1. \A q \in Packages : task'[q] = IF q = p THEN to ELSE task[q]
    BY <1>1, <1>2 DEF TypeOK
  <2> QED
    BY <1>1, <1>2, <2>1 DEF Extracted
<1>3. UNCHANGED task => task' = [task EXCEPT ![p] = task[p]]
  BY <1>1 DEF TypeOK
<1>4. task[p] \in Tasks /\ task[p] # "extracted" /\ task[p] # "collected"
  BY <1>1 DEF Tasks, Active
<1>5. CASE Validate(p) \/ Acquire(p) \/ RemoveSome(p) \/ ClearPath(p) \/ ExtractSome(p)
  <2>1. /\ \/ UNCHANGED task
           \/ \E to \in {"invalid", "interrupted", "waiting", "clearing", "extracting"} :
                task' = [task EXCEPT ![p] = to]
        /\ \A q \in Packages \ {p} : q \in died => q \in died'
    BY <1>5 DEF Validate, Acquire, RemoveSome, ClearPath, ExtractSome, Moves
  <2> QED
    BY <1>2, <1>3, <1>4, <2>1 DEF Tasks, Active, Final
<1>6. CASE ExtractDone(p) \/ ExtractFails(p) \/ ChildFails(p)
  <2>1. /\ \E to \in {"recording", "failed"} : task' = [task EXCEPT ![p] = to]
        /\ \A q \in Packages \ {p} : q \in died => q \in died'
    BY <1>6 DEF ExtractDone, ExtractFails, ChildFails, Moves
  <2> QED
    BY <1>2, <2>1 DEF Tasks, Active, Final
<1>7. CASE WriteRecord(p)
  <2>1. task[p] = "recording" /\ UNCHANGED <<content, died>>
    BY <1>7 DEF WriteRecord, Moves, TaskOnly
  <2>2. CASE task' = [task EXCEPT ![p] = "failed"]
    BY <1>2, <2>1, <2>2 DEF Tasks, Final
  <2>3. CASE /\ task' = [task EXCEPT ![p] = "extracted"]
             /\ record' = [record EXCEPT ![<<Target, p>>] = "ours"]
    <3>1. \A q \in Packages : task'[q] = IF q = p THEN "extracted" ELSE task[q]
      BY <1>1, <2>3 DEF TypeOK
    <3>2. record'[<<Target, p>>] = "ours"
      BY <1>1, <2>3 DEF TypeOK
    <3>3. content[<<Target, p>>] = "whole" \/ p \in died
      BY <1>1, <2>1 DEF WorkInv
    <3>4. Accepted(Target, p)' \/ p \in died'
      BY <2>1, <3>2, <3>3 DEF Accepted
    <3> QED
      BY <1>1, <2>1, <3>1, <3>4 DEF Extracted
  <2> QED
    BY <1>7, <2>2, <2>3 DEF WriteRecord, Moves
<1> QED
  BY <1>5, <1>6, <1>7 DEF Task

(* Every step keeps every package in sight.                                *)
LEMMA SightStep ==
  ASSUME IInv, SightInv, [Next]_vars
  PROVE  SightInv'
<1> USE Constants
<1>1. TypeOK /\ ReadyInv /\ Kept
  BY Step DEF IInv
<1>2. phase \in {"plan", "fetch", "collect"} => result = "none"
  BY <1>1 DEF ReadyInv
<1>3. CASE \E p \in Packages : Report(p) \/ Plan(p) \/ PlanRenamed(p) \/ Lookup(p)
  BY <1>1, <1>3, ReportSight, FetcherSight, RenamedSight, LookupSight
<1>4. CASE \E p \in Packages : Collect(p)
  <2>1. PICK p \in Packages : Collect(p)
    BY <1>4
  <2>2. /\ UNCHANGED <<reported, need, dirMemo, dirFound>> /\ phase = "collect"
        /\ phase' \in {phase, "ended"} /\ result' # "missing"
        /\ \A q \in Packages \ {p} : task'[q] = task[q] /\ (q \in died => q \in died')
        /\ allValid' => allValid
    BY <1>1, <1>2, <2>1 DEF Collect, plan, memos, command, TypeOK
  <2>3. \/ UNCHANGED died /\ (task'[p] = task[p] \/ (task[p] = "extracted" /\ task'[p] = "collected"))
        \/ ~allValid' /\ task'[p] = "collected"
    BY <1>1, <2>1 DEF Collect, TypeOK
  <2>4. \A q \in Packages : Extracted(q)' => Extracted(q) /\ (q \in died => q \in died')
    BY <2>2, <2>3 DEF Extracted
  <2> QED
    BY <1>1, <2>2, <2>4, OtherSight
<1>5. CASE StartFetch
  <2>1. /\ UNCHANGED <<reported, need, dirMemo, dirFound, result, allValid>>
        /\ phase = "plan" /\ phase' = "fetch"
        /\ \A p \in Packages : task'[p] \in {"waiting", "none"}
    BY <1>5 DEF StartFetch, plan, memos
  <2>2. \A p \in Packages : ~Extracted(p)'
    BY <2>1 DEF Extracted
  <2> QED
    BY <1>1, <1>2, <2>1, <2>2, OtherSight DEF BeforeLink
<1>6. CASE WaitAll \/ LinkEnds \/ Interrupt \/ UNCHANGED vars
  <2>1. /\ UNCHANGED <<reported, need, dirMemo, dirFound, result, allValid, task, died>>
        /\ phase' \in {phase, "ended"} \/ (phase = "fetch" /\ phase' = "collect")
    BY <1>6 DEF WaitAll, LinkEnds, Interrupt, plan, memos, command, vars
  <2>2. \A p \in Packages : Extracted(p)' => Extracted(p) /\ (p \in died => p \in died')
    BY <2>1 DEF Extracted
  <2> QED
    BY <1>1, <2>1, <2>2, OtherSight DEF BeforeLink
<1>7. CASE FetchEnds
  <2>1. /\ UNCHANGED <<reported, need, dirMemo, dirFound, allValid, task, died>>
        /\ UNCHANGED <<content, record>>
        /\ phase = "collect" /\ \A p \in ExtractTasks : task[p] = "collected"
        /\ \/ phase' = "ended"
           \/ phase' = "link" /\ allValid
        /\ result' # "missing"
    BY <1>7 DEF FetchEnds, plan, memos, disk
  <2>2. \A p \in Packages : Extracted(p)' => Extracted(p) /\ (p \in died => p \in died')
    BY <2>1 DEF Extracted
  <2>3. CASE phase' = "ended"
    BY <1>1, <2>1, <2>2, <2>3, OtherSight
  <2>4. CASE phase' = "link" /\ allValid
    <3>1. ASSUME NEW p \in Packages \ (TwoNames \cup died) PROVE Sees(p)
      <4>1. need[p] \in {"nothing", "extract", "download"}
        BY <1>1, <2>1 DEF TypeOK, ReadyInv, Needs
      <4>2. CASE need[p] = "nothing"
        BY <2>1, <4>2 DEF SightInv, BeforeLink
      <4>3. CASE need[p] \in {"extract", "download"}
        <5>1. Extracted(p)
          BY <2>1, <2>4, <4>3 DEF Extracted, ExtractTasks
        <5>2. Accepted(Target, p) /\ dirMemo[<<Target, p>>] # "no"
          BY <2>1, <4>3, <5>1 DEF SightInv, BeforeLink
        <5> QED
          BY <5>2 DEF Sees
      <4> QED
        BY <4>1, <4>2, <4>3
    <3>2. \A p \in Packages \ (TwoNames \cup died) : Sees(p)'
      BY <1>1, <2>1, <3>1, SeesKept
    <3>3. \A p \in Packages : Extracted(p)' => Accepted(Target, p)' \/ p \in died'
      BY <1>1, <2>1, <2>2 DEF SightInv, Kept
    <3>4. \A p \in Packages : task[p] \in {"none", "collected"}
      BY <2>1 DEF IInv, SourceInv, ExtractTasks
    <3> QED
      BY <2>1, <2>4, <3>2, <3>3, <3>4 DEF SightInv, BeforeLink, ReadyMeansFound, TwoNames
  <2> QED
    BY <2>1, <2>3, <2>4
<1>8. CASE \E p \in Packages : Receive(p) \/ Arrive(p)
  <2>1. PICK p \in Packages : Receive(p) \/ Arrive(p)
    BY <1>8
  <2>2. /\ UNCHANGED <<reported, need, dirMemo, dirFound, phase, result, allValid, died>>
        /\ phase = "fetch"
        /\ UNCHANGED task \/ task' = [task EXCEPT ![p] = "queued"]
    BY <2>1 DEF Receive, Arrive, plan, memos, command
  <2>3. \A q \in Packages : task'[q] = task[q] \/ task'[q] = "queued"
    BY <1>1, <2>2 DEF TypeOK
  <2>4. \A q \in Packages : Extracted(q)' => Extracted(q) /\ (q \in died => q \in died')
    BY <2>2, <2>3 DEF Extracted
  <2> QED
    BY <1>1, <1>2, <2>2, <2>4, OtherSight
<1>9. CASE DownloadFails
  <2>1. /\ UNCHANGED <<reported, need, dirMemo, dirFound, allValid, task, died>>
        /\ phase = "fetch" /\ phase' = "ended" /\ result' # "missing"
    BY <1>9 DEF DownloadFails, plan, memos
  <2>2. \A p \in Packages : Extracted(p)' => Extracted(p) /\ (p \in died => p \in died')
    BY <2>1 DEF Extracted
  <2> QED
    BY <1>1, <2>1, <2>2, OtherSight
<1>10. CASE \E p \in Packages : Task(p)
  <2>1. PICK p \in Packages : Task(p)
    BY <1>10
  <2>2. /\ UNCHANGED <<reported, need, dirMemo, dirFound, phase, result>>
        /\ task[p] \in Active
    BY <2>1, TaskActions DEF Task, Validate, Acquire, RemoveSome, ClearPath, ExtractSome,
       ExtractDone, ExtractFails, ChildFails, WriteRecord, TaskOnly, plan, memos, command
  <2>3. ~(phase = "link" \/ result = "missing")
    BY <2>2 DEF SightInv, Active
  <2> QED
    BY <1>1, <2>1, <2>2, <2>3, OtherSight, TaskSight
<1>11. CASE Kill \/ Restart
  <2>1. /\ reported' = {} /\ phase' = "plan" /\ result' = "none"
        /\ \A p \in Packages : need'[p] = "unplanned" /\ task'[p] = "none"
        /\ \A c \in Caches, p \in Packages : dirMemo'[<<c, p>>] = "unknown"
    BY <1>11 DEF Kill, Restart, NewCommand
  <2> QED
    BY <2>1 DEF SightInv, Extracted, ReadyMeansFound
<1> QED
  BY <1>3, <1>4, <1>5, <1>6, <1>7, <1>8, <1>9, <1>10, <1>11
  DEF Next, Command, Download, Ended

(* After a fetch that succeeded, linking finds a directory for every       *)
(* package: a memo that one was missing is cleared when the fetcher is     *)
(* made, and what is extracted afterwards stays.  A package it misses is   *)
(* one whose extraction died unnoticed or that goes by two names.          *)
THEOREM LinkingFindsAll ==
  Spec => []ReadyMeansFound
<1>1. IInv /\ SightInv /\ [Next]_vars => SightInv'
  BY SightStep
<1>2. SightInv => ReadyMeansFound
  BY DEF SightInv, ReadyMeansFound
<1> QED
  BY <1>1, <1>2, InitialSight, InvariantHolds, PTL DEF Spec
=============================================================================
