--------------------------- MODULE SubdirIndexProofs ---------------------------
(***************************************************************************)
(* What the caches of repodata hold and what a command takes from them,    *)
(* for any number of processes, caches, versions, commands and kills.      *)
(*                                                                         *)
(* A state file is believed only if it names the modification time of its  *)
(* index.  That no write leaves an old state file believed comes from      *)
(* every write having a time of its own (TimesInv); that the file which is *)
(* kept is the one whose etag was sent, from what the search remembers     *)
(* (FoundInv): what the commands of others write leaves it true, or is     *)
(* the crossing that the properties except (OthersKeep).                   *)
(***************************************************************************)
EXTENDS SubdirIndex, WellFoundedInduction, TLAPS

TimesInv ==
    \A c \in Caches : /\ json[c] # Absent => json[c].mtime <= now
                      /\ state[c] \notin {Absent, Torn} => state[c].mtime <= now

(* The cache c holds what m_metadata describes.                            *)
Holds(p, c) == json[c] # Absent /\ (Undisturbed => json[c].content = proc[p].meta)
Has(p, c) == c # 0 => Holds(p, c)
Looking == {"search", "ask", "existing"}
Keeping == {"touch", "touchSolv", "openState", "writeState", "load"}
Found(p) == LET at == proc[p].pc IN
    /\ at \in Looking => /\ Has(p, proc[p].valid) /\ Has(p, proc[p].expired)
                         /\ (proc[p].meta = 0 <=> proc[p].valid = 0 /\ proc[p].expired = 0)
    /\ at \in {"ask", "existing"} => proc[p].valid = 0
    /\ at = "existing" => proc[p].meta # 0
    /\ at = "finalize" => proc[p].answer # 0
    /\ at = "copySolv" => HasWritable /\ proc[p].expired # 0 /\ Holds(p, Target)
    /\ at \in Keeping => proc[p].valid # 0 /\ proc[p].meta # 0 /\ Holds(p, proc[p].valid)
    /\ at \in {"copySolv", "writeSolv"} => proc[p].meta # 0
    /\ at = "touchSolv" /\ proc[p].solvValid => solv[proc[p].valid] # Absent
    /\ at = "writeState" => proc[p].stored <= now
    /\ at = "writeSolv" => proc[p].got # 0 /\ (Undisturbed => proc[p].got = proc[p].meta)
FoundInv == \A p \in Procs : Found(p)

(* After a question to the server the loader has nothing older than the    *)
(* version from when it began.                                             *)
Asked(p) == LET at == proc[p].pc IN
    /\ proc[p].begun <= version
    /\ at \in {"search", "ask"} => ~proc[p].asked
    /\ at \in {"existing", "copySolv"} \cup Keeping /\ proc[p].asked =>
         proc[p].meta >= proc[p].begun
    /\ at = "finalize" => proc[p].answer >= proc[p].begun
    /\ at \notin {"writeSolv", "done"} => proc[p].got = 0
    /\ at \in {"writeSolv", "done"} /\ proc[p].asked /\ proc[p].got # 0 /\ Undisturbed =>
         proc[p].got >= proc[p].begun
AskedInv == \A p \in Procs : Asked(p)

IInv == TypeOK /\ TimesInv /\ FoundInv /\ AskedInv /\ StateHonest /\ SolvHonest

-----------------------------------------------------------------------------
(* The first of the caches that can be written is one of them.             *)
LEMMA TargetWritable ==
    ASSUME writable \subseteq Caches, HasWritable
    PROVE  Target \in writable /\ Target \in Caches
  <1>1. writable \subseteq Nat /\ writable # {}
    BY CachesAssumption DEF Caches, HasWritable
  <1>2. \E c \in writable : \A d \in writable : ~(<<d, c>> \in OpToRel(<, Nat))
    BY <1>1, NatLessThanWellFounded, WFMin
  <1>3. \E c \in writable : \A d \in writable : c <= d
    <2>1. PICK c \in writable : \A d \in writable : ~(<<d, c>> \in OpToRel(<, Nat))
      BY <1>2
    <2>2. ASSUME NEW d \in writable PROVE ~(d < c)
      BY <1>1, <2>1 DEF OpToRel
    <2> QED
      BY <1>1, <2>2
  <1> QED
    BY <1>3 DEF Target

(* Caches are numbered from 1; 0 stands for none.                          *)
LEMMA CacheNumbers ==
    /\ Caches \subseteq Nat /\ 0 \notin Caches
    /\ \A k \in 0..NCaches : k # 0 => k \in Caches
    /\ \A k \in 1..NCaches + 1 : k \in Caches => k + 1 \in 1..NCaches + 1 /\ k \in 0..NCaches
  BY CachesAssumption DEF Caches

(* A write has a time later than all before.                               *)
LEMMA WrittenNow ==
    ASSUME now \in Times, Written
    PROVE  now' \in Times /\ now' > now /\ now \in Nat /\ now' \in Nat
  BY BoundsAssumption DEF Times, Written

-----------------------------------------------------------------------------
(* The loader of the process that moves keeps its type.                    *)
LEMMA LoaderKept ==
    ASSUME TypeOK, FoundInv, NEW p \in Procs, Command(p) \/ Kill(p)
    PROVE  proc' \in [Procs -> Loader]
  <1>0. proc[p] \in Loader /\ version \in Versions /\ version \in 0..MaxVersion
    BY BoundsAssumption DEF TypeOK, Versions
  <1>1. ASSUME NEW l \in Loader, Becomes(p, l) PROVE proc' \in [Procs -> Loader]
    BY <1>1 DEF Becomes, TypeOK
  <1>2. ASSUME NEW step \in Steps, Goes(p, step) PROVE proc' \in [Procs -> Loader]
    <2>1. [proc[p] EXCEPT !.pc = step] \in Loader
      BY <1>0 DEF Loader
    <2> QED
      BY <1>2, <1>1, <2>1 DEF Goes
  <1>3. Idle \in Loader
    BY BoundsAssumption, CachesAssumption DEF Idle, Loader, Steps, Times
  <1>4. CASE Start(p)
    <2>1. PICK offline \in BOOLEAN :
            Becomes(p, [Idle EXCEPT !.pc = "search", !.offline = offline, !.begun = version])
      BY <1>4 DEF Start
    <2>2. [Idle EXCEPT !.pc = "search", !.offline = offline, !.begun = version] \in Loader
      BY <1>0, <1>3 DEF Loader, Steps
    <2> QED
      BY <2>1, <2>2, <1>1
  <1>5. CASE Refuse(p) \/ Searched(p) \/ Fail(p) \/ TouchSolv(p) \/ WriteState(p) \/ WriteSolv(p)
             \/ CopyJson(p)
    BY <1>5, <1>2 DEF Refuse, Searched, Fail, TouchSolv, WriteState, WriteSolv, CopyJson, Steps
  <1>6. CASE Pass(p)
    BY <1>6, <1>0, <1>1, CacheNumbers DEF Pass, Searching, Loader
  <1>7. CASE FindValid(p) \/ FindExpired(p)
    <2>1. PICK c \in Caches : Searching(p, c) /\ Readable(c)
            /\ \/ Becomes(p, [proc[p] EXCEPT !.i = NCaches + 1, !.meta = state[c].etag,
                                              !.valid = c, !.solvValid = TRUE])
               \/ Becomes(p, [proc[p] EXCEPT !.i = c + 1, !.meta = state[c].etag,
                                              !.valid = First(@, c)])
               \/ Becomes(p, [proc[p] EXCEPT !.i = c + 1, !.meta = state[c].etag,
                                              !.expired = First(@, c)])
      BY <1>7 DEF FindValid, FindExpired
    <2>2. /\ state[c].etag \in 0..MaxVersion /\ c + 1 \in 1..NCaches + 1 /\ c \in 0..NCaches
          /\ NCaches + 1 \in 1..NCaches + 1
      BY SMTT(30), <2>1, CacheNumbers, CachesAssumption, BoundsAssumption
      DEF Readable, TypeOK, States, Versions, Searching, Caches
    <2>3. \A k \in 0..NCaches : First(k, c) \in 0..NCaches
      BY <2>2 DEF First
    <2> QED
      BY <1>0, <1>1, <2>1, <2>2, <2>3 DEF Loader
  <1>8. CASE Ask(p)
    BY <1>8, <1>0, <1>1 DEF Ask, Loader, Steps
  <1>9. CASE RefreshInPlace(p)
    BY <1>9, <1>0, <1>1 DEF RefreshInPlace, Loader, Steps
  <1>10. CASE CopySolv(p) \/ Finalize(p)
    <2>1. Target \in 0..NCaches
      BY <1>10, TargetWritable, CacheNumbers, CachesAssumption
      DEF CopySolv, Finalize, FoundInv, Found, TypeOK, Caches
    <2> QED
      BY <1>10, <1>0, <1>1, <2>1 DEF CopySolv, Finalize, Loader, Steps
  <1>11. CASE Touch(p)
    BY <1>11, <1>0, <1>1 DEF Touch, SolvNewer, Loader, Steps
  <1>12. CASE OpenState(p)
    <2>1. json[proc[p].valid].mtime \in Times
      <3>1. proc[p].valid # 0 /\ json[proc[p].valid] # Absent
        BY <1>12 DEF OpenState, FoundInv, Found, Holds, Keeping
      <3>2. proc[p].valid \in Caches
        BY <1>0, <3>1, CacheNumbers DEF Loader
      <3> QED
        BY <3>1, <3>2 DEF TypeOK, Jsons
    <2> QED
      BY <1>12, <1>0, <1>1, <2>1 DEF OpenState, Loader, Steps
  <1>13. CASE LoadSolv(p)
    <2>1. solv[proc[p].valid].content \in 0..MaxVersion
      <3>1. proc[p].valid \in Caches /\ solv[proc[p].valid] # Absent
        BY <1>13, <1>0, CacheNumbers DEF LoadSolv, SolvMatches, FoundInv, Found, Keeping, Loader
      <3> QED
        BY <3>1, BoundsAssumption DEF TypeOK, Solvs, Versions
    <2> QED
      BY <1>13, <1>0, <1>1, <2>1 DEF LoadSolv, Loader, Steps
  <1>14. CASE LoadJson(p)
    <2>1. json[proc[p].valid].content \in 0..MaxVersion
      <3>1. proc[p].valid \in Caches /\ json[proc[p].valid] # Absent
        BY <1>14, <1>0, CacheNumbers DEF LoadJson, FoundInv, Found, Keeping, Holds, Loader
      <3> QED
        BY <3>1, BoundsAssumption DEF TypeOK, Jsons, Versions
    <2> QED
      BY <1>14, <1>0, <1>1, <2>1 DEF LoadJson, Loader, Steps
  <1>15. CASE Kill(p)
    BY <1>15, <1>1, <1>3 DEF Kill
  <1> QED
    BY <1>4, <1>5, <1>6, <1>7, <1>8, <1>9, <1>10, <1>11, <1>12, <1>13, <1>14, <1>15
    DEF Command, Search, Answered

(* The caches that a step writes to.                                       *)
LEMMA CachesWritten ==
    ASSUME TypeOK, FoundInv, NEW p \in Procs
    PROVE  /\ proc[p].pc \in Keeping => proc[p].valid \in Caches /\ json[proc[p].valid] # Absent
           /\ proc[p].pc = "existing" =>
                proc[p].expired \in Caches /\ json[proc[p].expired] # Absent
           /\ proc[p].pc = "copySolv" => proc[p].expired \in Caches
           /\ proc[p].pc = "copySolv" \/ HasWritable => Target \in Caches
  <1>1. proc[p].valid \in 0..NCaches /\ proc[p].expired \in 0..NCaches
    BY DEF TypeOK, Loader
  <1>2. proc[p].pc = "existing" => proc[p].expired # 0
    BY DEF FoundInv, Found, Looking
  <1>3. proc[p].pc = "copySolv" \/ HasWritable => HasWritable
    BY DEF FoundInv, Found
  <1> QED
    BY <1>1, <1>2, <1>3, CacheNumbers, TargetWritable DEF FoundInv, Found, Keeping, Looking, Holds, Has, TypeOK

(* The files keep their types.                                             *)
LEMMA FilesKept ==
    ASSUME TypeOK, FoundInv, NEW p \in Procs, Command(p) \/ Kill(p)
    PROVE  /\ json' \in [Caches -> Jsons \cup {Absent}]
           /\ state' \in [Caches -> States \cup {Absent, Torn}]
           /\ solv' \in [Caches -> Solvs \cup {Absent}]
           /\ now' \in Times
  <1> DEFINE Files == /\ json' \in [Caches -> Jsons \cup {Absent}]
                      /\ state' \in [Caches -> States \cup {Absent, Torn}]
                      /\ solv' \in [Caches -> Solvs \cup {Absent}]
                      /\ now' \in Times
  <1> USE DEF TypeOK
  <1>0. proc[p] \in Loader
    OBVIOUS
  <1>1. CASE Start(p) \/ Search(p) \/ Ask(p) \/ Fail(p) \/ RefreshInPlace(p) \/ LoadSolv(p)
             \/ LoadJson(p) \/ Kill(p)
    BY <1>1 DEF Start, Search, Refuse, Pass, FindValid, FindExpired, Searched, Ask, Fail,
                RefreshInPlace, LoadSolv, LoadJson, Kill, files
  <1>2. CASE CopyJson(p)
    <2>1. json[proc[p].expired] \in Jsons /\ now' \in Times
      BY <1>2, CachesWritten, WrittenNow DEF CopyJson
    <2> QED
      BY <1>2, <2>1 DEF CopyJson, Jsons
  <1>3. CASE CopySolv(p)
    <2>1. CASE solv[proc[p].expired] # Absent /\ Written
      <3>1. solv[proc[p].expired] \in Solvs /\ now' \in Times
        BY <1>3, <2>1, CachesWritten, WrittenNow DEF CopySolv
      <3> QED
        BY <1>3, <2>1, <3>1 DEF CopySolv, Solvs
    <2>2. CASE UNCHANGED <<now, solv>>
      BY <1>3, <2>2 DEF CopySolv
    <2> QED
      BY <1>3, <2>1, <2>2 DEF CopySolv
  <1>4. CASE Touch(p)
    <2>1. json[proc[p].valid] \in Jsons /\ now' \in Times
      BY <1>4, CachesWritten, WrittenNow DEF Touch, Keeping
    <2> QED
      BY <1>4, <2>1 DEF Touch, Jsons
  <1>5. CASE TouchSolv(p)
    <2>1. proc[p].solvValid => solv[proc[p].valid] \in Solvs
      BY <1>5, CachesWritten DEF TouchSolv, FoundInv, Found, Keeping
    <2> QED
      BY <1>5, <2>1, WrittenNow DEF TouchSolv, Solvs
  <1>6. CASE Finalize(p)
    <2>1. proc[p].answer \in Versions /\ now' \in Times
      BY <1>6, <1>0, WrittenNow, BoundsAssumption DEF Finalize, FoundInv, Found, Loader, Versions
    <2> QED
      BY <1>6, <2>1 DEF Finalize, Jsons
  <1>7. CASE OpenState(p)
    BY <1>7 DEF OpenState
  <1>8. CASE WriteState(p)
    <2>1. proc[p].meta \in Versions /\ proc[p].stored \in Times
      BY <1>8, <1>0, BoundsAssumption DEF WriteState, FoundInv, Found, Keeping, Loader, Versions
    <2> QED
      BY <1>8, <2>1 DEF WriteState, States
  <1>9. CASE WriteSolv(p)
    <2>1. proc[p].meta \in Versions /\ proc[p].got \in Versions
      BY <1>9, <1>0, BoundsAssumption DEF WriteSolv, FoundInv, Found, Loader, Versions
    <2> QED
      BY <1>9, <2>1, WrittenNow DEF WriteSolv, Solvs
  <1> QED
    BY <1>1, <1>2, <1>3, <1>4, <1>5, <1>6, <1>7, <1>8, <1>9 DEF Command, Answered

(* Every variable keeps its type.                                          *)
LEMMA TypeStep == TypeOK /\ FoundInv /\ [Next]_vars => TypeOK'
  <1> SUFFICES ASSUME TypeOK, FoundInv, [Next]_vars PROVE TypeOK'
    OBVIOUS
  <1>1. ASSUME NEW p \in Procs, Command(p) \/ Kill(p) PROVE TypeOK'
    <2>1. UNCHANGED <<writable, version>> /\ mixed' \in BOOLEAN /\ crossed' \in BOOLEAN
      BY <1>1 DEF Command, Search, Answered, Start, Refuse, Pass, FindValid, FindExpired, Searched,
                  Ask, Fail, RefreshInPlace, CopyJson, CopySolv, Touch, TouchSolv, Finalize,
                  OpenState, WriteState, LoadSolv, LoadJson, WriteSolv, Kill, Read, Crosses, flags, TypeOK
    <2>2. dirLock' \in [Caches -> Procs \cup {NoProc}]
      BY <1>1 DEF Command, Search, Answered, Start, Refuse, Pass, FindValid, FindExpired, Searched,
                  Ask, Fail, RefreshInPlace, CopyJson, CopySolv, Touch, TouchSolv, Finalize,
                  OpenState, WriteState, LoadSolv, LoadJson, WriteSolv, Kill, Unlocked, TypeOK
    <2>3. commands' \in 0..MaxCommands /\ kills' \in 0..MaxKills
      <3>1. \/ UNCHANGED counts
            \/ commands < MaxCommands /\ commands' = commands + 1 /\ UNCHANGED kills
            \/ kills < MaxKills /\ kills' = kills + 1 /\ UNCHANGED commands
        BY <1>1
        DEF Command, Search, Answered, Start, Refuse, Pass, FindValid, FindExpired, Searched,
            Ask, Fail, RefreshInPlace, CopyJson, CopySolv, Touch, TouchSolv, Finalize, OpenState,
            WriteState, LoadSolv, LoadJson, WriteSolv, Kill
      <3> QED
        BY <3>1, BoundsAssumption DEF counts, TypeOK
    <2> QED
      BY <1>1, <2>1, <2>2, <2>3, LoaderKept, FilesKept DEF TypeOK
  <1>2. CASE Publish
    BY <1>2, BoundsAssumption DEF Publish, TypeOK, Versions, files, counts, flags, Undisturbed
  <1>3. ASSUME NEW c \in Caches, Age(c) PROVE TypeOK'
    BY <1>3 DEF Age, TypeOK, Jsons, counts, flags, Undisturbed
  <1>4. CASE UNCHANGED vars
    BY <1>4 DEF vars, TypeOK, files, counts, flags, Undisturbed
  <1> QED
    BY <1>1, <1>2, <1>3, <1>4 DEF Next

-----------------------------------------------------------------------------
(* The steps that write no file.                                           *)
Quiet(p) ==
    \/ Start(p) \/ Search(p) \/ Ask(p) \/ Fail(p) \/ RefreshInPlace(p) \/ LoadSolv(p)
    \/ LoadJson(p) \/ Kill(p)

(* A quiet step changes the loader alone.                                  *)
LEMMA QuietKeeps ==
    ASSUME TypeOK, NEW p \in Procs, Quiet(p)
    PROVE  UNCHANGED <<json, state, solv, now, writable, version>> /\ (Undisturbed' => Undisturbed)
  BY DEF Quiet, Start, Search, Refuse, Pass, FindValid, FindExpired, Searched, Ask, Fail,
         RefreshInPlace, LoadSolv, LoadJson, Kill, files, flags, Read, Undisturbed, TypeOK

(* The steps that write an index: to which cache, and its new content.     *)
Writes(p, c, content) ==
    /\ c \in Caches /\ Written
    /\ \A d \in Caches \ {c} : json'[d] = json[d]
    /\ json'[c] # Absent /\ json'[c].content = content /\ json'[c].mtime = now'
    /\ \/ json[c] # Absent /\ content = json[c].content
       \/ \A q \in Procs \ {p} : Uses(q, c) /\ Undisturbed' => proc[q].meta = content
    /\ UNCHANGED <<state, solv, writable, version>> /\ (Undisturbed' => Undisturbed)

(* The three writes of an index, and what each leaves in it.               *)
LEMMA IndexWritten ==
    ASSUME TypeOK, FoundInv, NEW p \in Procs
    PROVE  /\ CopyJson(p) => Writes(p, Target, json[proc[p].expired].content)
           /\ Touch(p) => Writes(p, proc[p].valid, json[proc[p].valid].content)
           /\ Finalize(p) => Writes(p, Target, proc[p].answer)
  <1>0. \A c \in Caches : json'[c] \in Jsons => json'[c] # Absent
    BY FilesAssumption
  <1>1. ASSUME CopyJson(p) PROVE Writes(p, Target, json[proc[p].expired].content)
    <2>1. Target \in Caches /\ json[proc[p].expired] \in Jsons /\ now' \in Times
      BY <1>1, CachesWritten, WrittenNow DEF CopyJson, TypeOK
    <2>2. json'[Target] \in Jsons
      BY <1>1, <2>1 DEF CopyJson, TypeOK, Jsons
    <2> QED
      BY <1>0, <1>1, <2>1, <2>2 DEF CopyJson, Writes, Crosses, Undisturbed, TypeOK
  <1>2. ASSUME Finalize(p) PROVE Writes(p, Target, proc[p].answer)
    <2>1. Target \in Caches /\ proc[p].answer \in Versions /\ now' \in Times
      BY <1>2, CachesWritten, WrittenNow, BoundsAssumption
      DEF Finalize, FoundInv, Found, TypeOK, Loader, Versions
    <2>2. json'[Target] \in Jsons
      BY <1>2, <2>1 DEF Finalize, TypeOK, Jsons
    <2> QED
      BY <1>0, <1>2, <2>1, <2>2 DEF Finalize, Writes, Crosses, Undisturbed, TypeOK
  <1>3. ASSUME Touch(p) PROVE Writes(p, proc[p].valid, json[proc[p].valid].content)
    <2>1. proc[p].valid \in Caches /\ json[proc[p].valid] \in Jsons /\ now' \in Times
      BY <1>3, CachesWritten, WrittenNow DEF Touch, Keeping, TypeOK
    <2>2. json'[proc[p].valid] \in Jsons
      BY <1>3, <2>1 DEF Touch, TypeOK, Jsons
    <2>3. /\ json'[proc[p].valid].content = json[proc[p].valid].content
          /\ json'[proc[p].valid].mtime = now'
      BY <1>3, <2>1 DEF Touch, TypeOK, Jsons
    <2>4. json[proc[p].valid] # Absent /\ (Undisturbed' => Undisturbed)
      BY <1>3, <2>1, FilesAssumption DEF Touch, flags, Undisturbed
    <2> QED
      BY <1>0, <1>3, <2>1, <2>2, <2>3, <2>4 DEF Touch, Writes, TypeOK
  <1> QED
    BY <1>1, <1>2, <1>3

(* What any step leaves of an index: all of it, or its age changes.        *)
LEMMA IndexAges ==
    ASSUME TypeOK, NEW c \in Caches, Age(c)
    PROVE  /\ UNCHANGED <<state, solv, now, writable, version, proc, flags>>
           /\ \A d \in Caches : /\ (json'[d] = Absent) = (json[d] = Absent)
                                /\ json[d] # Absent => /\ json'[d].content = json[d].content
                                                       /\ json'[d].mtime = json[d].mtime
  <1>1. /\ UNCHANGED <<state, solv, now, writable, version, proc, flags>>
        /\ json[c] \in Jsons /\ json' = [json EXCEPT ![c] = [@ EXCEPT !.old = TRUE]]
    BY DEF Age, TypeOK
  <1>2. json'[c] \in Jsons /\ json'[c].content = json[c].content /\ json'[c].mtime = json[c].mtime
    BY <1>1 DEF TypeOK, Jsons
  <1>3. json'[c] # Absent /\ json[c] # Absent
    BY <1>1, <1>2, FilesAssumption
  <1>4. \A d \in Caches \ {c} : json'[d] = json[d]
    BY <1>1 DEF TypeOK
  <1> QED
    BY <1>1, <1>2, <1>3, <1>4

(* No file is from later than now.                                         *)
LEMMA TimesKept == TypeOK /\ FoundInv /\ TimesInv /\ [Next]_vars => TimesInv'
  <1> SUFFICES ASSUME TypeOK, FoundInv, TimesInv, [Next]_vars PROVE TimesInv'
    OBVIOUS
  <1> USE DEF TimesInv
  <1>0. now \in Times
    BY DEF TypeOK
  <1>1. ASSUME NEW p \in Procs, Quiet(p) PROVE TimesInv'
    BY <1>1, QuietKeeps
  <1>2. ASSUME NEW p \in Procs, NEW c, NEW content, Writes(p, c, content) PROVE TimesInv'
    <2>1. \A d \in Caches \ {c} : json'[d] = json[d]
      BY <1>2 DEF Writes, TypeOK
    <2>2. json'[c].mtime = now' /\ c \in Caches
      BY <1>2 DEF Writes, TypeOK
    <2>3. now' > now /\ now \in Nat /\ now' \in Nat
      BY <1>0, <1>2, WrittenNow DEF Writes
    <2>4. \A d \in Caches : /\ json[d] # Absent => json[d].mtime \in Nat
                            /\ state[d] \notin {Absent, Torn} => state[d].mtime \in Nat
      BY DEF TypeOK, Jsons, States, Times
    <2> QED
      BY <1>2, <2>1, <2>2, <2>3, <2>4 DEF Writes
  <1>3. ASSUME NEW p \in Procs, CopySolv(p) \/ TouchSolv(p) \/ WriteSolv(p) PROVE TimesInv'
    <2>1. UNCHANGED <<json, state>> /\ (UNCHANGED now \/ Written)
      BY <1>3 DEF CopySolv, TouchSolv, WriteSolv
    <2>2. now' >= now /\ now' \in Nat /\ now \in Nat
      BY <1>0, <2>1, WrittenNow, BoundsAssumption DEF Times
    <2>4. \A d \in Caches : /\ json[d] # Absent => json[d].mtime \in Nat
                            /\ state[d] \notin {Absent, Torn} => state[d].mtime \in Nat
      BY DEF TypeOK, Jsons, States, Times
    <2> QED
      BY <2>1, <2>2, <2>4
  <1>4. ASSUME NEW p \in Procs, OpenState(p) PROVE TimesInv'
    BY <1>4 DEF OpenState, TypeOK
  <1>5. ASSUME NEW p \in Procs, WriteState(p) PROVE TimesInv'
    <2>1. proc[p].stored <= now
      BY <1>5 DEF WriteState, FoundInv, Found
    <2>2. \A d \in Caches : state'[d] = IF d = proc[p].valid
                              THEN [etag |-> proc[p].meta, mtime |-> proc[p].stored] ELSE state[d]
      BY <1>5 DEF WriteState, TypeOK
    <2> QED
      BY <1>5, <2>1, <2>2 DEF WriteState
  <1>6. CASE Publish \/ UNCHANGED vars
    BY <1>6 DEF Publish, vars, files
  <1>7. ASSUME NEW c \in Caches, Age(c) PROVE TimesInv'
    BY <1>7, IndexAges
  <1> QED
    BY <1>1, <1>2, <1>3, <1>4, <1>5, <1>6, <1>7, IndexWritten DEF Next, Command, Answered, Quiet

(* A write of an index makes the state file beside it too old to be read.  *)
LEMMA StateKept ==
    TypeOK /\ FoundInv /\ TimesInv /\ StateHonest /\ [Next]_vars => StateHonest'
  <1> SUFFICES ASSUME TypeOK, FoundInv, TimesInv, StateHonest, [Next]_vars PROVE StateHonest'
    OBVIOUS
  <1> USE DEF StateHonest, Readable
  <1>1. ASSUME NEW p \in Procs, Quiet(p) PROVE StateHonest'
    BY <1>1, QuietKeeps
  <1>2. ASSUME NEW p \in Procs, NEW c, NEW content, Writes(p, c, content) PROVE StateHonest'
    <2>1. \A d \in Caches \ {c} : json'[d] = json[d]
      BY <1>2 DEF Writes, TypeOK
    <2>2. json'[c].mtime = now' /\ c \in Caches
      BY <1>2 DEF Writes, TypeOK
    <2>3. now' > now /\ now \in Nat /\ now' \in Nat
      BY <1>2, WrittenNow DEF Writes, TypeOK
    <2>4. state[c] \notin {Absent, Torn} => state[c].mtime \in Nat /\ state[c].mtime <= now
      BY <2>2 DEF TypeOK, States, Times, TimesInv
    <2>5. ~Readable(c)'
      BY <1>2, <2>2, <2>3, <2>4 DEF Writes
    <2> QED
      BY <1>2, <2>1, <2>5 DEF Writes
  <1>3. ASSUME NEW p \in Procs, CopySolv(p) \/ TouchSolv(p) \/ WriteSolv(p) PROVE StateHonest'
    BY <1>3 DEF CopySolv, TouchSolv, WriteSolv, flags, Undisturbed
  <1>4. ASSUME NEW p \in Procs, OpenState(p) PROVE StateHonest'
    BY <1>4 DEF OpenState, TypeOK, flags, Undisturbed
  <1>5. ASSUME NEW p \in Procs, WriteState(p) PROVE StateHonest'
    <2>1. \A d \in Caches : state'[d] = IF d = proc[p].valid
                              THEN [etag |-> proc[p].meta, mtime |-> proc[p].stored] ELSE state[d]
      BY <1>5 DEF WriteState, TypeOK
    <2>2. Undisturbed => json[proc[p].valid].content = proc[p].meta
      BY <1>5 DEF WriteState, FoundInv, Found, Keeping, Holds
    <2> QED
      BY <1>5, <2>1, <2>2 DEF WriteState, flags, Undisturbed
  <1>6. CASE Publish \/ UNCHANGED vars
    BY <1>6 DEF Publish, vars, files, flags, Undisturbed
  <1>7. ASSUME NEW c \in Caches, Age(c) PROVE StateHonest'
    BY <1>7, IndexAges DEF flags, Undisturbed
  <1> QED
    BY <1>1, <1>2, <1>3, <1>4, <1>5, <1>6, <1>7, IndexWritten DEF Next, Command, Answered, Quiet

(* A .solv file is written with the origin it was made from, or copied     *)
(* with it.                                                                *)
LEMMA SolvKept == TypeOK /\ FoundInv /\ SolvHonest /\ [Next]_vars => SolvHonest'
  <1> SUFFICES ASSUME TypeOK, FoundInv, SolvHonest, [Next]_vars PROVE SolvHonest'
    OBVIOUS
  <1> USE DEF SolvHonest
  <1>1. ASSUME NEW p \in Procs, Quiet(p) PROVE SolvHonest'
    BY <1>1, QuietKeeps
  <1>2. ASSUME NEW p \in Procs, NEW c, NEW content, Writes(p, c, content) PROVE SolvHonest'
    BY <1>2 DEF Writes
  <1>3. ASSUME NEW p \in Procs, CopySolv(p) PROVE SolvHonest'
    <2>1. proc[p].expired \in Caches
      BY <1>3, CachesWritten DEF CopySolv
    <2>2. CASE solv[proc[p].expired] # Absent
                 /\ solv' = [solv EXCEPT ![Target] = [solv[proc[p].expired] EXCEPT !.mtime = now']]
      <3>1. solv[proc[p].expired] \in Solvs
        BY <2>1, <2>2 DEF TypeOK
      <3> QED
        BY <1>3, <2>1, <2>2, <3>1 DEF CopySolv, TypeOK, Solvs, flags, Undisturbed
    <2> QED
      BY <1>3, <2>2 DEF CopySolv, flags, Undisturbed
  <1>4. ASSUME NEW p \in Procs, TouchSolv(p) PROVE SolvHonest'
    <2>1. proc[p].valid \in Caches /\ (proc[p].solvValid => solv[proc[p].valid] # Absent)
      BY <1>4, CachesWritten DEF TouchSolv, FoundInv, Found, Keeping
    <2>2. proc[p].solvValid => solv[proc[p].valid] \in Solvs
      BY <2>1 DEF TypeOK
    <2> QED
      BY <1>4, <2>1, <2>2 DEF TouchSolv, TypeOK, Solvs, flags, Undisturbed
  <1>5. ASSUME NEW p \in Procs, WriteSolv(p) PROVE SolvHonest'
    BY <1>5 DEF WriteSolv, FoundInv, Found, TypeOK, flags, Undisturbed
  <1>6. ASSUME NEW p \in Procs, OpenState(p) \/ WriteState(p) PROVE SolvHonest'
    BY <1>6 DEF OpenState, WriteState, flags, Undisturbed
  <1>7. CASE Publish \/ UNCHANGED vars
    BY <1>7 DEF Publish, vars, files, flags, Undisturbed
  <1>8. ASSUME NEW c \in Caches, Age(c) PROVE SolvHonest'
    BY <1>8, IndexAges DEF flags, Undisturbed
  <1> QED
    BY <1>1, <1>2, <1>3, <1>4, <1>5, <1>6, <1>7, <1>8, IndexWritten
    DEF Next, Command, Answered, Quiet

-----------------------------------------------------------------------------
(* What the loader remembers, one step after the other.                    *)

(* A loader that becomes l is l.                                           *)
LEMMA Becoming ==
    ASSUME TypeOK, NEW p \in Procs, NEW l, Becomes(p, l)
    PROVE  proc'[p] = l
  BY DEF Becomes, TypeOK

(* What the search remembers of the caches is what is in them.             *)
LEMMA Searches ==
    ASSUME TypeOK, StateHonest, NEW p \in Procs, Found(p), Search(p)
    PROVE  Found(p)'
  <1> USE DEF Found, Looking, Keeping, Has, Holds
  <1>0. proc[p] \in Loader
    BY DEF TypeOK
  <1>1. CASE Refuse(p)
    <2>1. proc'[p].pc = "refused"
      BY <1>1, <1>0, Becoming DEF Refuse, Goes, Loader
    <2> QED
      BY <2>1
  <1>2. CASE Pass(p)
    <2>1. PICK c \in Caches : /\ proc[p].pc = "search" /\ UNCHANGED json
                              /\ Undisturbed' => Undisturbed
                              /\ Becomes(p, [proc[p] EXCEPT !.i = c + 1])
      BY <1>2 DEF Pass, Searching, files, flags, Undisturbed
    <2>2. proc'[p] = [proc[p] EXCEPT !.i = c + 1]
      BY <2>1, Becoming
    <2>3. /\ proc'[p].pc = "search" /\ proc'[p].valid = proc[p].valid
          /\ proc'[p].expired = proc[p].expired /\ proc'[p].meta = proc[p].meta
      BY <2>1, <2>2, <1>0 DEF Loader
    <2> QED
      BY <2>1, <2>3
  <1>3. CASE FindValid(p) \/ FindExpired(p)
    <2>1. PICK c \in Caches :
            /\ proc[p].pc = "search" /\ Readable(c) /\ UNCHANGED <<json, state>> /\ Read(p, c)
            /\ \/ Becomes(p, [proc[p] EXCEPT !.i = NCaches + 1, !.meta = state[c].etag,
                                              !.valid = c, !.solvValid = TRUE])
               \/ Becomes(p, [proc[p] EXCEPT !.i = c + 1, !.meta = state[c].etag,
                                              !.valid = First(@, c)])
               \/ Becomes(p, [proc[p] EXCEPT !.i = c + 1, !.meta = state[c].etag,
                                              !.expired = First(@, c)])
      BY <1>3 DEF FindValid, FindExpired, Searching, files
    <2>2. /\ proc'[p].pc = "search" /\ proc'[p].meta = state[c].etag
          /\ \/ proc'[p].valid = c /\ proc'[p].expired = proc[p].expired
             \/ proc'[p].valid = First(proc[p].valid, c) /\ proc'[p].expired = proc[p].expired
             \/ proc'[p].valid = proc[p].valid /\ proc'[p].expired = First(proc[p].expired, c)
      <3>1. \/ proc'[p] = [proc[p] EXCEPT !.i = NCaches + 1, !.meta = state[c].etag,
                                            !.valid = c, !.solvValid = TRUE]
            \/ proc'[p] = [proc[p] EXCEPT !.i = c + 1, !.meta = state[c].etag, !.valid = First(@, c)]
            \/ proc'[p] = [proc[p] EXCEPT !.i = c + 1, !.meta = state[c].etag, !.expired = First(@, c)]
        BY <2>1, Becoming
      <3> QED
        BY ZenonT(40), <2>1, <3>1, <1>0 DEF Loader
    <2>3. /\ c # 0 /\ json[c] # Absent /\ state[c].etag # 0
          /\ Undisturbed => json[c].content = state[c].etag
      BY <2>1, CacheNumbers DEF Readable, StateHonest, TypeOK, States, Versions
    <2>4. Undisturbed' => Undisturbed /\ proc[p].meta \in {0, state[c].etag}
      BY <2>1 DEF Read, TypeOK, flags, Undisturbed
    <2> QED
      BY <2>1, <2>2, <2>3, <2>4 DEF First
  <1>4. CASE Searched(p)
    <2>1. /\ proc[p].pc = "search" /\ UNCHANGED json /\ (Undisturbed' => Undisturbed)
          /\ \/ proc[p].valid # 0 /\ Goes(p, "load")
             \/ proc[p].valid = 0 /\ (Goes(p, "done") \/ Goes(p, "ask"))
      BY <1>4 DEF Searched, files, flags, Undisturbed
    <2>2. /\ proc'[p].valid = proc[p].valid /\ proc'[p].expired = proc[p].expired
          /\ proc'[p].meta = proc[p].meta
          /\ \/ proc[p].valid # 0 /\ proc'[p].pc = "load"
             \/ proc[p].valid = 0 /\ proc'[p].pc \in {"done", "ask"}
      BY <2>1, <1>0, Becoming DEF Goes, Loader
    <2> QED
      BY <2>1, <2>2
  <1> QED
    BY <1>1, <1>2, <1>3, <1>4 DEF Search

(* What the loader relies on while it acts on the server's answer.         *)
LEMMA Answers ==
    ASSUME TypeOK, TimesInv, FoundInv, NEW p \in Procs, Ask(p) \/ Answered(p)
    PROVE  Found(p)'
  <1> USE DEF Found, Looking, Keeping, Has, Holds
  <1>0. proc[p] \in Loader /\ Found(p)
    BY DEF TypeOK, FoundInv
  <1>1. CASE Ask(p)
    <2>1. /\ proc[p].pc = "ask" /\ UNCHANGED json /\ (Undisturbed' => Undisturbed) /\ version # 0
          /\ proc'[p].pc = (IF proc[p].meta = version THEN "existing" ELSE "finalize")
          /\ proc'[p].answer = version /\ proc'[p].meta = proc[p].meta
          /\ proc'[p].valid = proc[p].valid /\ proc'[p].expired = proc[p].expired
      <3>1. proc'[p] = [proc[p] EXCEPT !.pc = IF proc[p].meta = version THEN "existing" ELSE "finalize",
                                        !.answer = version, !.asked = TRUE]
        BY <1>1, Becoming DEF Ask
      <3>2. version # 0 /\ proc[p].pc = "ask" /\ UNCHANGED json /\ (Undisturbed' => Undisturbed)
        BY <1>1 DEF Ask, files, TypeOK, Versions, flags, Undisturbed
      <3> QED
        BY <3>1, <3>2, <1>0 DEF Loader
    <2> QED
      BY <2>1, <1>0
  <1>2. CASE RefreshInPlace(p)
    <2>1. /\ proc[p].pc = "existing" /\ UNCHANGED json /\ (Undisturbed' => Undisturbed)
          /\ proc'[p].pc = "touch" /\ proc'[p].valid = proc[p].expired
          /\ proc'[p].meta = proc[p].meta
      <3>1. proc'[p] = [proc[p] EXCEPT !.pc = "touch", !.valid = proc[p].expired]
        BY <1>2, Becoming DEF RefreshInPlace
      <3> QED
        BY <1>2, <3>1, <1>0 DEF RefreshInPlace, Loader, files, flags, Undisturbed
    <2> QED
      BY <2>1, <1>0
  <1>3. CASE CopyJson(p)
    <2>1. /\ proc[p].pc = "existing" /\ HasWritable /\ UNCHANGED writable
          /\ proc'[p].pc = "copySolv" /\ proc'[p].expired = proc[p].expired
          /\ proc'[p].meta = proc[p].meta
      <3>1. proc'[p] = [proc[p] EXCEPT !.pc = "copySolv"]
        BY <1>3, Becoming DEF CopyJson, Goes
      <3> QED
        BY <1>3, <3>1, <1>0 DEF CopyJson, Loader
    <2>2. Writes(p, Target, json[proc[p].expired].content)
      BY <1>3, IndexWritten
    <2>3. proc[p].expired # 0 /\ proc[p].meta # 0
      BY <2>1, <1>0
    <2>4. Target' = Target /\ HasWritable'
      BY <2>1 DEF Target, HasWritable
    <2> QED
      BY <2>1, <2>2, <2>3, <2>4, <1>0 DEF Writes
  <1>4. CASE CopySolv(p)
    <2>1. /\ proc[p].pc = "copySolv" /\ UNCHANGED <<json, writable>> /\ (Undisturbed' => Undisturbed)
          /\ proc'[p].pc = "touch" /\ proc'[p].valid = Target /\ proc'[p].meta = proc[p].meta
      <3>1. proc'[p] = [proc[p] EXCEPT !.pc = "touch", !.valid = Target]
        BY <1>4, Becoming DEF CopySolv
      <3> QED
        BY <1>4, <3>1, <1>0 DEF CopySolv, Loader, flags, Undisturbed
    <2>2. Target # 0
      BY <2>1, CachesWritten, CacheNumbers
    <2> QED
      BY <2>1, <2>2, <1>0
  <1>5. CASE Touch(p)
    <2>1. /\ proc[p].pc = "touch" /\ UNCHANGED solv
          /\ proc'[p].pc = "touchSolv" /\ proc'[p].valid = proc[p].valid
          /\ proc'[p].meta = proc[p].meta /\ proc'[p].solvValid = SolvNewer(proc[p].valid)
      <3>1. proc'[p] = [proc[p] EXCEPT !.pc = "touchSolv", !.solvValid = SolvNewer(proc[p].valid)]
        BY <1>5, Becoming DEF Touch
      <3> QED
        BY <1>5, <3>1, <1>0 DEF Touch, Loader
    <2>2. Writes(p, proc[p].valid, json[proc[p].valid].content)
      BY <1>5, IndexWritten
    <2>3. proc'[p].solvValid => solv'[proc'[p].valid] # Absent
      BY <2>1 DEF SolvNewer
    <2> QED
      BY <2>1, <2>2, <2>3, <1>0 DEF Writes
  <1>6. CASE TouchSolv(p) \/ OpenState(p) \/ WriteState(p)
    <2>1. /\ proc[p].pc \in {"touchSolv", "openState", "writeState"}
          /\ UNCHANGED json /\ (Undisturbed' => Undisturbed)
          /\ proc'[p].pc \in {"openState", "writeState", "load"}
          /\ proc'[p].valid = proc[p].valid /\ proc'[p].meta = proc[p].meta
          /\ proc'[p].pc = "writeState" =>
               proc[p].pc = "openState" /\ proc'[p].stored = json[proc[p].valid].mtime
      <3>1. /\ proc[p].pc \in {"touchSolv", "openState", "writeState"}
            /\ UNCHANGED json /\ (Undisturbed' => Undisturbed)
            /\ \/ proc'[p] = [proc[p] EXCEPT !.pc = "openState"]
               \/ proc'[p] = [proc[p] EXCEPT !.pc = "load"]
               \/ /\ proc[p].pc = "openState"
                  /\ proc'[p] = [proc[p] EXCEPT !.pc = "writeState",
                                                !.stored = json[proc[p].valid].mtime]
        BY <1>6, Becoming DEF TouchSolv, OpenState, WriteState, Goes, flags, Undisturbed
      <3> QED
        BY <3>1, <1>0 DEF Loader
    <2>2. OpenState(p) => json[proc[p].valid].mtime <= now /\ now' = now
      BY CachesWritten DEF OpenState, Keeping, TimesInv
    <2>3. proc[p].pc = "openState" => OpenState(p)
      BY <1>6 DEF TouchSolv, WriteState
    <2> QED
      BY <2>1, <2>2, <2>3, <1>0
  <1>7. CASE Finalize(p)
    <2>1. /\ proc[p].pc = "finalize" /\ HasWritable /\ UNCHANGED writable
          /\ proc'[p].pc = "openState" /\ proc'[p].valid = Target
          /\ proc'[p].meta = proc[p].answer
      <3>1. proc'[p] = [proc[p] EXCEPT !.pc = "openState", !.meta = proc[p].answer, !.valid = Target]
        BY <1>7, Becoming DEF Finalize
      <3> QED
        BY <1>7, <3>1, <1>0 DEF Finalize, Loader
    <2>2. Writes(p, Target, proc[p].answer)
      BY <1>7, IndexWritten
    <2>3. Target # 0
      BY <2>1, CachesWritten, CacheNumbers
    <2> QED
      BY <2>1, <2>2, <2>3, <1>0 DEF Writes
  <1> QED
    BY <1>1, <1>2, <1>3, <1>4, <1>5, <1>6, <1>7 DEF Answered

(* What it relies on in the other steps.                                   *)
LEMMA Others ==
    ASSUME TypeOK, FoundInv, SolvHonest, NEW p \in Procs,
           Start(p) \/ Fail(p) \/ LoadSolv(p) \/ LoadJson(p) \/ WriteSolv(p) \/ Kill(p)
    PROVE  Found(p)'
  <1> USE DEF Found, Looking, Keeping, Has, Holds
  <1>0. proc[p] \in Loader /\ Found(p)
    BY DEF TypeOK, FoundInv
  <1>1. CASE Start(p)
    <2>1. /\ proc'[p].pc = "search" /\ proc'[p].valid = 0 /\ proc'[p].expired = 0
          /\ proc'[p].meta = 0
      <3>1. \E offline \in BOOLEAN :
              proc'[p] = [Idle EXCEPT !.pc = "search", !.offline = offline, !.begun = version]
        BY <1>1, Becoming DEF Start
      <3> QED
        BY <3>1 DEF Idle
    <2> QED
      BY <2>1
  <1>2. CASE Fail(p) \/ LoadSolv(p) \/ WriteSolv(p) \/ Kill(p)
    <2>1. proc'[p].pc \in {"done", "idle"}
      <3>1. \/ proc'[p] = [proc[p] EXCEPT !.pc = "done"]
            \/ \E got : proc'[p] = [proc[p] EXCEPT !.pc = "done", !.got = got]
            \/ proc'[p] = Idle
        BY <1>2, Becoming DEF Fail, LoadSolv, WriteSolv, Kill, Goes
      <3>2. Idle.pc = "idle"
        BY DEF Idle
      <3> QED
        BY <3>1, <3>2, <1>0 DEF Loader
    <2> QED
      BY <2>1
  <1>3. CASE LoadJson(p)
    <2>1. /\ proc[p].pc = "load" /\ UNCHANGED json /\ (Undisturbed' => Undisturbed)
          /\ proc'[p].pc = "writeSolv"
          /\ proc'[p].got = json[proc[p].valid].content /\ proc'[p].meta = proc[p].meta
      <3>1. proc'[p] = [proc[p] EXCEPT !.pc = "writeSolv", !.got = json[proc[p].valid].content]
        BY <1>3, Becoming DEF LoadJson
      <3> QED
        BY <1>3, <3>1, <1>0 DEF LoadJson, Loader, files, flags, Undisturbed
    <2>2. json[proc[p].valid].content # 0
      BY <2>1, CachesWritten DEF TypeOK, Jsons, Versions
    <2> QED
      BY <2>1, <2>2, <1>0
  <1> QED
    BY <1>1, <1>2, <1>3

(* No step removes a .solv file.                                           *)
LEMMA SolvStays ==
    ASSUME TypeOK, FoundInv, NEW p \in Procs, CopySolv(p) \/ TouchSolv(p) \/ WriteSolv(p)
    PROVE  \A c \in Caches : solv[c] # Absent => solv'[c] # Absent
  <1>1. solv' = solv \/ \E c \in Caches, file \in Solvs : solv' = [solv EXCEPT ![c] = file]
    <2>1. CASE CopySolv(p)
      <3>1. CASE solv[proc[p].expired] # Absent /\ Written
        <4>1. solv[proc[p].expired] \in Solvs /\ now' \in Times /\ Target \in Caches
          BY <2>1, <3>1, CachesWritten, WrittenNow DEF CopySolv, TypeOK
        <4>2. [solv[proc[p].expired] EXCEPT !.mtime = now'] \in Solvs
          BY <4>1 DEF Solvs
        <4> QED
          BY <2>1, <3>1, <4>1, <4>2 DEF CopySolv
      <3> QED
        BY <2>1, <3>1 DEF CopySolv
    <2>2. CASE TouchSolv(p)
      <3>1. CASE proc[p].solvValid /\ Written
        <4>1. proc[p].valid \in Caches /\ solv[proc[p].valid] \in Solvs /\ now' \in Times
          BY <2>2, <3>1, CachesWritten, WrittenNow DEF TouchSolv, FoundInv, Found, Keeping, TypeOK
        <4>2. [solv[proc[p].valid] EXCEPT !.mtime = now'] \in Solvs
          BY <4>1 DEF Solvs
        <4> QED
          BY <2>2, <3>1, <4>1, <4>2 DEF TouchSolv
      <3> QED
        BY <2>2, <3>1 DEF TouchSolv
    <2>3. CASE WriteSolv(p)
      <3>1. proc[p].meta \in Versions /\ proc[p].got \in Versions
        BY <2>3, BoundsAssumption DEF WriteSolv, FoundInv, Found, TypeOK, Loader, Versions
      <3>2. CASE HasWritable /\ Written
        <4>1. now' \in Times /\ Target \in Caches
          BY <3>2, CachesWritten, WrittenNow DEF TypeOK
        <4>2. [content |-> proc[p].got, origin |-> proc[p].meta, mtime |-> now'] \in Solvs
          BY <3>1, <4>1 DEF Solvs
        <4> QED
          BY <2>3, <3>2, <4>1, <4>2 DEF WriteSolv
      <3> QED
        BY <2>3, <3>2 DEF WriteSolv
    <2> QED
      BY <2>1, <2>2, <2>3
  <1> QED
    BY <1>1, FilesAssumption DEF TypeOK

(* What the commands of another process leave of a loader and of the       *)
(* caches it uses.                                                         *)
Spares(q) ==
    \A c \in Caches : /\ solv[c] # Absent => solv'[c] # Absent
                      /\ Uses(q, c) /\ Holds(q, c) => Holds(q, c)'

LEMMA OthersKeep ==
    ASSUME TypeOK, FoundInv, NEW p \in Procs, Command(p) \/ Kill(p), NEW q \in Procs \ {p}
    PROVE  /\ proc'[q] = proc[q] /\ UNCHANGED <<writable, version>> /\ now <= now'
           /\ Undisturbed' => Undisturbed
           /\ Spares(q)
  <1> USE DEF Spares
  <1>1. proc'[q] = proc[q]
    BY DEF Command, Search, Answered, Start, Refuse, Pass, FindValid, FindExpired, Searched,
           Ask, Fail, RefreshInPlace, CopyJson, CopySolv, Touch, TouchSolv, Finalize, OpenState,
           WriteState, LoadSolv, LoadJson, WriteSolv, Kill, Goes, Becomes, TypeOK
  <1>2. now \in Nat
    BY BoundsAssumption DEF TypeOK, Times
  <1>3. CASE Quiet(p)
    BY <1>1, <1>2, <1>3, QuietKeeps DEF Holds
  <1>4. ASSUME NEW c, NEW content, Writes(p, c, content)
        PROVE  /\ UNCHANGED <<writable, version, solv>> /\ now <= now' /\ (Undisturbed' => Undisturbed)
               /\ \A d \in Caches : Uses(q, d) /\ Holds(q, d) => Holds(q, d)'
    <2>1. now <= now'
      BY <1>4, WrittenNow DEF Writes, TypeOK
    <2> QED
      BY <1>1, <1>4, <2>1 DEF Writes, Holds
  <1>5. CASE CopySolv(p) \/ TouchSolv(p) \/ WriteSolv(p)
    <2>1. /\ UNCHANGED <<writable, version, json>> /\ (now' = now \/ Written)
          /\ Undisturbed' => Undisturbed
      BY <1>5 DEF CopySolv, TouchSolv, WriteSolv, flags, Undisturbed
    <2>2. now <= now'
      BY <1>2, <2>1, WrittenNow DEF TypeOK
    <2> QED
      BY <1>1, <1>5, <2>1, <2>2, SolvStays DEF Holds
  <1>6. CASE OpenState(p) \/ WriteState(p)
    BY <1>1, <1>2, <1>6 DEF OpenState, WriteState, flags, Undisturbed, Holds
  <1>7. CASE CopyJson(p) \/ Touch(p) \/ Finalize(p)
    BY <1>1, <1>4, <1>7, IndexWritten
  <1> QED
    BY <1>3, <1>5, <1>6, <1>7 DEF Command, Answered, Quiet

(* What a loader relies on outlives the steps of all others.               *)
LEMMA FoundKept ==
    TypeOK /\ TimesInv /\ FoundInv /\ StateHonest /\ SolvHonest /\ [Next]_vars => FoundInv'
  <1> SUFFICES ASSUME TypeOK, TimesInv, FoundInv, StateHonest, SolvHonest, [Next]_vars
               PROVE  FoundInv'
    OBVIOUS
  <1>0. ASSUME NEW q \in Procs
        PROVE  /\ proc[q].valid # 0 => proc[q].valid \in Caches
               /\ proc[q].expired # 0 => proc[q].expired \in Caches
               /\ HasWritable => Target \in Caches
               /\ proc[q].stored \in Nat /\ now \in Nat
    BY CacheNumbers, TargetWritable, BoundsAssumption DEF TypeOK, Loader, Times
  <1>1. ASSUME NEW p \in Procs, Command(p) \/ Kill(p) PROVE FoundInv'
    <2>1. Found(p)'
      BY <1>1, Searches, Answers, Others DEF Command, FoundInv
    <2>2. ASSUME NEW q \in Procs \ {p} PROVE Found(q)'
      <3>1. /\ proc'[q] = proc[q] /\ now <= now' /\ now' \in Nat
            /\ Target' = Target /\ HasWritable' = HasWritable /\ (Undisturbed' => Undisturbed)
        BY <1>1, OthersKeep, FilesKept, BoundsAssumption DEF Target, HasWritable, Times
      <3>2. Spares(q)
        BY <1>1, OthersKeep
      <3>3. Found(q)
        BY DEF FoundInv
      <3>4. /\ proc[q].pc \in Looking => /\ Has(q, proc[q].valid)'
                                         /\ Has(q, proc[q].expired)'
            /\ proc[q].pc = "copySolv" => Holds(q, Target)'
            /\ proc[q].pc \in Keeping => Holds(q, proc[q].valid)'
        BY <1>0, <3>1, <3>2, <3>3 DEF Spares, Found, Has, Holds, Uses, Looking, Keeping
      <3>5. proc[q].pc = "touchSolv" /\ proc[q].solvValid => solv'[proc[q].valid] # Absent
        BY <1>0, <3>2, <3>3 DEF Spares, Found, Keeping
      <3>6. proc[q].pc = "writeState" => proc[q].stored <= now'
        BY <1>0, <3>1, <3>3 DEF Found
      <3> QED
        BY <3>1, <3>3, <3>4, <3>5, <3>6 DEF Found, Has, Holds
    <2> QED
      BY <2>1, <2>2 DEF FoundInv
  <1>2. CASE Publish \/ UNCHANGED vars
    BY <1>2 DEF Publish, vars, files, FoundInv, Found, Has, Holds, Target, HasWritable, flags, Undisturbed
  <1>3. ASSUME NEW c \in Caches, Age(c) PROVE FoundInv'
    <2> SUFFICES ASSUME NEW p \in Procs PROVE Found(p)'
      BY DEF FoundInv
    <2>1. proc' = proc /\ Undisturbed' = Undisturbed /\ solv' = solv /\ now' = now
          /\ Target' = Target /\ HasWritable' = HasWritable
      BY <1>3, IndexAges DEF Target, HasWritable, flags, Undisturbed
    <2>2. ASSUME NEW d \in Caches, Holds(p, d) PROVE Holds(p, d)'
      BY <1>3, <2>1, <2>2, IndexAges DEF Holds
    <2> QED
      BY <1>0, <2>1, <2>2 DEF FoundInv, Found, Has
  <1> QED
    BY <1>1, <1>2, <1>3 DEF Next

(* What a loader has after it asked is no older than its beginning.        *)
LEMMA AskedStep ==
    ASSUME TypeOK, FoundInv, SolvHonest, NEW p \in Procs, Asked(p), Command(p) \/ Kill(p)
    PROVE  Asked(p)'
  <1> USE DEF Asked, Keeping
  <1>0. /\ proc[p] \in Loader /\ UNCHANGED version /\ version \in Nat
        /\ proc[p].begun \in Nat /\ proc[p].answer \in Nat /\ proc[p].meta \in Nat
        /\ proc[p].got \in Nat
    <2>1. UNCHANGED version
      BY QuietKeeps, IndexWritten
      DEF Command, Quiet, Answered, Writes, CopySolv, TouchSolv, OpenState, WriteState, WriteSolv
    <2> QED
      BY <2>1, BoundsAssumption DEF TypeOK, Loader, Versions
  <1>1. CASE Start(p)
    <2>1. \E offline \in BOOLEAN :
            proc'[p] = [Idle EXCEPT !.pc = "search", !.offline = offline, !.begun = version]
      BY <1>1, Becoming DEF Start
    <2>2. /\ proc'[p].pc = "search" /\ ~proc'[p].asked /\ proc'[p].begun = version
          /\ proc'[p].got = 0
      BY <2>1 DEF Idle
    <2> QED
      BY <1>0, <2>2
  <1>2. CASE FindValid(p) \/ FindExpired(p) \/ Pass(p)
    <2>1. PICK c \in Caches :
            \/ proc'[p] = [proc[p] EXCEPT !.i = NCaches + 1, !.meta = state[c].etag,
                                          !.valid = c, !.solvValid = TRUE]
            \/ proc'[p] = [proc[p] EXCEPT !.i = c + 1, !.meta = state[c].etag, !.valid = First(@, c)]
            \/ proc'[p] = [proc[p] EXCEPT !.i = c + 1, !.meta = state[c].etag, !.expired = First(@, c)]
            \/ proc'[p] = [proc[p] EXCEPT !.i = c + 1]
      <3>1. CASE Pass(p)
        BY <3>1, Becoming DEF Pass
      <3>2. CASE FindValid(p)
        BY <3>2, Becoming DEF FindValid
      <3>3. CASE FindExpired(p)
        BY <3>3, Becoming DEF FindExpired
      <3> QED
        BY <1>2, <3>1, <3>2, <3>3
    <2>2. /\ proc'[p].pc = proc[p].pc /\ proc'[p].begun = proc[p].begun
          /\ proc'[p].asked = proc[p].asked /\ proc'[p].got = proc[p].got
      BY <2>1, <1>0 DEF Loader
    <2>3. proc[p].pc = "search"
      BY <1>2 DEF FindValid, FindExpired, Pass, Searching
    <2> QED
      BY <1>0, <2>2, <2>3
  <1>3. CASE \/ Refuse(p) \/ Searched(p) \/ Fail(p) \/ CopyJson(p) \/ TouchSolv(p) \/ WriteState(p)
             \/ WriteSolv(p)
    <2>1. \E step : /\ proc'[p] = [proc[p] EXCEPT !.pc = step]
                    /\ \/ proc[p].pc = "search" /\ step \in {"refused", "load", "done", "ask"}
                       \/ /\ proc[p].pc \in {"ask", "existing", "finalize", "writeSolv"}
                          /\ step = "done"
                       \/ /\ proc[p].pc \in {"existing", "touchSolv", "writeState"}
                          /\ step \in {"copySolv", "openState", "load"}
      BY <1>3, Becoming
      DEF Refuse, Searching, Searched, Fail, CopyJson, TouchSolv, WriteState, WriteSolv, Goes
    <2>2. Undisturbed' => Undisturbed
      BY <1>3
      DEF Refuse, Searched, Fail, CopyJson, TouchSolv, WriteState, WriteSolv, Crosses, flags, Undisturbed
    <2> QED
      BY <1>0, <2>1, <2>2 DEF Loader
  <1>8. CASE RefreshInPlace(p) \/ CopySolv(p) \/ Touch(p) \/ OpenState(p)
    <2>1. /\ proc[p].pc \in {"existing", "copySolv", "touch", "openState"} /\ (Undisturbed' => Undisturbed)
          /\ \/ proc'[p] = [proc[p] EXCEPT !.pc = "touch", !.valid = proc[p].expired]
             \/ proc'[p] = [proc[p] EXCEPT !.pc = "touch", !.valid = Target]
             \/ proc'[p] = [proc[p] EXCEPT !.pc = "touchSolv", !.solvValid = SolvNewer(proc[p].valid)]
             \/ proc'[p] = [proc[p] EXCEPT !.pc = "writeState",
                                           !.stored = json[proc[p].valid].mtime]
      BY <1>8, Becoming DEF RefreshInPlace, CopySolv, Touch, OpenState, flags, Undisturbed
    <2>2. /\ proc'[p].pc \in {"touch", "touchSolv", "writeState"}
          /\ proc'[p].begun = proc[p].begun /\ proc'[p].asked = proc[p].asked
          /\ proc'[p].got = proc[p].got /\ proc'[p].meta = proc[p].meta
      BY ZenonT(40), <1>0, <2>1 DEF Loader
    <2> QED
      BY <1>0, <2>1, <2>2
  <1>4. CASE Ask(p)
    <2>1. /\ proc'[p] = [proc[p] EXCEPT !.pc = IF proc[p].meta = version THEN "existing" ELSE "finalize",
                                        !.answer = version, !.asked = TRUE]
          /\ proc[p].pc = "ask"
      BY <1>4, Becoming DEF Ask
    <2>2. /\ proc'[p].pc = (IF proc[p].meta = version THEN "existing" ELSE "finalize")
          /\ proc'[p].answer = version /\ proc'[p].begun = proc[p].begun
          /\ proc'[p].got = proc[p].got /\ proc'[p].meta = proc[p].meta
      BY <1>0, <2>1 DEF Loader
    <2> QED
      BY <1>0, <2>1, <2>2
  <1>5. CASE Finalize(p)
    <2>1. proc'[p] = [proc[p] EXCEPT !.pc = "openState", !.meta = proc[p].answer, !.valid = Target]
      BY <1>5, Becoming DEF Finalize
    <2>2. /\ proc'[p].pc = "openState" /\ proc'[p].meta = proc[p].answer
          /\ proc'[p].begun = proc[p].begun /\ proc'[p].got = proc[p].got
          /\ proc[p].pc = "finalize"
      BY <1>0, <1>5, <2>1 DEF Finalize, Loader
    <2> QED
      BY <1>0, <2>2
  <1>6. CASE LoadSolv(p) \/ LoadJson(p)
    <2>1. \E got, step : proc'[p] = [proc[p] EXCEPT !.pc = step, !.got = got]
                            /\ step \in {"done", "writeSolv"}
                            /\ (Undisturbed => got = proc[p].meta)
      <3>1. proc[p].valid \in Caches /\ (Undisturbed => json[proc[p].valid].content = proc[p].meta)
        BY <1>6, CachesWritten DEF LoadSolv, LoadJson, FoundInv, Found, Holds
      <3>2. ASSUME LoadSolv(p), Undisturbed PROVE solv[proc[p].valid].content = proc[p].meta
        BY <3>1, <3>2 DEF LoadSolv, SolvMatches, SolvHonest
      <3> QED
        BY <1>6, <3>1, <3>2, Becoming DEF LoadSolv, LoadJson
    <2>2. /\ proc[p].pc = "load" /\ proc'[p].pc \in {"done", "writeSolv"} /\ (Undisturbed' => Undisturbed)
          /\ proc'[p].begun = proc[p].begun /\ proc'[p].asked = proc[p].asked
          /\ (Undisturbed => proc'[p].got = proc[p].meta)
      BY <1>0, <1>6, <2>1 DEF LoadSolv, LoadJson, Loader, flags, Undisturbed
    <2> QED
      BY <1>0, <2>2
  <1>7. CASE Kill(p)
    <2>1. proc'[p] = Idle
      BY <1>7, Becoming DEF Kill
    <2> QED
      BY <1>0, <2>1 DEF Idle
  <1> QED
    BY <1>1, <1>2, <1>3, <1>4, <1>5, <1>6, <1>7, <1>8 DEF Command, Search, Answered

(* Nor does another step make it older.                                    *)
LEMMA AskedKept ==
    TypeOK /\ FoundInv /\ AskedInv /\ SolvHonest /\ [Next]_vars => AskedInv'
  <1> SUFFICES ASSUME TypeOK, FoundInv, AskedInv, SolvHonest, [Next]_vars
               PROVE  AskedInv'
    OBVIOUS
  <1>1. ASSUME NEW p \in Procs, Command(p) \/ Kill(p) PROVE AskedInv'
    <2>1. Asked(p)'
      BY <1>1, AskedStep DEF AskedInv
    <2>2. ASSUME NEW q \in Procs \ {p} PROVE Asked(q)'
      BY <1>1, <2>2, OthersKeep DEF AskedInv, Asked
    <2> QED
      BY <2>1, <2>2 DEF AskedInv
  <1>2. CASE Publish
    <2>1. /\ version' > version /\ version \in Nat /\ version' \in Nat
          /\ UNCHANGED proc /\ Undisturbed' = Undisturbed /\ \A p \in Procs : proc[p].begun \in Nat
      BY <1>2, BoundsAssumption DEF Publish, TypeOK, Versions, Loader, flags, Undisturbed
    <2> QED
      BY <2>1 DEF AskedInv, Asked
  <1>3. CASE UNCHANGED vars
    BY <1>3 DEF vars, AskedInv, Asked, flags, Undisturbed
  <1>4. ASSUME NEW c \in Caches, Age(c) PROVE AskedInv'
    BY <1>4 DEF Age, AskedInv, Asked, flags, Undisturbed
  <1> QED
    BY <1>1, <1>2, <1>3, <1>4 DEF Next

-----------------------------------------------------------------------------
(* The invariant holds for the caches as other commands left them.         *)
LEMMA Initially == Init => IInv
  <1> SUFFICES ASSUME Init PROVE IInv
    OBVIOUS
  <1>1. PICK had \in [Caches -> 0..version], old \in [Caches -> BOOLEAN],
             parsed \in [Caches -> BOOLEAN] :
          /\ json = [c \in Caches |-> IF had[c] = 0 THEN Absent
                                        ELSE [content |-> had[c], mtime |-> 0, old |-> old[c]]]
          /\ state = [c \in Caches |-> IF had[c] = 0 THEN Absent
                                         ELSE [etag |-> had[c], mtime |-> 0]]
          /\ solv = [c \in Caches |-> IF had[c] = 0 \/ ~parsed[c] THEN Absent
                                        ELSE [content |-> had[c], origin |-> had[c], mtime |-> 0]]
    BY DEF Init
  <1>2. /\ \A c \in Caches : had[c] # 0 => had[c] \in Versions
        /\ 0 \in Times /\ version \in Nat
    BY BoundsAssumption DEF Init, Versions, Times
  <1>3. TypeOK
    <2>1. json \in [Caches -> Jsons \cup {Absent}]
      BY <1>1, <1>2 DEF Jsons
    <2>2. state \in [Caches -> States \cup {Absent, Torn}]
      BY <1>1, <1>2 DEF States
    <2>3. solv \in [Caches -> Solvs \cup {Absent}]
      BY <1>1, <1>2 DEF Solvs
    <2>4. proc \in [Procs -> Loader]
      BY BoundsAssumption, CachesAssumption DEF Init, Idle, Loader, Steps, Times
    <2>5. commands \in 0..MaxCommands /\ kills \in 0..MaxKills
      BY BoundsAssumption DEF Init
    <2> QED
      BY <1>2, <2>1, <2>2, <2>3, <2>4, <2>5 DEF Init, TypeOK
  <1>4. TimesInv /\ StateHonest /\ SolvHonest
    <2>1. \A c \in Caches : /\ json[c] # Absent => json[c].mtime = 0 /\ json[c].content = had[c]
                            /\ state[c] # Absent => state[c].mtime = 0 /\ state[c].etag = had[c]
                            /\ solv[c] # Absent => solv[c].content = solv[c].origin
      BY <1>1
    <2> QED
      BY <2>1 DEF Init, TimesInv, StateHonest, SolvHonest, Readable
  <1>5. FoundInv /\ AskedInv
    <2>1. \A p \in Procs : proc[p].pc = "idle" /\ proc[p].begun = 0 /\ proc[p].got = 0
      BY DEF Init, Idle
    <2> QED
      BY <1>2, <2>1 DEF FoundInv, Found, AskedInv, Asked, Looking, Keeping
  <1> QED
    BY <1>3, <1>4, <1>5 DEF IInv

(* The parts together are inductive.                                       *)
LEMMA Invariance == Spec => []IInv
  <1>1. Init => IInv
    BY Initially
  <1>2. IInv /\ [Next]_vars => IInv'
    BY TypeStep, TimesKept, StateKept, SolvKept, FoundKept, AskedKept DEF IInv
  <1> QED
    BY <1>1, <1>2, PTL DEF Spec

(* Every variable of the index cache keeps its type.                       *)
THEOREM TypeCorrect == Spec => []TypeOK
  <1>1. IInv => TypeOK
    BY DEF IInv
  <1> QED
    BY <1>1, Invariance, PTL

(* No kill between two writes, and no refresh or copy, leaves a state file *)
(* that fits an index of another version.                                  *)
THEOREM StateFilesHonest == Spec => []StateHonest
  <1>1. IInv => StateHonest
    BY DEF IInv
  <1> QED
    BY <1>1, Invariance, PTL

(* A .solv file was made from the version it gives as its origin, however  *)
(* it was copied since.                                                    *)
THEOREM SolvFilesHonest == Spec => []SolvHonest
  <1>1. IInv => SolvHonest
    BY DEF IInv
  <1> QED
    BY <1>1, Invariance, PTL

(* A command that asked the server has nothing older than what the server  *)
(* had when the command began.                                             *)
THEOREM LoadsUpToDate == Spec => []UpToDateUnmixed
  <1>1. IInv => UpToDateUnmixed
    BY DEF IInv, AskedInv, Asked, UpToDateUnmixed, UpToDate
  <1> QED
    BY <1>1, Invariance, PTL
=============================================================================
