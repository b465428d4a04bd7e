----------------------------- MODULE SubdirIndex ------------------------------
(***************************************************************************)
(* SubdirIndexLoader: the cached repodata.json of one subdir.  Every       *)
(* command searches the package caches for an index that is fresh enough,  *)
(* asks the server otherwise, with the etag it has read, and keeps what it *)
(* downloads with a state file (etag and mtime) and, once parsed, a .solv  *)
(* file that names its origin.  Commands of several processes share the    *)
(* caches; a kill may come between any two steps.                          *)
(*                                                                         *)
(* A version of the index is a number, which is its etag too.  The mtime   *)
(* of a file is a number drawn from a counter, so that two writes never    *)
(* have the same; that a file is older than its max-age is a flag which    *)
(* the environment may raise at any time.                                  *)
(***************************************************************************)
EXTENDS Naturals, FiniteSets

CONSTANTS
    Procs,         \* processes that run commands
    NCaches,       \* number of package caches, in the order they are searched
    Absent,        \* no file
    Torn,          \* a state file whose writing was cut off
    NoProc,        \* nobody has the lock
    MaxVersion,    \* bound: versions the server publishes
    MaxWrites,     \* bound: mtimes given out
    MaxCommands,   \* bound: commands that start
    MaxKills       \* bound: processes killed

Caches == 1..NCaches
Versions == 1..MaxVersion
Times == 0..MaxWrites

ASSUME CachesAssumption == NCaches \in Nat \ {0}
ASSUME BoundsAssumption ==
    /\ MaxVersion \in Nat \ {0} /\ MaxWrites \in Nat /\ MaxCommands \in Nat /\ MaxKills \in Nat
ASSUME NullsAssumption == NoProc \notin Procs

Jsons == [content : Versions, mtime : Times, old : BOOLEAN]
States == [etag : Versions, mtime : Times]
Solvs == [content : Versions, origin : Versions, mtime : Times]
ASSUME FilesAssumption ==
    Absent \notin Jsons \cup States \cup Solvs \cup {Torn} /\ Torn \notin States

VARIABLES
    writable,      \* the caches that can be written; never changes
    version,       \* what the server has
    now,           \* the last mtime given out
    json, state, solv,   \* the files in each cache
    dirLock,       \* LockFile of each cache directory
    proc,          \* the loader of each process
    commands, kills,
    mixed,         \* history: some search has read two different etags
    crossed        \* history: a command put another version into a cache that
                   \* another command was using

files == <<json, state, solv>>
counts == <<commands, kills>>
flags == <<mixed, crossed>>
vars == <<writable, version, now, files, dirLock, proc, counts, flags>>

Steps == {"idle", "search", "ask", "existing", "copySolv", "touch", "touchSolv", "finalize",
          "openState", "writeState", "load", "writeSolv", "done", "refused"}
(* i: the cache searched; meta: m_metadata's etag, 0 if none; valid and    *)
(* expired: m_valid_cache_path and m_expired_cache_path, 0 if not set;     *)
(* begun: the version of the server when the command began; got: what it   *)
(* loaded, 0 if nothing.                                                   *)
Loader == [pc : Steps, offline : BOOLEAN, i : 1..NCaches + 1, meta : 0..MaxVersion,
           valid : 0..NCaches, expired : 0..NCaches, solvValid : BOOLEAN,
           answer : 0..MaxVersion, stored : Times, begun : 0..MaxVersion,
           asked : BOOLEAN, got : 0..MaxVersion]
Idle == [pc |-> "idle", offline |-> FALSE, i |-> 1, meta |-> 0, valid |-> 0, expired |-> 0,
         solvValid |-> FALSE, answer |-> 0, stored |-> 0, begun |-> 0, asked |-> FALSE, got |-> 0]

(* Every variable of the index cache keeps its type.                       *)
TypeOK ==
    /\ writable \subseteq Caches /\ version \in Versions /\ now \in Times
    /\ json \in [Caches -> Jsons \cup {Absent}]
    /\ state \in [Caches -> States \cup {Absent, Torn}]
    /\ solv \in [Caches -> Solvs \cup {Absent}]
    /\ dirLock \in [Caches -> Procs \cup {NoProc}]
    /\ proc \in [Procs -> Loader]
    /\ commands \in 0..MaxCommands /\ kills \in 0..MaxKills
    /\ mixed \in BOOLEAN /\ crossed \in BOOLEAN

-----------------------------------------------------------------------------
(* first_writable_path().                                                  *)
HasWritable == writable # {}
Target == CHOOSE c \in writable : \A d \in writable : c <= d

Written == now < MaxWrites /\ now' = now + 1
Becomes(p, loader) == proc' = [proc EXCEPT ![p] = loader]
Goes(p, step) == Becomes(p, [proc[p] EXCEPT !.pc = step])

(* Other commands, with other lists of caches, have left an index, and     *)
(* perhaps its .solv file, in some of the caches.                          *)
Init ==
    /\ writable \in SUBSET Caches /\ version \in Versions /\ now = 0
    /\ \E had \in [Caches -> 0..version], old, parsed \in [Caches -> BOOLEAN] :
         /\ json = [c \in Caches |-> IF had[c] = 0 THEN Absent
                                       ELSE [content |-> had[c], mtime |-> 0, old |-> old[c]]]
         /\ state = [c \in Caches |-> IF had[c] = 0 THEN Absent
                                        ELSE [etag |-> had[c], mtime |-> 0]]
         /\ solv = [c \in Caches |-> IF had[c] = 0 \/ ~parsed[c] THEN Absent
                                       ELSE [content |-> had[c], origin |-> had[c], mtime |-> 0]]
    /\ dirLock = [c \in Caches |-> NoProc]
    /\ proc = [p \in Procs |-> Idle]
    /\ commands = 0 /\ kills = 0 /\ mixed = FALSE /\ crossed = FALSE

(* A command creates its loader.                                           *)
Start(p) ==
    /\ proc[p].pc \in {"idle", "done", "refused"}
    /\ commands < MaxCommands /\ commands' = commands + 1
    /\ \E offline \in BOOLEAN :
         Becomes(p, [Idle EXCEPT !.pc = "search", !.offline = offline, !.begun = version])
    /\ UNCHANGED <<writable, version, now, files, dirLock, kills, flags>>

-----------------------------------------------------------------------------
(* load_cache(): one cache at a time, under the lock of its directory.     *)

Searching(p, c) == proc[p].pc = "search" /\ c = proc[p].i /\ c \in Caches /\ dirLock[c] = NoProc

(* SubdirMetadata::read() gives the metadata.  An index without a state    *)
(* file has none: no server puts the headers into the file any more.  A    *)
(* mutant does not compare the modification times.                         *)
ReadableAnyAge(c) == json[c] # Absent /\ state[c] \notin {Absent, Torn}
Readable(c) == /\ json[c] # Absent /\ state[c] \notin {Absent, Torn}
               /\ state[c].mtime = json[c].mtime
(* Its parser throws.                                                      *)
Unparsable(c) == json[c] # Absent /\ state[c] = Torn
Fresh(p, c) == ~json[c].old \/ proc[p].offline
SolvNewer(c) == solv[c] # Absent /\ solv[c].mtime >= json[c].mtime

Read(p, c) == /\ mixed' = (mixed \/ proc[p].meta \notin {0, state[c].etag})
              /\ UNCHANGED crossed
First(known, c) == IF known = 0 THEN c ELSE known

Refuse(p) ==
    /\ \E c \in Caches : Searching(p, c) /\ Unparsable(c)
    /\ Goes(p, "refused")
    /\ UNCHANGED <<writable, version, now, files, dirLock, counts, flags>>

Pass(p) ==
    /\ \E c \in Caches : /\ Searching(p, c) /\ ~Unparsable(c) /\ ~Readable(c)
                         /\ Becomes(p, [proc[p] EXCEPT !.i = c + 1])
    /\ UNCHANGED <<writable, version, now, files, dirLock, counts, flags>>

FindValid(p) ==
    /\ \E c \in Caches :
         /\ Searching(p, c) /\ Readable(c) /\ Fresh(p, c) /\ Read(p, c)
         /\ Becomes(p, IF SolvNewer(c)
                         THEN [proc[p] EXCEPT !.i = NCaches + 1, !.meta = state[c].etag,
                                              !.valid = c, !.solvValid = TRUE]
                         ELSE [proc[p] EXCEPT !.i = c + 1, !.meta = state[c].etag,
                                              !.valid = First(@, c)])
    /\ UNCHANGED <<writable, version, now, files, dirLock, counts>>

FindExpired(p) ==
    /\ \E c \in Caches :
         /\ Searching(p, c) /\ Readable(c) /\ ~Fresh(p, c) /\ Read(p, c)
         /\ Becomes(p, [proc[p] EXCEPT !.i = c + 1, !.meta = state[c].etag,
                                       !.expired = First(@, c)])
    /\ UNCHANGED <<writable, version, now, files, dirLock, counts>>

(* Only a loader without a valid cache makes a request, and not offline.   *)
Searched(p) ==
    /\ proc[p].pc = "search" /\ proc[p].i = NCaches + 1
    /\ \/ proc[p].valid # 0 /\ Goes(p, "load")
       \/ proc[p].valid = 0 /\ proc[p].offline /\ Goes(p, "done")
       \/ proc[p].valid = 0 /\ ~proc[p].offline /\ Goes(p, "ask")
    /\ UNCHANGED <<writable, version, now, files, dirLock, counts, flags>>

(* build_index_request(): the server has not changed since meta, or sends  *)
(* the index.  The transfer may end much later.                            *)
Ask(p) ==
    /\ proc[p].pc = "ask"
    /\ Becomes(p, [proc[p] EXCEPT !.pc = IF proc[p].meta = version THEN "existing" ELSE "finalize",
                                  !.answer = version, !.asked = TRUE])
    /\ UNCHANGED <<writable, version, now, files, dirLock, counts, flags>>

(* The request fails, or nothing can be written: the index is not loaded.  *)
Fail(p) ==
    /\ \/ proc[p].pc = "ask"
       \/ proc[p].pc = "finalize" /\ ~HasWritable
       \/ proc[p].pc = "existing" /\ proc[p].expired \notin writable /\ ~HasWritable
    /\ Goes(p, "done")
    /\ UNCHANGED <<writable, version, now, files, dirLock, counts, flags>>

-----------------------------------------------------------------------------
(* The caches whose index a command goes by: those its search has found,   *)
(* then the one it keeps.  Nothing locks them from the search to the load. *)
Uses(q, c) ==
    LET at == proc[q].pc IN
    \/ at \in {"search", "ask", "existing"} /\ c \in {proc[q].valid, proc[q].expired}
    \/ at = "copySolv" /\ c = Target
    \/ at \in {"touch", "touchSolv", "openState", "writeState", "load"} /\ c = proc[q].valid

(* The command puts the content into the first writable cache.             *)
Crosses(p, content) ==
    /\ crossed' = (crossed \/ \E q \in Procs \ {p} : Uses(q, Target) /\ proc[q].meta # content)
    /\ UNCHANGED mixed

(* use_existing_cache(): the expired files are refreshed where they are,   *)
(* or copied first if they are not writable.                               *)

RefreshInPlace(p) ==
    /\ proc[p].pc = "existing" /\ proc[p].expired \in writable
    /\ Becomes(p, [proc[p] EXCEPT !.pc = "touch", !.valid = proc[p].expired])
    /\ UNCHANGED <<writable, version, now, files, dirLock, counts, flags>>

CopyJson(p) ==
    /\ proc[p].pc = "existing" /\ proc[p].expired \notin writable /\ HasWritable
    /\ dirLock[Target] = NoProc /\ dirLock' = [dirLock EXCEPT ![Target] = p]
    /\ Written
    /\ json' = [json EXCEPT ![Target] = [content |-> json[proc[p].expired].content,
                                         mtime |-> now', old |-> FALSE]]
    /\ Crosses(p, json[proc[p].expired].content)
    /\ Goes(p, "copySolv")
    /\ UNCHANGED <<writable, version, state, solv, counts>>

CopySolv(p) ==
    LET from == solv[proc[p].expired] IN
    /\ proc[p].pc = "copySolv"
    /\ \/ from # Absent /\ Written /\ solv' = [solv EXCEPT ![Target] = [from EXCEPT !.mtime = now']]
       \/ from = Absent /\ UNCHANGED <<now, solv>>
    /\ dirLock' = [dirLock EXCEPT ![Target] = NoProc]
    /\ Becomes(p, [proc[p] EXCEPT !.pc = "touch", !.valid = Target])
    /\ UNCHANGED <<writable, version, json, state, counts, flags>>

(* refresh_last_write_time(), which locks the files one by one.            *)
Touch(p) ==
    LET c == proc[p].valid IN
    /\ proc[p].pc = "touch"
    /\ Written
    /\ json' = [json EXCEPT ![c] = [@ EXCEPT !.mtime = now', !.old = FALSE]]
    /\ Becomes(p, [proc[p] EXCEPT !.pc = "touchSolv", !.solvValid = SolvNewer(c)])
    /\ UNCHANGED <<writable, version, state, solv, dirLock, counts, flags>>

TouchSolv(p) ==
    LET c == proc[p].valid IN
    /\ proc[p].pc = "touchSolv"
    /\ \/ proc[p].solvValid /\ Written /\ solv' = [solv EXCEPT ![c] = [@ EXCEPT !.mtime = now']]
       \/ ~proc[p].solvValid /\ UNCHANGED <<now, solv>>
    /\ Goes(p, "openState")
    /\ UNCHANGED <<writable, version, json, state, dirLock, counts, flags>>

(* finalize_transfer(), under the lock of the directory until the state    *)
(* file is written.  Mutants: a failed move is not looked at; the answer's *)
(* headers are not kept.                                                   *)
FinalizeOverNothing(p) ==
    /\ proc[p].pc = "finalize" /\ HasWritable
    /\ dirLock[Target] = NoProc /\ dirLock' = [dirLock EXCEPT ![Target] = p]
    /\ Written
    /\ json' = IF json[Target] # Absent THEN json
                 ELSE [json EXCEPT ![Target] = [content |-> proc[p].answer, mtime |-> now', old |-> FALSE]]
    /\ Becomes(p, [proc[p] EXCEPT !.pc = "openState", !.meta = proc[p].answer, !.valid = Target])
    /\ Crosses(p, proc[p].answer)
    /\ UNCHANGED <<writable, version, state, solv, counts>>
FinalizeKeepsMetadata(p) ==
    /\ proc[p].pc = "finalize" /\ HasWritable
    /\ dirLock[Target] = NoProc /\ dirLock' = [dirLock EXCEPT ![Target] = p]
    /\ Written
    /\ json' = [json EXCEPT ![Target] = [content |-> proc[p].answer, mtime |-> now', old |-> FALSE]]
    /\ Becomes(p, [proc[p] EXCEPT !.pc = "openState", !.valid = Target])
    /\ Crosses(p, proc[p].answer)
    /\ UNCHANGED <<writable, version, state, solv, counts>>
Finalize(p) ==
    /\ proc[p].pc = "finalize" /\ HasWritable
    /\ dirLock[Target] = NoProc /\ dirLock' = [dirLock EXCEPT ![Target] = p]
    /\ Written
    /\ json' = [json EXCEPT ![Target] = [content |-> proc[p].answer, mtime |-> now', old |-> FALSE]]
    /\ Becomes(p, [proc[p] EXCEPT !.pc = "openState", !.meta = proc[p].answer, !.valid = Target])
    /\ Crosses(p, proc[p].answer)
    /\ UNCHANGED <<writable, version, state, solv, counts>>

(* store_file_metadata() and write_state_file(), which truncates the file  *)
(* before it writes: under the lock of the directory after a transfer,     *)
(* under that of the state file after a refresh.                           *)
StateLocked(c) ==
    \E q \in Procs : proc[q].pc = "writeState" /\ proc[q].valid = c /\ dirLock[c] # q

OpenState(p) ==
    /\ proc[p].pc = "openState"
    /\ dirLock[proc[p].valid] = p \/ ~StateLocked(proc[p].valid)
    /\ state' = [state EXCEPT ![proc[p].valid] = Torn]
    /\ Becomes(p, [proc[p] EXCEPT !.pc = "writeState", !.stored = json[proc[p].valid].mtime])
    /\ UNCHANGED <<writable, version, now, json, solv, dirLock, counts, flags>>

Unlocked(p) == [c \in Caches |-> IF dirLock[c] = p THEN NoProc ELSE dirLock[c]]

WriteState(p) ==
    /\ proc[p].pc = "writeState"
    /\ state' = [state EXCEPT ![proc[p].valid] = [etag |-> proc[p].meta, mtime |-> proc[p].stored]]
    /\ dirLock' = Unlocked(p)
    /\ Goes(p, "load")
    /\ UNCHANGED <<writable, version, now, json, solv, counts, flags>>

-----------------------------------------------------------------------------
(* load_subdir_in_database(): the .solv file if it has the origin that the *)
(* metadata names, else the index, from which a new .solv file is made.    *)

SolvMatches(p) ==
    LET c == proc[p].valid IN
    proc[p].solvValid /\ solv[c] # Absent /\ solv[c].origin = proc[p].meta

LoadSolv(p) ==
    /\ proc[p].pc = "load" /\ SolvMatches(p)
    /\ Becomes(p, [proc[p] EXCEPT !.pc = "done", !.got = solv[proc[p].valid].content])
    /\ UNCHANGED <<writable, version, now, files, dirLock, counts, flags>>

LoadJson(p) ==
    /\ proc[p].pc = "load" /\ ~SolvMatches(p)
    /\ Becomes(p, [proc[p] EXCEPT !.pc = "writeSolv", !.got = json[proc[p].valid].content])
    /\ UNCHANGED <<writable, version, now, files, dirLock, counts, flags>>

WriteSolv(p) ==
    /\ proc[p].pc = "writeSolv"
    /\ \/ /\ HasWritable /\ Written
          /\ solv' = [solv EXCEPT ![Target] = [content |-> proc[p].got, origin |-> proc[p].meta,
                                               mtime |-> now']]
       \/ ~HasWritable /\ UNCHANGED <<now, solv>>
    /\ Goes(p, "done")
    /\ UNCHANGED <<writable, version, json, state, dirLock, counts, flags>>

-----------------------------------------------------------------------------
(* The surroundings.                                                       *)

Kill(p) ==
    /\ kills < MaxKills /\ kills' = kills + 1
    /\ proc[p].pc \notin {"idle", "done", "refused"}
    /\ Becomes(p, Idle) /\ dirLock' = Unlocked(p)
    /\ UNCHANGED <<writable, version, now, files, commands, flags>>

Publish ==
    /\ version < MaxVersion /\ version' = version + 1
    /\ UNCHANGED <<writable, now, files, dirLock, proc, counts, flags>>

(* An index gets older than its max-age.                                   *)
Age(c) ==
    /\ json[c] # Absent /\ ~json[c].old
    /\ json' = [json EXCEPT ![c] = [@ EXCEPT !.old = TRUE]]
    /\ UNCHANGED <<writable, version, now, state, solv, dirLock, proc, counts, flags>>

Search(p) == Refuse(p) \/ Pass(p) \/ FindValid(p) \/ FindExpired(p) \/ Searched(p)
Answered(p) == RefreshInPlace(p) \/ CopyJson(p) \/ CopySolv(p) \/ Touch(p) \/ TouchSolv(p)
               \/ Finalize(p) \/ OpenState(p) \/ WriteState(p)
Command(p) == Start(p) \/ Search(p) \/ Ask(p) \/ Fail(p) \/ Answered(p)
              \/ LoadSolv(p) \/ LoadJson(p) \/ WriteSolv(p)
Next == Publish \/ (\E c \in Caches : Age(c)) \/ (\E p \in Procs : Command(p) \/ Kill(p))

Spec == Init /\ [][Next]_vars

-----------------------------------------------------------------------------
(* A command that asked the server has an index at least as new as the one *)
(* the server had when the command began: after a 304 too, the file that   *)
(* is taken for valid is the one whose etag was sent.  This is what "the   *)
(* caches are checked for a valid and up to date index" means to a user.   *)
(* It does not hold when a search has read the state of two caches: the    *)
(* etag sent may be the second's, the index kept the first's.              *)
UpToDate ==
    \A p \in Procs : proc[p].pc = "done" /\ proc[p].asked /\ proc[p].got # 0
                       => proc[p].got >= proc[p].begun

(* No search has met indexes of two versions, and no command has put       *)
(* another version into a cache that another one was using: the directory  *)
(* is locked for each search and each write, not from the one to the       *)
(* other, and refresh_last_write_time() and the load do without that lock. *)
Undisturbed == ~mixed /\ ~crossed

(* The same as long as nothing of the kind has happened.                   *)
UpToDateUnmixed == Undisturbed => UpToDate

(* A state file that fits its index names the version that is in it:       *)
(* neither a kill between two writes nor what other commands write pairs   *)
(* an etag with another content, but for the two cases of Undisturbed.     *)
StateHonest == Undisturbed => \A c \in Caches : Readable(c) => state[c].etag = json[c].content

(* A .solv file was made from the version that it gives as its origin,     *)
(* whichever commands wrote, copied and refreshed it.                      *)
SolvHonest == Undisturbed => \A c \in Caches : solv[c] # Absent => solv[c].content = solv[c].origin

(* The directory locks "synchronize access" to the cache: a state file     *)
(* that fits its index names what is in it, whatever other commands wrote. *)
(* It does not hold when one refreshes what another has just replaced.     *)
StateHonestUnmixed ==
    ~mixed => \A c \in Caches : Readable(c) => state[c].etag = json[c].content

(* "Download the missing, invalid, or outdated indexes as needed"          *)
(* (subdir_index.hpp): no file left in a cache makes a command give up.    *)
(* It does not hold after a kill in the middle of a state file.            *)
NeverRefused == \A p \in Procs : proc[p].pc # "refused"
=============================================================================
