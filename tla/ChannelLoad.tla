------------------------------ MODULE ChannelLoad ------------------------------
(***************************************************************************)
(* load_channels(): the package records the solver will see.  Each subdir  *)
(* (channel and platform) is loaded into the database from its full        *)
(* repodata.json, or, when the server has shards, only as far as the       *)
(* packages reachable from the requested ones: RepodataSubset walks the    *)
(* dependencies over the shards of the subdirs of one channel.             *)
(*                                                                         *)
(* Subdirs are the positions 1..NSubdirs of the vector of loaders.  A node *)
(* <<i, p>> is package name p in subdir i, with all its records; the       *)
(* dependencies of a node are names.  Names are abstract, and the records  *)
(* of other python versions that parse_shard_msgpack() drops are left out. *)
(***************************************************************************)
EXTENDS Naturals, FiniteSets

CONSTANTS
    Packages,      \* names of packages
    NSubdirs,      \* how many subdirs are configured
    Channels,      \* their channels
    Channel,       \* the channel of each subdir
    Noarch,        \* subdirs of the platform noarch
    Roots,         \* names the command asks for
    Servers,       \* what the servers may have
    Starts,        \* how commands start: online or not, with which caches
    UseShards,     \* use_sharded_repodata
    MaxFailures    \* bound: downloads and parses that fail

Subdirs == 1..NSubdirs
Nodes == Subdirs \X Packages
(* What a subdir publishes: its names, their dependencies, whether it has shards. *)
ServerStates == [index : [Subdirs -> SUBSET Packages],
                 deps : [Nodes -> SUBSET Packages],
                 sharded : SUBSET Subdirs]
StartStates == [offline : BOOLEAN, valid : SUBSET Subdirs, cachedIndex : SUBSET Subdirs]

ASSUME SubdirsAssumption ==
    /\ NSubdirs \in Nat \ {0}
    /\ Channel \in [Subdirs -> Channels] /\ Noarch \subseteq Subdirs
ASSUME InputsAssumption ==
    /\ Roots \subseteq Packages /\ Servers \subseteq ServerStates /\ Starts \subseteq StartStates
    /\ UseShards \in BOOLEAN /\ MaxFailures \in Nat

Errors == {"interrupted", "indexes", "subdir", "load", "corrupted"}

VARIABLES
    server, offline,           \* the surroundings of the command
    hasShards,                 \* subdirs whose metadata says that shards are there
    cachedIndex,               \* subdirs whose shard index is cached and fresh
    valid,                     \* valid_cache_found(): a full index is there to load
    roots,                     \* effective_shard_root_packages
    rootsAfterFlat,            \* their number after the flat pass (here: the set)
    phase, pass, cur,          \* where load_all_subdirs() is
    mixed, expand,             \* shard_then_expand, expand_shard_roots_from_loaded_shards
    fullRepos,                 \* full_repos_for_shard_roots
    walk,                      \* RepodataSubset of the subdir being loaded
    flat,                      \* subdirs whose full repo is in the database
    prioritized,               \* those of them that got the priority of their channel
    shard,                     \* loaded_subdirs_with_shards: the names of each repo
    kept,                      \* the sharded repos an earlier attempt left there
    firstPass,                 \* history: the sharded repos before the follow-up pass
    loadingFailed, isRetry, errors, failures

surroundings == <<server, offline>>
metadata == <<hasShards, cachedIndex, valid>>
rootVars == <<roots, rootsAfterFlat>>
position == <<phase, pass, cur>>
passVars == <<mixed, expand, fullRepos>>
database == <<flat, prioritized, shard, kept, firstPass>>
outcome == <<loadingFailed, isRetry, errors>>
vars == <<surroundings, metadata, rootVars, position, passVars, walk, database,
          outcome, failures>>

NoRepos == [i \in Subdirs |-> {}]
NoWalk == [group |-> {}, visited |-> {}, pending |-> {}, present |-> {}]
Walks == [group : SUBSET Subdirs, visited : SUBSET Nodes, pending : SUBSET Nodes,
          present : SUBSET Nodes]

(* Every variable of the loader keeps its type.                            *)
TypeOK ==
    /\ server \in ServerStates /\ offline \in BOOLEAN
    /\ hasShards \subseteq Subdirs /\ cachedIndex \subseteq Subdirs /\ valid \subseteq Subdirs
    /\ roots \subseteq Packages /\ rootsAfterFlat \subseteq Packages
    /\ phase \in {"check", "indexes", "load", "walk", "fallback", "ended"}
    /\ pass \in {"flat", "shard", "again"} /\ cur \in 1..NSubdirs + 1
    /\ mixed \in BOOLEAN /\ expand \in BOOLEAN /\ fullRepos \subseteq Subdirs
    /\ walk \in Walks
    /\ prioritized \subseteq flat /\ flat \subseteq Subdirs
    /\ shard \in [Subdirs -> SUBSET Packages] /\ kept \in [Subdirs -> SUBSET Packages]
    /\ firstPass \in [Subdirs -> SUBSET Packages]
    /\ loadingFailed \in BOOLEAN /\ isRetry \in BOOLEAN /\ errors \subseteq Errors
    /\ failures \in 0..MaxFailures
    /\ phase \in {"walk", "fallback"} => cur \in Subdirs

-----------------------------------------------------------------------------
(* Names and dependencies.                                                 *)

SameChannel(i) == {j \in Subdirs : Channel[j] = Channel[i]}

(* use_shards of a subdir.                                                 *)
Sharded == IF UseShards /\ Roots # {} THEN hasShards ELSE {}

(* The nodes that have a name of the set, within a group of subdirs.       *)
NodesOf(group, names) == {n \in Nodes : n[1] \in group /\ n[2] \in names \cap server.index[n[1]]}

(* extract_dependencies_impl() over some shards.                           *)
Mentioned(nodes) == UNION {server.deps[n] : n \in nodes}

(* neighbors() of a batch: names are looked up in every shard index of the *)
(* group.  A mutant looks in the node's own subdir only.                   *)
NeighborsOfSameSubdir(group, nodes) ==
    UNION {NodesOf({n[1]}, server.deps[n]) : n \in nodes}
Neighbors(group, nodes) == NodesOf(group, Mentioned(nodes))

(* Least set of names that has the given ones and, with each, what its     *)
(* records in these subdirs mention.                                       *)
Closed(repos, names) == \A n \in NodesOf(repos, names) : server.deps[n] \subseteq names
Reachable(repos, names) ==
    {p \in Packages : \A S \in SUBSET Packages : names \subseteq S /\ Closed(repos, S) => p \in S}

(* Names the database has of a subdir.                                     *)
InDatabase(i) == IF i \in flat THEN server.index[i] ELSE shard[i] \cup kept[i]

Fails(b) == failures' = (IF b THEN failures + 1 ELSE failures) /\ failures' <= MaxFailures

-----------------------------------------------------------------------------
Init ==
    /\ server \in Servers
    /\ \E s \in Starts : /\ offline = s.offline /\ valid = s.valid
                         /\ cachedIndex = s.cachedIndex \cap server.sharded
    /\ hasShards = {} /\ roots = Roots /\ rootsAfterFlat = Roots
    /\ phase = "check" /\ pass = "shard" /\ cur = 1
    /\ mixed = FALSE /\ expand = FALSE /\ fullRepos = {} /\ walk = NoWalk
    /\ flat = {} /\ prioritized = {} /\ shard = NoRepos /\ kept = NoRepos /\ firstPass = NoRepos
    /\ loadingFailed = FALSE /\ isRetry = FALSE /\ errors = {} /\ failures = 0

(* download_subdir_indexes(): the HEAD requests, and the shard indexes     *)
(* that are cached.  A request that fails says: no shards.                 *)
Check ==
    /\ phase = "check"
    /\ \E found \in SUBSET (server.sharded \ cachedIndex) :
         /\ hasShards' = cachedIndex \cup found
         /\ Fails(~offline /\ hasShards' # server.sharded)
    /\ phase' = "indexes"
    /\ UNCHANGED <<surroundings, cachedIndex, valid, rootVars, pass, cur, passVars, walk,
                   database, outcome>>

(* The full indexes of the others.  Only a subdir noarch has to be there.  *)
FetchIndexes ==
    /\ phase = "indexes"
    /\ LET missing == (Subdirs \ Sharded) \ valid IN
       \E got \in SUBSET (IF offline THEN {} ELSE missing) :
         /\ Fails(~offline /\ got # missing)
         /\ valid' = valid \cup got
         /\ errors' = IF ~offline /\ Noarch \cap (missing \ got) # {}
                        THEN errors \cup {"indexes"} ELSE errors
    /\ mixed' = (Sharded # {})
    /\ pass' = IF mixed' THEN "flat" ELSE "shard"
    /\ phase' = "load" /\ cur' = 1 /\ expand' = FALSE /\ fullRepos' = {}
    /\ UNCHANGED <<surroundings, hasShards, cachedIndex, rootVars, walk, database,
                   loadingFailed, isRetry>>

(* Ctrl-C during either batch of downloads.                                *)
Interrupt ==
    /\ phase \in {"check", "indexes"}
    /\ phase' = "ended" /\ errors' = errors \cup {"interrupted"}
    /\ UNCHANGED <<surroundings, metadata, rootVars, pass, cur, passVars, walk, database,
                   loadingFailed, isRetry, failures>>

-----------------------------------------------------------------------------
(* try_load() of the subdir cur.                                           *)

Skipped(i) ==
    \/ pass = "flat" /\ i \in Sharded
    \/ pass # "flat" /\ mixed /\ i \notin Sharded
    \/ shard[i] # {}
Loading(i) == phase = "load" /\ i = cur /\ i \in Subdirs /\ ~Skipped(i)
Advance == phase' = "load" /\ cur' = cur + 1 /\ UNCHANGED pass

(* The repo of a full index that was loaded.                               *)
AddFlat(i) ==
    /\ flat' = flat \cup {i}
    /\ prioritized' = IF i \in Sharded THEN prioritized ELSE prioritized \cup {i}
    /\ fullRepos' = IF pass = "flat" THEN fullRepos \cup {i} ELSE fullRepos
    /\ Advance

(* Neither shards nor the full index gave a repo.  A mutant clears the     *)
(* cache and does not ask for the retry.                                   *)
LoadFailedQuietly(i) ==
    /\ errors' = IF isRetry THEN errors \cup {"load"} ELSE errors
    /\ valid' = IF isRetry THEN valid ELSE valid \ {i}
    /\ UNCHANGED loadingFailed
    /\ Advance
LoadFailed(i) ==
    /\ errors' = IF isRetry THEN errors \cup {"load"} ELSE errors
    /\ valid' = IF isRetry THEN valid ELSE valid \ {i}
    /\ loadingFailed' = (loadingFailed \/ ~isRetry)
    /\ Advance

Skip ==
    /\ phase = "load" /\ cur \in Subdirs /\ Skipped(cur)
    /\ Advance
    /\ UNCHANGED <<surroundings, metadata, rootVars, passVars, walk, database, outcome, failures>>

NotThere ==
    /\ Loading(cur) /\ cur \notin valid \cup Sharded
    /\ errors' = IF ~offline /\ cur \in Noarch THEN errors \cup {"subdir"} ELSE errors
    /\ Advance
    /\ UNCHANGED <<surroundings, metadata, rootVars, passVars, walk, database, loadingFailed,
                   isRetry, failures>>

(* load_subdir_in_database(), which may find a corrupted file.             *)
LoadFlat ==
    /\ Loading(cur) /\ cur \in valid \ Sharded
    /\ AddFlat(cur)
    /\ UNCHANGED <<surroundings, metadata, rootVars, mixed, expand, walk, shard, kept, firstPass,
                   outcome, failures>>

FailFlat ==
    /\ Loading(cur) /\ cur \in valid \ Sharded
    /\ Fails(TRUE) /\ LoadFailed(cur)
    /\ UNCHANGED <<surroundings, hasShards, cachedIndex, rootVars, passVars, walk, database, isRetry>>

-----------------------------------------------------------------------------
(* load_subdir_with_shards().                                              *)

(* fetch_and_parse_shard_index() for the subdirs of the channel of i that  *)
(* have shards: a cached index is there, the others are downloaded.        *)
ShardIndexes(i, has) ==
    {group \in SUBSET (SameChannel(i) \cap has) :
        /\ SameChannel(i) \cap cachedIndex \subseteq group
        /\ offline => group \subseteq cachedIndex}

(* One more HEAD request is made for those that seem to have no shards.    *)
OpenShards ==
    /\ Loading(cur) /\ cur \in Sharded
    /\ \E found \in SUBSET ((SameChannel(cur) \cap server.sharded) \ hasShards) :
         /\ offline => found = {}
         /\ hasShards' = hasShards \cup found
         /\ \E group \in ShardIndexes(cur, hasShards') :
              /\ cur \in group
              /\ Fails(~offline /\ group # SameChannel(cur) \cap hasShards')
              /\ cachedIndex' = cachedIndex \cup group
              /\ walk' = [NoWalk EXCEPT !.group = group, !.pending = NodesOf(group, roots)]
    /\ phase' = "walk"
    /\ UNCHANGED <<surroundings, valid, rootVars, pass, cur, passVars, database, outcome>>

(* The index of the subdir itself could not be had.                        *)
FailShardIndex ==
    /\ Loading(cur) /\ cur \in Sharded \ cachedIndex
    /\ Fails(~offline)
    /\ phase' = "fallback"
    /\ UNCHANGED <<surroundings, metadata, rootVars, pass, cur, passVars, walk, database, outcome>>

(* fetch_shards(): from memory, from the cache or downloaded; the ones     *)
(* that fail are left out.                                                 *)
FetchShards(nodes) == SUBSET nodes

(* One round of reachable_bfs().  A shard that could not be fetched is     *)
(* visited all the same, and has no neighbors.  A mutant forgets that a    *)
(* node has been visited.                                                  *)
BatchForgets ==
    /\ phase = "walk" /\ walk.pending # {}
    /\ \E got \in FetchShards(walk.pending) :
         /\ Fails(got # walk.pending)
         /\ walk' = [walk EXCEPT !.visited = @ \cup walk.pending,
                                 !.present = @ \cup got,
                                 !.pending = Neighbors(walk.group, got)]
    /\ UNCHANGED <<surroundings, metadata, rootVars, position, passVars, database, outcome>>
Batch ==
    /\ phase = "walk" /\ walk.pending # {}
    /\ \E got \in FetchShards(walk.pending) :
         /\ Fails(got # walk.pending)
         /\ LET visited == walk.visited \cup walk.pending IN
            walk' = [walk EXCEPT !.visited = visited,
                                 !.present = @ \cup got,
                                 !.pending = Neighbors(walk.group, got) \ visited]
    /\ UNCHANGED <<surroundings, metadata, rootVars, position, passVars, database, outcome>>

(* What the walk found of a subdir; a repo is made of it, unless there is  *)
(* one since a subdir of the same channel was loaded.                      *)
Found(j) == {n[2] : n \in {m \in walk.visited : m[1] = j}}
NewRepos == {j \in walk.group : shard[j] = {} /\ Found(j) # {}}
AllPresent == walk.pending = {} /\ walk.visited \subseteq walk.present

AddShards ==
    /\ phase = "walk" /\ AllPresent
    /\ roots' = IF expand THEN roots \cup Mentioned(walk.visited) ELSE roots
    /\ shard' = [j \in Subdirs |-> IF j \in NewRepos THEN Found(j) ELSE shard[j]]
    /\ IF NewRepos # {} THEN Advance ELSE phase' = "fallback" /\ UNCHANGED <<pass, cur>>
    /\ walk' = NoWalk
    /\ UNCHANGED <<surroundings, metadata, rootsAfterFlat, passVars, flat, prioritized, kept,
                   firstPass, outcome, failures>>

ShardMissing ==
    /\ phase = "walk" /\ walk.pending = {} /\ ~AllPresent
    /\ phase' = "fallback" /\ walk' = NoWalk
    /\ UNCHANGED <<surroundings, metadata, rootVars, pass, cur, passVars, database, outcome, failures>>

(* load_single_subdir() without shards: the full index that is there, or   *)
(* one that is downloaded now.                                             *)
Fallback ==
    /\ phase = "fallback"
    /\ cur \in valid \/ ~offline
    /\ valid' = valid \cup {cur}
    /\ AddFlat(cur)
    /\ UNCHANGED <<surroundings, hasShards, cachedIndex, rootVars, mixed, expand, walk, shard, kept,
                   firstPass, outcome, failures>>

FailFallback ==
    /\ phase = "fallback"
    /\ Fails(cur \in valid \/ ~offline) /\ LoadFailed(cur)
    /\ UNCHANGED <<surroundings, hasShards, cachedIndex, rootVars, passVars, walk, database, isRetry>>

-----------------------------------------------------------------------------
(* load_all_subdirs(): the passes.                                         *)

PassOver == phase = "load" /\ cur = NSubdirs + 1

(* After the full repos: roots from them, for the shards of other channels.*)
FlatPassOver ==
    /\ PassOver /\ pass = "flat"
    /\ roots' = Reachable(fullRepos, roots) /\ rootsAfterFlat' = roots'
    /\ expand' = (\E i, j \in hasShards : Channel[i] # Channel[j])
    /\ pass' = "shard" /\ cur' = 1
    /\ UNCHANGED <<surroundings, metadata, phase, mixed, fullRepos, walk, database, outcome, failures>>

(* The shards named new roots: their repos go, and are loaded once more.   *)
(* A mutant leaves out the first subdir.                                   *)
FollowUp == pass = "shard" /\ expand /\ roots # rootsAfterFlat
LoadAgainFromSecond ==
    /\ PassOver /\ FollowUp
    /\ firstPass' = shard /\ shard' = NoRepos
    /\ pass' = "again" /\ cur' = 2
    /\ UNCHANGED <<surroundings, metadata, rootVars, phase, passVars, walk, flat, prioritized, kept,
                   outcome, failures>>
LoadAgain ==
    /\ PassOver /\ FollowUp
    /\ firstPass' = shard /\ shard' = NoRepos
    /\ pass' = "again" /\ cur' = 1
    /\ UNCHANGED <<surroundings, metadata, rootVars, phase, passVars, walk, flat, prioritized, kept,
                   outcome, failures>>

(* load_channels_impl(): the end, or everything once more with new loaders *)
(* and the same database.                                                  *)
Retry == loadingFailed /\ ~offline /\ ~isRetry
LastPassOver == PassOver /\ pass # "flat" /\ ~FollowUp

Restart ==
    /\ LastPassOver /\ Retry
    /\ phase' = "check" /\ isRetry' = TRUE /\ loadingFailed' = FALSE /\ errors' = {}
    /\ roots' = Roots /\ rootsAfterFlat' = Roots
    /\ kept' = [i \in Subdirs |-> kept[i] \cup shard[i]]
    /\ shard' = NoRepos /\ firstPass' = NoRepos /\ hasShards' = {}
    /\ UNCHANGED <<surroundings, cachedIndex, valid, pass, cur, passVars, walk, flat, prioritized,
                   failures>>

Finish ==
    /\ LastPassOver /\ ~Retry
    /\ phase' = "ended"
    /\ errors' = IF loadingFailed THEN errors \cup {"corrupted"} ELSE errors
    /\ UNCHANGED <<surroundings, metadata, rootVars, pass, cur, passVars, walk, database,
                   loadingFailed, isRetry, failures>>

Next == \/ Check \/ FetchIndexes \/ Interrupt
        \/ Skip \/ NotThere \/ LoadFlat \/ FailFlat
        \/ OpenShards \/ FailShardIndex \/ Batch \/ AddShards \/ ShardMissing
        \/ Fallback \/ FailFallback
        \/ FlatPassOver \/ LoadAgain \/ Restart \/ Finish

Spec == Init /\ [][Next]_vars
(* The loader runs alone, and each of its downloads ends.                  *)
FairSpec == Spec /\ WF_vars(Next)

-----------------------------------------------------------------------------
Loaded == phase = "ended" /\ errors = {}
Healthy == failures = 0 /\ ~offline

(* A load that reports no error has every requested name that a subdir     *)
(* publishes, whichever downloads failed on the way; only a subdir that is *)
(* not noarch may be missing as a whole.                                   *)
NoRootLost ==
    Loaded /\ ~offline =>
      \A i \in Subdirs :
        \/ Roots \cap server.index[i] \subseteq InDatabase(i)
        \/ i \notin Noarch /\ InDatabase(i) = {}

(* The follow-up pass removes the repos of the first shard pass; a load    *)
(* without error has all their names again.                                *)
SecondPassKeeps ==
    Loaded /\ pass = "again" => \A i \in Subdirs : firstPass[i] \subseteq InDatabase(i)

(* Names that a chain of dependencies needs, from one group of subdirs.    *)
Needs(repos, names) == NodesOf(repos, Reachable(repos, names))
HasNodes(nodes) == \A n \in nodes : n[2] \in InDatabase(n[1])

(* When nothing fails, a dependency found in one channel, and followed     *)
(* into another one, is in the database with all that it needs there: the  *)
(* roots from full repos and the follow-up pass close over one change of   *)
(* channel, unless it is from a lone sharded channel to a full repo.       *)
OneCrossing ==
    Loaded /\ Healthy =>
      \A i, j \in Subdirs :
        LET near == Needs(SameChannel(i) \cap Sharded, Roots)
            far == SameChannel(j) \cap Sharded
        IN /\ HasNodes(near)
           /\ i \in Sharded => HasNodes(Needs(far, Mentioned(near)))
           /\ HasNodes(Needs(far, Mentioned(Needs(Subdirs \ Sharded, Roots))))

(* The promise that "shard-based loads stay complete across channels"      *)
(* (channel_loader.hpp): when nothing fails, whatever the requested names  *)
(* need is in the database.  It does not hold: a name that a full repo     *)
(* needs on behalf of a package from shards is not looked up in the shards.*)
Complete == Loaded /\ Healthy => HasNodes(Needs(Subdirs, Roots))

(* Every repo has the priority of its channel, as the comment in           *)
(* try_load() says of the repos whose priority it leaves alone: the        *)
(* default, 0, is that of the last channel only.  It does not hold after   *)
(* the fallback of a sharded subdir to its full index.                     *)
PrioritiesSet ==
    Loaded => \A i \in flat \ prioritized : Channel[i] = Channel[NSubdirs]

(* Loading comes to an end, even when dependencies form a cycle.           *)
LoadEnds == <>(phase = "ended")
=============================================================================
