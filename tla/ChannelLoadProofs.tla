--------------------------- MODULE ChannelLoadProofs ---------------------------
(***************************************************************************)
(* What the database has when channels have been loaded, for any channels, *)
(* servers, caches and failures.                                           *)
(*                                                                         *)
(* A repo made of shards has the requested names because each walk starts  *)
(* from them (RootsInRepos).  That each noarch subdir has a repo takes an  *)
(* account of the passes (Progress): the flat pass has loaded those        *)
(* without shards, the shard passes those before cur; a subdir that turns  *)
(* out to have shards in between was loaded by the flat pass.              *)
(*                                                                         *)
(* What the first shard pass had is found again by the follow-up pass: its *)
(* names are in every set of nodes that covers the roots (Needed), roots   *)
(* and shard indexes only grow, and the nodes of a walk that has all its   *)
(* shards are such a set (WalkInv).  For the same reason a load in which   *)
(* nothing fails has what its roots need (ReposHave); which names have     *)
(* become roots by then depends on the pass (RootsKnown).                  *)
(***************************************************************************)
EXTENDS ChannelLoad, TLAPS

(* A subdir has some repo in the database, or nothing that is asked for.   *)
Settled(i) == i \in flat \/ shard[i] # {} \/ kept[i] # {} \/ Roots \cap server.index[i] = {}

RootsInRepos ==
    /\ Roots \subseteq roots
    /\ \A i \in Subdirs : shard[i] # {} => Roots \cap server.index[i] \subseteq shard[i]
    /\ \A i \in Subdirs : kept[i] # {} => Roots \cap server.index[i] \subseteq kept[i]
RootsInWalk ==
    phase = "walk" => /\ cur \in walk.group
                      /\ NodesOf(walk.group, Roots) \subseteq walk.visited \cup walk.pending

InPass == phase \in {"load", "walk", "fallback"}
Clean == errors = {} /\ ~loadingFailed /\ ~offline
Modes ==
    /\ InPass /\ ~mixed => Sharded = {} /\ pass # "flat"
    /\ isRetry => ~loadingFailed
    /\ phase \in {"check", "indexes"} => ~loadingFailed
    /\ phase \in {"walk", "fallback"} => cur \in Sharded /\ pass # "flat"
    /\ phase \in {"check", "indexes"} \/ pass = "flat" => shard = NoRepos
Progress ==
    /\ InPass /\ Clean /\ pass = "flat" =>
         \A i \in Noarch : i < cur /\ i \notin Sharded => i \in flat
    /\ InPass /\ Clean /\ pass # "flat" =>
         \A i \in Noarch : (mixed /\ i \notin Sharded => i \in flat) /\ (i < cur => Settled(i))
    /\ Loaded /\ ~offline => \A i \in Noarch : Settled(i)

Inv == TypeOK /\ RootsInRepos /\ RootsInWalk /\ Modes /\ Progress

-----------------------------------------------------------------------------
(* What the helpers return.                                                *)

(* A group's nodes are nodes.                                              *)
LEMMA NodesOfType == \A group, names : NodesOf(group, names) \subseteq Nodes
  BY DEF NodesOf

(* What nodes mention are packages.                                        *)
LEMMA MentionedType ==
    ASSUME server \in ServerStates, NEW nodes, nodes \subseteq Nodes
    PROVE  Mentioned(nodes) \subseteq Packages
  BY DEF Mentioned, ServerStates

(* What is reachable from names contains these names.                      *)
LEMMA ReachableContains ==
    ASSUME NEW repos, NEW names, names \subseteq Packages
    PROVE  names \subseteq Reachable(repos, names) /\ Reachable(repos, names) \subseteq Packages
  BY DEF Reachable

(* Failures stay within their bound.                                       *)
LEMMA FailsType ==
    ASSUME NEW b \in BOOLEAN, failures \in 0..MaxFailures, Fails(b)
    PROVE  failures' \in 0..MaxFailures
  BY InputsAssumption DEF Fails

(* Only a subdir that has shards is loaded from them.                      *)
LEMMA ShardedIs == Sharded \subseteq hasShards
  BY DEF Sharded
(* Shards are looked for in subdirs only.                                  *)
LEMMA ShardedType == TypeOK => Sharded \subseteq Subdirs
  BY ShardedIs DEF TypeOK

-----------------------------------------------------------------------------
(* Each action keeps the types.                                            *)

(* The types hold in the beginning.                                        *)
LEMMA TypeInit == Init => TypeOK
  <1> SUFFICES ASSUME Init PROVE TypeOK
    OBVIOUS
  <1>1. server \in ServerStates
    BY InputsAssumption DEF Init
  <1>2. offline \in BOOLEAN /\ valid \subseteq Subdirs /\ cachedIndex \subseteq Subdirs
    <2>1. PICK s \in Starts : offline = s.offline /\ valid = s.valid
                               /\ cachedIndex = s.cachedIndex \cap server.sharded
      BY DEF Init
    <2>2. s \in StartStates
      BY InputsAssumption
    <2> QED
      BY <2>1, <2>2 DEF StartStates
  <1>3. walk \in Walks
    BY DEF Init, NoWalk, Walks
  <1>4. shard \in [Subdirs -> SUBSET Packages] /\ kept = shard /\ firstPass = shard
    BY DEF Init, NoRepos
  <1>5. failures \in 0..MaxFailures /\ cur \in 1..NSubdirs + 1
    BY SubdirsAssumption, InputsAssumption DEF Init
  <1> QED
    BY <1>1, <1>2, <1>3, <1>4, <1>5, InputsAssumption DEF Init, TypeOK

(* Every variable keeps its type.                                          *)
LEMMA TypeStep == TypeOK /\ [Next]_vars => TypeOK'
  <1> SUFFICES ASSUME TypeOK, [Next]_vars PROVE TypeOK'
    OBVIOUS
  <1> USE DEF surroundings, metadata, rootVars, position, passVars, database, outcome
  <1> USE SubdirsAssumption DEF Subdirs
  <1>1. CASE Check
    BY <1>1, FailsType DEF Check, TypeOK, ServerStates
  <1>2. CASE FetchIndexes
    <2>1. failures' \in 0..MaxFailures
      BY <1>2, FailsType DEF FetchIndexes, TypeOK
    <2>2. mixed' \in BOOLEAN /\ pass' \in {"flat", "shard", "again"}
      BY <1>2 DEF FetchIndexes
    <2>3. valid' \subseteq Subdirs /\ errors' \subseteq Errors
      BY <1>2 DEF FetchIndexes, TypeOK, Errors
    <2>4. /\ phase' = "load" /\ cur' = 1 /\ expand' = FALSE /\ fullRepos' = {}
          /\ UNCHANGED <<surroundings, hasShards, cachedIndex, rootVars, walk, database,
                         loadingFailed, isRetry>>
      BY <1>2 DEF FetchIndexes
    <2>5. fullRepos' \subseteq Subdirs /\ expand' \in BOOLEAN
      BY <2>4
    <2>6. cur' \in 1..NSubdirs + 1
      <3>1. cur' = 1
        BY <2>4
      <3> QED
        BY <3>1
    <2>7. /\ server' \in ServerStates /\ offline' \in BOOLEAN /\ hasShards' \subseteq Subdirs
          /\ cachedIndex' \subseteq Subdirs /\ roots' \subseteq Packages
          /\ rootsAfterFlat' \subseteq Packages /\ walk' \in Walks
          /\ loadingFailed' \in BOOLEAN /\ isRetry' \in BOOLEAN
      BY <2>4 DEF TypeOK
    <2>8. /\ prioritized' \subseteq flat' /\ flat' \subseteq Subdirs
          /\ shard' \in [Subdirs -> SUBSET Packages] /\ kept' \in [Subdirs -> SUBSET Packages]
          /\ firstPass' \in [Subdirs -> SUBSET Packages]
      BY <2>4 DEF TypeOK
    <2> HIDE DEF Subdirs
    <2> QED
      BY <2>1, <2>2, <2>3, <2>4, <2>5, <2>6, <2>7, <2>8, Zenon DEF TypeOK
  <1>3. CASE Interrupt
    BY <1>3 DEF Interrupt, TypeOK, Errors
  <1>4. CASE Skip
    BY <1>4 DEF Skip, Advance, TypeOK
  <1>5. CASE NotThere
    BY <1>5 DEF NotThere, Loading, Advance, TypeOK, Errors
  <1>6. CASE LoadFlat
    BY <1>6 DEF LoadFlat, Loading, AddFlat, Advance, TypeOK
  <1>7. CASE FailFlat
    <2>1. failures' \in 0..MaxFailures
      BY <1>7, FailsType DEF FailFlat, TypeOK
    <2>2. loadingFailed' \in BOOLEAN
      BY <1>7 DEF FailFlat, LoadFailed, TypeOK
    <2> QED
      BY <1>7, <2>1, <2>2 DEF FailFlat, Loading, LoadFailed, Advance, TypeOK, Errors
  <1>8. CASE OpenShards
    <2>1. walk' \in Walks
      <3>1. PICK group \in SUBSET (SameChannel(cur) \cap hasShards') :
               walk' = [NoWalk EXCEPT !.group = group, !.pending = NodesOf(group, roots)]
        BY <1>8 DEF OpenShards, ShardIndexes
      <3>2. group \subseteq Subdirs
        BY DEF SameChannel
      <3> QED
        BY <3>1, <3>2, NodesOfType DEF NoWalk, Walks
    <2> QED
      BY <1>8, <2>1, FailsType DEF OpenShards, ShardIndexes, Loading, TypeOK, ServerStates, SameChannel
  <1>9. CASE FailShardIndex
    BY <1>9, FailsType DEF FailShardIndex, Loading, TypeOK
  <1>10. CASE Batch
    <2>1. walk' \in Walks
      <3>1. PICK got \in SUBSET walk.pending :
               walk' = [walk EXCEPT !.visited = walk.visited \cup walk.pending,
                                    !.present = @ \cup got,
                                    !.pending = Neighbors(walk.group, got)
                                                  \ (walk.visited \cup walk.pending)]
        BY <1>10 DEF Batch, FetchShards
      <3>2. Neighbors(walk.group, got) \subseteq Nodes
        BY NodesOfType DEF Neighbors
      <3> QED
        BY <3>1, <3>2 DEF Walks, TypeOK
    <2> QED
      BY <1>10, <2>1, FailsType DEF Batch, TypeOK
  <1>11. CASE AddShards
    <2>1. shard' \in [Subdirs -> SUBSET Packages]
      BY <1>11 DEF AddShards, Found, Walks, Nodes, TypeOK
    <2>2. roots' \subseteq Packages
      BY <1>11, MentionedType DEF AddShards, Walks, TypeOK
    <2> QED
      BY <1>11, <2>1, <2>2 DEF AddShards, Advance, NoWalk, Walks, TypeOK
  <1>12. CASE ShardMissing
    BY <1>12 DEF ShardMissing, NoWalk, Walks, TypeOK
  <1>13. CASE Fallback
    BY <1>13 DEF Fallback, AddFlat, Advance, TypeOK
  <1>14. CASE FailFallback
    <2>1. failures' \in 0..MaxFailures
      BY <1>14, FailsType DEF FailFallback, TypeOK
    <2>2. loadingFailed' \in BOOLEAN
      BY <1>14 DEF FailFallback, LoadFailed, TypeOK
    <2> QED
      BY <1>14, <2>1, <2>2 DEF FailFallback, LoadFailed, Advance, TypeOK, Errors
  <1>15. CASE FlatPassOver
    BY <1>15, ReachableContains DEF FlatPassOver, PassOver, TypeOK
  <1>16. CASE LoadAgain
    BY <1>16 DEF LoadAgain, PassOver, NoRepos, TypeOK
  <1>17. CASE Restart
    BY <1>17, InputsAssumption DEF Restart, LastPassOver, PassOver, NoRepos, TypeOK
  <1>18. CASE Finish
    BY <1>18 DEF Finish, LastPassOver, PassOver, TypeOK, Errors
  <1>19. CASE UNCHANGED vars
    BY <1>19 DEF vars, TypeOK
  <1> QED
    BY <1>1, <1>2, <1>3, <1>4, <1>5, <1>6, <1>7, <1>8, <1>9, <1>10, <1>11, <1>12, <1>13,
       <1>14, <1>15, <1>16, <1>17, <1>18, <1>19 DEF Next

(* Every variable keeps its type: walks stay within the nodes of the       *)
(* servers, cur within the vector of subdirs, failures within their bound. *)
THEOREM TypeCorrect == Spec => []TypeOK
  BY TypeInit, TypeStep, PTL DEF Spec

-----------------------------------------------------------------------------
(* The requested names are in every walk and in every repo made of one.    *)

(* Which subdirs are sharded changes with hasShards only.                  *)
LEMMA SameShards == hasShards' = hasShards => Sharded' = Sharded
  BY DEF Sharded

(* The roots contain every name that a loaded repo brought in.             *)
LEMMA RootsStep ==
    TypeOK /\ RootsInRepos /\ RootsInWalk /\ [Next]_vars => RootsInRepos'
  <1> SUFFICES ASSUME TypeOK, RootsInRepos, RootsInWalk, [Next]_vars PROVE RootsInRepos'
    OBVIOUS
  <1> USE DEF surroundings, rootVars, database
  <1>1. CASE AddShards
    <2>1. Roots \subseteq roots'
      BY <1>1 DEF AddShards, RootsInRepos
    <2>2. ASSUME NEW i \in Subdirs, shard'[i] # {} PROVE Roots \cap server.index[i] \subseteq shard'[i]
      <3>1. CASE i \notin NewRepos
        BY <1>1, <2>2, <3>1 DEF AddShards, RootsInRepos
      <3>2. CASE i \in NewRepos
        <4>1. shard'[i] = Found(i) /\ i \in walk.group
          BY <1>1, <3>2 DEF AddShards, NewRepos
        <4> SUFFICES ASSUME NEW p \in Roots \cap server.index[i] PROVE p \in Found(i)
          BY <4>1
        <4>2. <<i, p>> \in NodesOf(walk.group, Roots)
          BY <4>1, InputsAssumption DEF NodesOf, Nodes
        <4>3. <<i, p>> \in walk.visited
          BY <1>1, <4>2 DEF AddShards, AllPresent, RootsInWalk
        <4> QED
          BY <4>3 DEF Found
      <3> QED
        BY <3>1, <3>2
    <2> QED
      BY <1>1, <2>1, <2>2 DEF AddShards, RootsInRepos
  <1>2. CASE FlatPassOver
    BY <1>2, ReachableContains DEF FlatPassOver, RootsInRepos, TypeOK
  <1>3. CASE LoadAgain
    BY <1>3 DEF LoadAgain, RootsInRepos, NoRepos
  <1>4. CASE Restart
    <2>1. /\ roots' = Roots /\ shard' = NoRepos /\ server' = server
          /\ kept' = [i \in Subdirs |-> kept[i] \cup shard[i]]
      BY <1>4 DEF Restart
    <2> QED
      BY <2>1 DEF RootsInRepos, NoRepos
  <1>5. CASE Check \/ FetchIndexes \/ Interrupt \/ Skip \/ NotThere \/ FailFlat \/ OpenShards
             \/ FailShardIndex \/ Batch \/ ShardMissing \/ FailFallback \/ Finish \/ UNCHANGED vars
    BY <1>5 DEF Check, FetchIndexes, Interrupt, Skip, NotThere, FailFlat, OpenShards, FailShardIndex,
                Batch, ShardMissing, FailFallback, Finish, vars, RootsInRepos
  <1>6. CASE LoadFlat \/ Fallback
    BY <1>6 DEF LoadFlat, Fallback, RootsInRepos
  <1> QED
    BY <1>1, <1>2, <1>3, <1>4, <1>5, <1>6 DEF Next

(* The traversal's nodes contain the roots of its group.                   *)
LEMMA WalkStep ==
    TypeOK /\ RootsInRepos /\ RootsInWalk /\ [Next]_vars => RootsInWalk'
  <1> SUFFICES ASSUME TypeOK, RootsInRepos, RootsInWalk, [Next]_vars PROVE RootsInWalk'
    OBVIOUS
  <1> USE DEF surroundings, position
  <1>1. CASE OpenShards
    <2>1. PICK group : /\ cur \in group
                       /\ walk' = [NoWalk EXCEPT !.group = group, !.pending = NodesOf(group, roots)]
      BY <1>1 DEF OpenShards
    <2>2. walk'.group = group /\ walk'.pending = NodesOf(group, roots)
      BY <2>1 DEF NoWalk
    <2>3. NodesOf(group, Roots)' = NodesOf(group, Roots)
      BY <1>1 DEF OpenShards, NodesOf
    <2>4. NodesOf(group, Roots) \subseteq NodesOf(group, roots)
      BY DEF NodesOf, RootsInRepos
    <2>5. cur' = cur
      BY <1>1 DEF OpenShards
    <2> QED
      BY <2>1, <2>2, <2>3, <2>4, <2>5 DEF RootsInWalk
  <1>2. CASE Batch
    <2>1. /\ walk'.group = walk.group /\ walk'.visited = walk.visited \cup walk.pending
          /\ cur' = cur /\ phase = "walk"
      BY <1>2 DEF Batch, Walks, TypeOK
    <2>2. NodesOf(walk.group, Roots)' = NodesOf(walk.group, Roots)
      BY <1>2, <2>1 DEF Batch, NodesOf
    <2> QED
      BY <2>1, <2>2 DEF RootsInWalk
  <1>3. CASE UNCHANGED vars
    BY <1>3 DEF vars, RootsInWalk, NodesOf
  <1>4. CASE Next /\ ~OpenShards /\ ~Batch
    <2>1. phase' # "walk"
      BY <1>4 DEF Next, Check, FetchIndexes, Interrupt, Skip, NotThere, LoadFlat, FailFlat,
                  FailShardIndex, AddShards, ShardMissing, Fallback, FailFallback, FlatPassOver,
                  LoadAgain, Restart, Finish, AddFlat, LoadFailed, Advance, Loading, PassOver,
                  LastPassOver
    <2> QED
      BY <2>1 DEF RootsInWalk
  <1> QED
    BY <1>1, <1>2, <1>3, <1>4

-----------------------------------------------------------------------------
(* How the passes and the retry go together.                               *)

(* A subdir is loaded from shards or from a full index, not from both.     *)
LEMMA ModesStep == TypeOK /\ Modes /\ [Next]_vars => Modes'
  <1> SUFFICES ASSUME TypeOK, Modes, [Next]_vars PROVE Modes'
    OBVIOUS
  <1> USE DEF metadata, outcome, position, passVars, database
  <1>1. CASE Check \/ FetchIndexes \/ Interrupt
    <2>1. CASE Check
      BY <2>1 DEF Check, Modes, InPass
    <2>2. CASE FetchIndexes
      <3>1. Sharded' = Sharded
        BY <2>2, SameShards DEF FetchIndexes
      <3> QED
        BY <2>2, <3>1 DEF FetchIndexes, Modes, InPass
    <2>3. CASE Interrupt
      BY <2>3 DEF Interrupt, Modes, InPass
    <2> QED
      BY <1>1, <2>1, <2>2, <2>3
  <1>2. CASE Skip \/ NotThere
    <2>1. Sharded' = Sharded
      BY <1>2, SameShards DEF Skip, NotThere
    <2> QED
      BY <1>2, <2>1 DEF Skip, NotThere, Loading, Advance, Modes, InPass
  <1>3. CASE LoadFlat \/ Fallback
    <2>1. Sharded' = Sharded
      BY <1>3, SameShards DEF LoadFlat, Fallback
    <2> QED
      BY <1>3, <2>1 DEF LoadFlat, Fallback, Loading, AddFlat, Advance, Modes, InPass
  <1>4. CASE FailFlat \/ FailFallback
    <2>1. Sharded' = Sharded
      BY <1>4, SameShards DEF FailFlat, FailFallback
    <2>2. loadingFailed' => ~isRetry'
      BY <1>4 DEF FailFlat, FailFallback, LoadFailed, Modes, TypeOK
    <2> QED
      BY <1>4, <2>1, <2>2 DEF FailFlat, FailFallback, Loading, LoadFailed, Advance, Modes, InPass
  <1>5. CASE OpenShards
    <2>1. hasShards \subseteq hasShards' /\ cur \in Sharded /\ pass # "flat" /\ phase' = "walk"
      BY <1>5 DEF OpenShards, Loading, Skipped
    <2>2. Sharded \subseteq Sharded'
      BY <2>1 DEF Sharded
    <2>3. mixed
      BY <1>5, <2>1 DEF OpenShards, Loading, Modes, InPass
    <2> QED
      BY <1>5, <2>1, <2>2, <2>3 DEF OpenShards, Modes, InPass
  <1>6. CASE FailShardIndex
    <2>1. Sharded' = Sharded
      BY <1>6, SameShards DEF FailShardIndex
    <2> QED
      BY <1>6, <2>1 DEF FailShardIndex, Loading, Skipped, Modes, InPass
  <1>7. CASE Batch \/ AddShards \/ ShardMissing
    <2>1. Sharded' = Sharded
      BY <1>7, SameShards DEF Batch, AddShards, ShardMissing
    <2> QED
      <3>1. CASE Batch
        BY <2>1, <3>1 DEF Batch, Modes, InPass
      <3>2. CASE AddShards
        BY <2>1, <3>2 DEF AddShards, Advance, Modes, InPass
      <3>3. CASE ShardMissing
        BY <2>1, <3>3 DEF ShardMissing, Modes, InPass
      <3> QED
        BY <1>7, <3>1, <3>2, <3>3
  <1>8. CASE FlatPassOver \/ LoadAgain
    <2>1. Sharded' = Sharded
      BY <1>8, SameShards DEF FlatPassOver, LoadAgain
    <2> QED
      <3>1. CASE FlatPassOver
        BY <2>1, <3>1 DEF FlatPassOver, PassOver, Modes, InPass
      <3>2. CASE LoadAgain
        BY <2>1, <3>2 DEF LoadAgain, FollowUp, PassOver, Modes, InPass
      <3> QED
        BY <1>8, <3>1, <3>2
  <1>9. CASE Restart
    BY <1>9 DEF Restart, Modes, InPass
  <1>10. CASE Finish
    BY <1>10, SameShards DEF Finish, LastPassOver, PassOver, Modes, InPass
  <1>11. CASE UNCHANGED vars
    BY <1>11, SameShards DEF vars, Modes, InPass
  <1> QED
    BY <1>1, <1>2, <1>3, <1>4, <1>5, <1>6, <1>7, <1>8, <1>9, <1>10, <1>11 DEF Next

-----------------------------------------------------------------------------
(* What the passes have done so far.                                       *)

(* A subdir that has all that is reachable keeps it.                       *)
LEMMA SettledStays ==
    ASSUME NEW i \in Subdirs, Settled(i), flat \subseteq flat', UNCHANGED <<server, kept>>,
           shard[i] = {} \/ shard'[i] = shard[i]
    PROVE  Settled(i)'
  BY DEF Settled

(* What the load has gone past is settled.                                 *)
LEMMA ProgressStep ==
    TypeOK /\ RootsInWalk /\ Modes /\ Progress /\ [Next]_vars => Progress'
  <1> SUFFICES ASSUME TypeOK, RootsInWalk, Modes, Progress, [Next]_vars PROVE Progress'
    OBVIOUS
  <1> USE DEF surroundings, metadata, position, passVars, database, outcome
  <1>0. \A i \in Noarch : i \in Subdirs /\ i \in 1..NSubdirs
    BY SubdirsAssumption DEF Subdirs
  <1>1. CASE Check \/ Interrupt \/ Restart
    BY <1>1 DEF Check, Interrupt, Restart, Progress, InPass, Loaded
  <1>2. CASE FetchIndexes
    BY <1>2, <1>0 DEF FetchIndexes, Progress, InPass, Loaded
  <1>3. CASE Skip
    <2>1. /\ UNCHANGED <<Sharded, server, offline, flat, kept, shard, mixed, errors, loadingFailed>>
          /\ phase' = "load" /\ pass' = pass /\ cur' = cur + 1 /\ phase = "load" /\ Skipped(cur)
      BY <1>3, SameShards DEF Skip, Advance
    <2>2. \A i \in Noarch : i < cur' => i < cur \/ i = cur
      BY <1>0, <2>1 DEF TypeOK
    <2>3. \A i \in Noarch : Settled(i)' = Settled(i)
      BY <2>1 DEF Settled
    <2>4. CASE pass = "flat"
      BY <2>1, <2>2, <2>3, <2>4, <1>0 DEF Progress, InPass, Clean, Loaded, Skipped, Modes, NoRepos
    <2>5. CASE pass # "flat"
      BY <2>1, <2>2, <2>3, <2>5, <1>0 DEF Progress, InPass, Clean, Loaded, Skipped, Settled
    <2> QED
      BY <2>4, <2>5
  <1>4. CASE NotThere
    <2>1. /\ UNCHANGED <<Sharded, server, offline, flat, kept, shard, mixed, loadingFailed>>
          /\ phase' = "load" /\ pass' = pass /\ cur' = cur + 1 /\ phase = "load"
          /\ errors' = {} /\ ~offline => cur \notin Noarch /\ errors = {}
      BY <1>4, SameShards DEF NotThere, Loading, Advance
    <2>2. \A i \in Noarch : i < cur' => i < cur \/ i = cur
      BY <1>0, <2>1 DEF TypeOK
    <2>3. \A i \in Noarch : Settled(i)' = Settled(i)
      BY <2>1 DEF Settled
    <2> QED
      BY <2>1, <2>2, <2>3 DEF Progress, InPass, Clean, Loaded
  <1>5. CASE LoadFlat \/ Fallback
    <2>1. /\ UNCHANGED <<Sharded, server, offline, kept, shard, mixed, errors, loadingFailed>>
          /\ phase' = "load" /\ pass' = pass /\ cur' = cur + 1 /\ InPass
          /\ flat' = flat \cup {cur}
      BY <1>5, SameShards DEF LoadFlat, Fallback, Loading, AddFlat, Advance, InPass
    <2>2. \A i \in Noarch : i < cur' => i < cur \/ i = cur
      BY <1>0, <2>1 DEF TypeOK
    <2>3. \A i \in Noarch : Settled(i) \/ i = cur => Settled(i)'
      BY <2>1 DEF Settled
    <2> QED
      BY <2>1, <2>2, <2>3 DEF Progress, InPass, Clean, Loaded
  <1>6. CASE FailFlat \/ FailFallback
    <2>1. phase' = "load" /\ (errors' # {} \/ loadingFailed')
      BY <1>6 DEF FailFlat, FailFallback, LoadFailed, Advance, TypeOK
    <2> QED
      BY <2>1 DEF Progress, Clean, Loaded
  <1>7. CASE OpenShards
    <2>1. /\ hasShards \subseteq hasShards' /\ pass # "flat" /\ phase = "load" /\ phase' = "walk"
          /\ UNCHANGED <<server, offline, flat, kept, shard, mixed, errors, loadingFailed, pass, cur>>
      BY <1>7 DEF OpenShards, Loading, Skipped
    <2>2. Sharded \subseteq Sharded'
      BY <2>1 DEF Sharded
    <2>3. \A i \in Noarch : Settled(i)' = Settled(i)
      BY <2>1 DEF Settled
    <2> QED
      BY <2>1, <2>2, <2>3 DEF Progress, InPass, Clean, Loaded
  <1>8. CASE FailShardIndex \/ Batch \/ ShardMissing
    <2>1. /\ UNCHANGED <<Sharded, server, offline, flat, kept, shard, mixed, errors, loadingFailed,
                         pass, cur>>
          /\ InPass /\ phase' \in {"walk", "fallback"}
      BY <1>8, SameShards DEF FailShardIndex, Batch, ShardMissing, Loading, InPass
    <2>2. \A i \in Noarch : Settled(i)' = Settled(i)
      BY <2>1 DEF Settled
    <2> QED
      BY <2>1, <2>2 DEF Progress, InPass, Clean, Loaded
  <1>9. CASE AddShards
    <2>1. /\ UNCHANGED <<Sharded, server, offline, flat, kept, mixed, errors, loadingFailed, pass>>
          /\ phase = "walk" /\ phase' \in {"load", "fallback"} /\ AllPresent
          /\ phase' = "fallback" => cur' = cur
          /\ phase' = "load" => cur' = cur + 1
      BY <1>9, SameShards DEF AddShards, Advance
    <2>2. pass # "flat" /\ cur \in walk.group /\ cur \in Subdirs
      BY <2>1 DEF Modes, RootsInWalk, TypeOK
    <2>3. ASSUME NEW i \in Subdirs, Settled(i) PROVE Settled(i)'
      <3>1. shard'[i] = shard[i] \/ shard[i] = {}
        BY <1>9 DEF AddShards, NewRepos
      <3> QED
        BY <2>1, <2>3, <3>1, SettledStays
    <2>4. ASSUME NEW i \in Subdirs, i = cur PROVE Settled(i)'
      <3>1. CASE Found(i) # {}
        <4>1. shard'[i] # {}
          BY <1>9, <2>2, <2>4, <3>1 DEF AddShards, NewRepos
        <4> QED
          BY <4>1 DEF Settled
      <3>2. CASE Found(i) = {}
        <4>1. ASSUME NEW p \in Roots \cap server.index[i] PROVE FALSE
          <5>1. <<i, p>> \in NodesOf(walk.group, Roots)
            BY <2>2, <2>4, InputsAssumption DEF NodesOf, Nodes
          <5>2. <<i, p>> \in walk.visited
            BY <2>1, <5>1 DEF AllPresent, RootsInWalk
          <5> QED
            BY <3>2, <5>2 DEF Found
        <4>2. Roots \cap server'.index[i] = {}
          BY <2>1, <4>1
        <4> QED
          BY <4>2 DEF Settled
      <3> QED
        BY <3>1, <3>2
    <2>5. \A i \in Noarch : i < cur' => i < cur \/ i = cur
      BY <1>0, <2>1 DEF TypeOK
    <2> QED
      BY <1>0, <2>1, <2>2, <2>3, <2>4, <2>5 DEF Progress, InPass, Clean, Loaded
  <1>10. CASE FlatPassOver
    <2>1. /\ UNCHANGED <<Sharded, server, offline, flat, kept, shard, mixed, errors, loadingFailed>>
          /\ phase = "load" /\ phase' = "load" /\ pass = "flat" /\ pass' = "shard"
          /\ cur = NSubdirs + 1 /\ cur' = 1
      BY <1>10, SameShards DEF FlatPassOver, PassOver
    <2>2. \A i \in Noarch : i < cur /\ ~(i < cur')
      BY <1>0, <2>1, SubdirsAssumption
    <2> QED
      BY <2>1, <2>2 DEF Progress, InPass, Clean, Loaded
  <1>11. CASE LoadAgain
    <2>1. /\ UNCHANGED <<Sharded, server, offline, flat, kept, mixed, errors, loadingFailed>>
          /\ phase = "load" /\ phase' = "load" /\ pass # "flat" /\ pass' = "again" /\ cur' = 1
      BY <1>11, SameShards DEF LoadAgain, FollowUp, PassOver
    <2>2. \A i \in Noarch : ~(i < cur')
      BY <1>0, <2>1, SubdirsAssumption
    <2> QED
      BY <2>1, <2>2 DEF Progress, InPass, Clean, Loaded
  <1>12. CASE Finish
    <2>1. /\ UNCHANGED <<server, offline, flat, kept, shard>>
          /\ phase = "load" /\ phase' = "ended" /\ pass # "flat" /\ cur = NSubdirs + 1
          /\ errors' = {} => errors = {} /\ ~loadingFailed
      BY <1>12 DEF Finish, LastPassOver, PassOver
    <2>2. \A i \in Noarch : i < cur
      BY <1>0, <2>1, SubdirsAssumption
    <2>3. \A i \in Noarch : Settled(i)' = Settled(i)
      BY <2>1 DEF Settled
    <2> QED
      BY <2>1, <2>2, <2>3 DEF Progress, InPass, Clean, Loaded
  <1>13. CASE UNCHANGED vars
    <2>1. Sharded' = Sharded
      BY <1>13, SameShards DEF vars
    <2>2. \A i \in Noarch : Settled(i)' = Settled(i)
      BY <1>13 DEF Settled, vars
    <2> QED
      BY <1>13, <2>1, <2>2 DEF vars, Progress, InPass, Clean, Loaded
  <1> QED
    BY <1>1, <1>2, <1>3, <1>4, <1>5, <1>6, <1>7, <1>8, <1>9, <1>10, <1>11, <1>12, <1>13 DEF Next

-----------------------------------------------------------------------------
(* The invariant holds in the beginning.                                   *)
LEMMA InvInit == Init => Inv
  <1> SUFFICES ASSUME Init PROVE Inv
    OBVIOUS
  <1>1. TypeOK
    BY TypeInit
  <1>2. RootsInRepos /\ RootsInWalk
    BY DEF Init, RootsInRepos, RootsInWalk, NoRepos
  <1>3. Modes /\ Progress
    BY DEF Init, Modes, Progress, InPass, Loaded
  <1> QED
    BY <1>1, <1>2, <1>3 DEF Inv

(* Every step keeps it.                                                    *)
LEMMA InvStep == Inv /\ [Next]_vars => Inv'
  BY TypeStep, RootsStep, WalkStep, ModesStep, ProgressStep DEF Inv

(* At the end of the load every subdir is settled.                         *)
LEMMA InvImpliesNoRootLost == Inv => NoRootLost
  <1> SUFFICES ASSUME Inv, Loaded, ~offline, NEW i \in Subdirs
               PROVE  \/ Roots \cap server.index[i] \subseteq InDatabase(i)
                      \/ i \notin Noarch /\ InDatabase(i) = {}
    BY DEF NoRootLost
  <1>1. CASE i \in flat
    BY <1>1 DEF InDatabase
  <1>2. CASE i \notin flat /\ (shard[i] # {} \/ kept[i] # {})
    BY <1>2 DEF InDatabase, Inv, RootsInRepos
  <1>3. CASE i \notin flat /\ shard[i] = {} /\ kept[i] = {}
    BY <1>3 DEF InDatabase, Inv, Progress, Settled
  <1> QED
    BY <1>1, <1>2, <1>3

(* For all channels, servers, caches and failures: a load that reports no  *)
(* error has every requested name of the subdirs in the database, and no   *)
(* noarch subdir that publishes one is missing.                            *)
THEOREM RootsLoaded == Spec => []NoRootLost
  BY InvInit, InvStep, InvImpliesNoRootLost, PTL DEF Spec
-----------------------------------------------------------------------------
(* What a walk finds, and why the follow-up pass finds it again.           *)

(* A set of nodes that has those of the names, and of whatever it          *)
(* mentions, within a group of subdirs.                                    *)
Covers(V, group, names) ==
    /\ NodesOf(group, names) \subseteq V
    /\ \A n \in V : NodesOf(group, server.deps[n]) \subseteq V

(* A walk is over the shard indexes of its channel that are there, which   *)
(* only become more: it has the roots, goes wherever a shard leads, and    *)
(* nowhere else.                                                           *)
WalkInv ==
    phase = "walk" =>
      /\ walk.group = SameChannel(cur) \cap cachedIndex
      /\ walk.group \subseteq Sharded
      /\ NodesOf(walk.group, roots) \subseteq walk.visited \cup walk.pending
      /\ \A n \in walk.present :
           NodesOf(walk.group, server.deps[n]) \subseteq walk.visited \cup walk.pending
      /\ \A V \in SUBSET Nodes :
           Covers(V, walk.group, roots) => walk.visited \cup walk.pending \subseteq V

(* Any walk over that channel has the name.                                *)
Needed(j, p) ==
    /\ j \in Sharded
    /\ \A V \in SUBSET Nodes :
         Covers(V, SameChannel(j) \cap cachedIndex, roots) => <<j, p>> \in V

LeastInv == \A j \in Subdirs, p \in Packages : p \in shard[j] \cup firstPass[j] => Needed(j, p)

(* What the follow-up pass has gone past is there again.                   *)
AgainInv ==
    /\ phase = "check" => firstPass = NoRepos
    /\ pass = "again" /\ InPass =>
         \A j \in Subdirs :
           /\ shard[j] # {} => firstPass[j] \subseteq shard[j]
           /\ errors = {} /\ ~loadingFailed /\ j < cur => firstPass[j] \subseteq InDatabase(j)
    /\ SecondPassKeeps

FollowUpInv == WalkInv /\ LeastInv /\ AgainInv

(* More subdirs and more names have more nodes.                            *)
LEMMA NodesOfGrows ==
    ASSUME NEW A, NEW B, A \subseteq B, NEW N, NEW M, N \subseteq M
    PROVE  NodesOf(A, N) \subseteq NodesOf(B, M)
  BY DEF NodesOf

(* What covers more covers less.                                           *)
LEMMA CoversLess ==
    ASSUME NEW V, NEW A, NEW B, A \subseteq B, NEW N, NEW M, N \subseteq M, Covers(V, B, M)
    PROVE  Covers(V, A, N)
  <1>1. NodesOf(A, N) \subseteq V
    BY NodesOfGrows DEF Covers
  <1>2. ASSUME NEW n \in V PROVE NodesOf(A, server.deps[n]) \subseteq V
    <2>1. NodesOf(A, server.deps[n]) \subseteq NodesOf(B, server.deps[n])
      BY NodesOfGrows
    <2> QED
      BY <2>1 DEF Covers
  <1> QED
    BY <1>1, <1>2 DEF Covers

(* Nodes stay what they are while the servers do.                          *)
LEMMA SameServer ==
    ASSUME server' = server
    PROVE  /\ \A A, N : NodesOf(A, N)' = NodesOf(A, N)
           /\ \A V, A, N : Covers(V, A, N)' = Covers(V, A, N)
  BY DEF NodesOf, Covers

(* The servers stay as they are; what is known of them, and what is asked  *)
(* for, only grows, until all is done once more.                           *)
Grows ==
    /\ server' = server /\ hasShards \subseteq hasShards'
    /\ cachedIndex \subseteq cachedIndex' /\ roots \subseteq roots'
(* So it is with every step but the first and the retry.                   *)
LEMMA Growth ==
    ASSUME TypeOK, [Next]_vars, ~Check, ~Restart
    PROVE  Grows
  <1> USE DEF surroundings, metadata, rootVars, database, Grows
  <1>1. CASE OpenShards
    BY <1>1 DEF OpenShards
  <1>2. CASE AddShards
    BY <1>2 DEF AddShards
  <1>3. CASE FlatPassOver
    BY <1>3, ReachableContains DEF FlatPassOver, TypeOK
  <1>4. CASE FetchIndexes \/ Interrupt \/ Skip \/ NotThere \/ LoadFlat \/ FailFlat
             \/ FailShardIndex \/ Batch \/ ShardMissing \/ Fallback \/ FailFallback
             \/ LoadAgain \/ Finish \/ UNCHANGED vars
    BY <1>4 DEF FetchIndexes, Interrupt, Skip, NotThere, LoadFlat, FailFlat, FailShardIndex,
       Batch, ShardMissing, Fallback, FailFallback, LoadAgain, Finish, vars
  <1> QED
    BY <1>1, <1>2, <1>3, <1>4 DEF Next

(* A name that is needed stays so.                                         *)
LEMMA NeededStays ==
    ASSUME Grows, NEW j \in Subdirs, NEW p \in Packages, Needed(j, p)
    PROVE  Needed(j, p)'
  <1>1. j \in Sharded'
    BY DEF Needed, Sharded, Grows
  <1>2. ASSUME NEW V \in SUBSET Nodes, Covers(V, SameChannel(j) \cap cachedIndex', roots')
        PROVE  <<j, p>> \in V
    <2>1. Covers(V, SameChannel(j) \cap cachedIndex, roots)
      BY <1>2, CoversLess DEF Grows
    <2> QED
      BY <2>1 DEF Needed
  <1>3. \A V \in SUBSET Nodes :
          Covers(V, SameChannel(j) \cap cachedIndex, roots)' =>
            Covers(V, SameChannel(j) \cap cachedIndex', roots')
    BY SameServer DEF Grows, SameChannel, NodesOf, Covers
  <1> QED
    BY <1>1, <1>2, <1>3 DEF Needed

(* A round of the walk goes to the neighbors of what it got.               *)
LEMMA WalkInvStep ==
    ASSUME TypeOK, RootsInWalk, WalkInv, [Next]_vars
    PROVE  WalkInv'
  <1> USE DEF surroundings, metadata, rootVars, position
  <1>1. CASE OpenShards
    <2>1. PICK group \in ShardIndexes(cur, hasShards') :
             /\ cachedIndex' = cachedIndex \cup group
             /\ walk' = [NoWalk EXCEPT !.group = group, !.pending = NodesOf(group, roots)]
      BY <1>1 DEF OpenShards
    <2>2. /\ walk'.group = group /\ walk'.pending = NodesOf(group, roots)
          /\ walk'.visited = {} /\ walk'.present = {}
      BY <2>1 DEF NoWalk
    <2>3. /\ server' = server /\ roots' = roots /\ cur' = cur /\ cur \in Sharded
      BY <1>1 DEF OpenShards
    <2>4. /\ group \subseteq SameChannel(cur) \cap hasShards'
          /\ SameChannel(cur) \cap cachedIndex \subseteq group
      BY <2>1 DEF ShardIndexes
    <2>5. group = SameChannel(cur) \cap cachedIndex'
      BY <2>1, <2>4
    <2>6. group \subseteq Sharded'
      BY <2>3, <2>4 DEF Sharded
    <2>7. \A V \in SUBSET Nodes : Covers(V, group, roots)' => NodesOf(group, roots)' \subseteq V
      BY DEF Covers
    <2>8. NodesOf(group, roots)' = NodesOf(group, roots)
      BY <2>3 DEF NodesOf
    <2>9. SameChannel(cur)' = SameChannel(cur)
      BY <2>3 DEF SameChannel
    <2>10. \A V \in SUBSET Nodes :
             Covers(V, walk.group, roots)' => (walk.visited \cup walk.pending)' \subseteq V
      BY <2>2, <2>3, <2>7, <2>8 DEF Covers, NodesOf
    <2>11. NodesOf(walk.group, roots)' \subseteq (walk.visited \cup walk.pending)'
      BY <2>2, <2>8 DEF NodesOf
    <2> QED
      BY <2>2, <2>5, <2>6, <2>9, <2>10, <2>11 DEF WalkInv
  <1>2. CASE Batch
    <2>1. PICK got \in SUBSET walk.pending :
             walk' = [walk EXCEPT !.visited = walk.visited \cup walk.pending,
                                  !.present = @ \cup got,
                                  !.pending = Neighbors(walk.group, got)
                                                \ (walk.visited \cup walk.pending)]
      BY <1>2 DEF Batch, FetchShards
    <2>2. /\ walk'.group = walk.group /\ walk'.visited = walk.visited \cup walk.pending
          /\ walk'.present = walk.present \cup got
          /\ walk'.visited \cup walk'.pending =
               walk.visited \cup walk.pending \cup Neighbors(walk.group, got)
      BY <2>1 DEF Walks, TypeOK
    <2>3. /\ UNCHANGED <<server, hasShards, cachedIndex, roots, cur>> /\ phase = "walk"
      BY <1>2 DEF Batch
    <2>4. /\ walk.group = SameChannel(cur) \cap cachedIndex /\ walk.group \subseteq Sharded
          /\ NodesOf(walk.group, roots) \subseteq walk.visited \cup walk.pending
          /\ \A n \in walk.present :
               NodesOf(walk.group, server.deps[n]) \subseteq walk.visited \cup walk.pending
          /\ \A V \in SUBSET Nodes :
               Covers(V, walk.group, roots) => walk.visited \cup walk.pending \subseteq V
      BY <2>3 DEF WalkInv
    <2>5. \A n \in got : NodesOf(walk.group, server.deps[n]) \subseteq Neighbors(walk.group, got)
      BY DEF Neighbors, NodesOf, Mentioned
    <2>6. \A n \in walk'.present :
            NodesOf(walk.group, server.deps[n]) \subseteq walk'.visited \cup walk'.pending
      BY <2>2, <2>4, <2>5
    <2>7. ASSUME NEW V \in SUBSET Nodes, Covers(V, walk.group, roots)
          PROVE  walk'.visited \cup walk'.pending \subseteq V
      <3>1. walk.visited \cup walk.pending \subseteq V
        BY <2>4, <2>7
      <3>2. ASSUME NEW m \in Neighbors(walk.group, got) PROVE m \in V
        <4>1. PICK n \in got : m \in NodesOf(walk.group, server.deps[n])
          BY <3>2 DEF Neighbors, NodesOf, Mentioned
        <4>2. n \in V
          BY <3>1
        <4> QED
          BY <2>7, <4>1, <4>2 DEF Covers
      <3> QED
        BY <2>2, <3>1, <3>2
    <2>8. SameChannel(cur)' = SameChannel(cur) /\ Sharded' = Sharded
      BY <2>3, SameShards DEF SameChannel
    <2>9. \A V \in SUBSET Nodes :
            Covers(V, walk.group, roots)' => (walk.visited \cup walk.pending)' \subseteq V
      BY <2>2, <2>3, <2>7 DEF Covers, NodesOf
    <2>10. /\ NodesOf(walk.group, roots)' \subseteq (walk.visited \cup walk.pending)'
           /\ \A n \in walk'.present :
                NodesOf(walk.group, server.deps[n])' \subseteq (walk.visited \cup walk.pending)'
      BY <2>2, <2>3, <2>4, <2>6 DEF NodesOf
    <2> QED
      BY <2>2, <2>3, <2>4, <2>8, <2>9, <2>10 DEF WalkInv
  <1>3. CASE UNCHANGED vars
    BY <1>3, SameShards DEF vars, WalkInv, NodesOf, Covers, SameChannel
  <1>4. CASE Next /\ ~OpenShards /\ ~Batch
    <2>1. phase' # "walk"
      BY <1>4 DEF Next, Check, FetchIndexes, Interrupt, Skip, NotThere, LoadFlat, FailFlat,
                  FailShardIndex, AddShards, ShardMissing, Fallback, FailFallback, FlatPassOver,
                  LoadAgain, Restart, Finish, AddFlat, LoadFailed, Advance, Loading, PassOver,
                  LastPassOver
    <2> QED
      BY <2>1 DEF WalkInv
  <1> QED
    BY <1>1, <1>2, <1>3, <1>4

(* The nodes of a walk that has all its shards cover what it was for.      *)
LEMMA WalkCovers ==
    ASSUME TypeOK, WalkInv, phase = "walk", AllPresent
    PROVE  Covers(walk.visited, walk.group, roots) /\ walk.visited \in SUBSET Nodes
  BY DEF WalkInv, AllPresent, Covers, TypeOK, Walks

(* Repos made of a walk have nothing but needed names.                     *)
LEMMA LeastStep ==
    ASSUME TypeOK, Modes, WalkInv, LeastInv, AgainInv, [Next]_vars
    PROVE  LeastInv'
  <1> USE DEF surroundings, metadata, rootVars, position, database
  <1>1. CASE Check
    <2>1. shard' = NoRepos /\ firstPass' = NoRepos
      BY <1>1 DEF Check, Modes, AgainInv
    <2> QED
      BY <2>1 DEF LeastInv, NoRepos
  <1>2. CASE Restart
    <2>1. shard' = NoRepos /\ firstPass' = NoRepos
      BY <1>2 DEF Restart
    <2> QED
      BY <2>1 DEF LeastInv, NoRepos
  <1>3. CASE ~Check /\ ~Restart
    <2>1. Grows
      BY <1>3, Growth
    <2>2. ASSUME NEW j \in Subdirs, NEW p \in Packages, p \in shard'[j] \cup firstPass'[j]
          PROVE  Needed(j, p)
      <3>1. CASE AddShards
        <4>1. /\ firstPass' = firstPass
              /\ shard'[j] = IF j \in NewRepos THEN Found(j) ELSE shard[j]
              /\ phase = "walk" /\ AllPresent
          BY <3>1 DEF AddShards
        <4>2. CASE p \in shard[j] \cup firstPass[j]
          BY <4>2 DEF LeastInv
        <4>3. CASE j \in NewRepos /\ p \in Found(j)
          <5>1. j \in walk.group /\ <<j, p>> \in walk.visited
            <6>1. PICK n \in walk.visited : n[1] = j /\ p = n[2]
              BY <4>3 DEF Found
            <6>2. n \in Nodes
              BY DEF TypeOK, Walks
            <6> QED
              BY <4>3, <6>1, <6>2 DEF NewRepos, Nodes
          <5>2. SameChannel(j) = SameChannel(cur) /\ j \in Sharded
            BY <4>1, <5>1 DEF WalkInv, SameChannel
          <5> QED
            BY <4>1, <5>1, <5>2 DEF Needed, WalkInv
        <4> QED
          BY <2>2, <4>1, <4>2, <4>3
      <3>2. CASE ~AddShards
        <4>1. /\ firstPass' = firstPass \/ firstPass' = shard
              /\ shard' = shard \/ shard' = NoRepos
          BY <1>3, <3>2 DEF Next, FetchIndexes, Interrupt, Skip, NotThere, LoadFlat, FailFlat,
             OpenShards, FailShardIndex, Batch, ShardMissing, Fallback, FailFallback,
             FlatPassOver, LoadAgain, Finish, vars
        <4>2. p \in shard[j] \cup firstPass[j]
          BY <2>2, <4>1 DEF NoRepos
        <4> QED
          BY <4>2 DEF LeastInv
      <3> QED
        BY <3>1, <3>2
    <2>3. ASSUME NEW j \in Subdirs, NEW p \in Packages, p \in shard'[j] \cup firstPass'[j]
          PROVE  Needed(j, p)'
      BY <2>1, <2>2, <2>3, NeededStays
    <2> QED
      BY <2>3 DEF LeastInv
  <1> QED
    BY <1>1, <1>2, <1>3

(* A walk of the follow-up pass finds what the first pass had of a subdir. *)
LEMMA FoundAgain ==
    ASSUME TypeOK, WalkInv, LeastInv, phase = "walk", AllPresent, NEW j \in walk.group
    PROVE  firstPass[j] \subseteq Found(j)
  <1>0. j \in Subdirs
    BY DEF TypeOK, Walks
  <1>1. SameChannel(j) \cap cachedIndex = walk.group
    BY <1>0 DEF WalkInv, SameChannel
  <1>2. ASSUME NEW p \in firstPass[j] PROVE p \in Found(j)
    <2>1. p \in Packages /\ Needed(j, p)
      BY <1>0, <1>2 DEF TypeOK, LeastInv
    <2>2. <<j, p>> \in walk.visited
      BY <1>1, <2>1, WalkCovers DEF Needed
    <2> QED
      BY <2>2 DEF Found
  <1> QED
    BY <1>2

(* What the shards of a subdir name, the subdir publishes.                 *)
LEMMA Published ==
    ASSUME TypeOK, LeastInv, NEW j \in Subdirs
    PROVE  shard[j] \cup firstPass[j] \subseteq server.index[j]
  <1> DEFINE V == NodesOf(Subdirs, Packages)
  <1>1. V \in SUBSET Nodes
    BY DEF NodesOf
  <1>2. \A A \in SUBSET Subdirs, N \in SUBSET Packages : NodesOf(A, N) \subseteq V
    BY NodesOfGrows
  <1>3. SameChannel(j) \cap cachedIndex \in SUBSET Subdirs /\ roots \in SUBSET Packages
    BY DEF TypeOK, SameChannel
  <1>4. \A n \in V : server.deps[n] \in SUBSET Packages
    BY <1>1 DEF TypeOK, ServerStates
  <1>5. Covers(V, SameChannel(j) \cap cachedIndex, roots)
    BY <1>2, <1>3, <1>4 DEF Covers
  <1>6. ASSUME NEW p \in shard[j] \cup firstPass[j] PROVE p \in server.index[j]
    <2>1. p \in Packages
      BY <1>6 DEF TypeOK
    <2>2. <<j, p>> \in V
      BY <1>1, <1>5, <1>6, <2>1 DEF LeastInv, Needed
    <2> QED
      BY <2>2 DEF NodesOf
  <1> QED
    BY <1>6

(* A repo whose names are in the database stays there.                     *)
LEMMA KeepsNames ==
    ASSUME TypeOK, LeastInv, NEW j \in Subdirs, firstPass[j] \subseteq InDatabase(j),
           server' = server, kept' = kept, firstPass' = firstPass, flat \subseteq flat',
           shard[j] \subseteq shard'[j]
    PROVE  firstPass'[j] \subseteq InDatabase(j)'
  <1>1. firstPass[j] \subseteq server.index[j]
    BY Published
  <1> QED
    BY <1>1 DEF InDatabase

(* A subdir that the follow-up pass goes past has all its names by then.   *)
LEMMA AgainAdvance ==
    ASSUME TypeOK, LeastInv, AgainInv, InPass,
           pass' = pass, cur \in Subdirs, cur' = cur + 1, phase' = "load",
           server' = server, kept' = kept, firstPass' = firstPass, flat \subseteq flat',
           \A j \in Subdirs : shard[j] \subseteq shard'[j],
           \A j \in Subdirs : shard'[j] # {} => firstPass[j] \subseteq shard'[j] \/ shard'[j] = shard[j],
           errors' = {} => errors = {}, loadingFailed => loadingFailed',
           errors' = {} /\ ~loadingFailed' /\ pass = "again" =>
             cur \in flat' \/ firstPass[cur] \subseteq shard'[cur]
    PROVE  AgainInv'
  <1>1. firstPass[cur] \subseteq server.index[cur] /\ firstPass[cur]' = firstPass[cur]'
    BY Published
  <1>2. ASSUME pass = "again", NEW j \in Subdirs, shard'[j] # {}
        PROVE  firstPass'[j] \subseteq shard'[j]
    BY <1>2 DEF AgainInv
  <1>3. ASSUME pass = "again", NEW j \in Subdirs, errors' = {}, ~loadingFailed', j < cur'
        PROVE  firstPass'[j] \subseteq InDatabase(j)'
    <2>1. j < cur \/ j = cur
      BY <1>3 DEF Subdirs
    <2>2. CASE firstPass[j] \subseteq InDatabase(j)
      BY <2>2, KeepsNames
    <2>3. CASE j < cur
      BY <1>3, <2>2, <2>3 DEF AgainInv
    <2>4. CASE j = cur /\ cur \in flat'
      BY <1>1, <2>4 DEF InDatabase
    <2>5. CASE j = cur /\ cur \notin flat' /\ firstPass[cur] \subseteq shard'[cur]
      BY <2>5 DEF InDatabase
    <2> QED
      BY <1>3, <2>1, <2>2, <2>3, <2>4, <2>5
  <1>4. SecondPassKeeps'
    BY DEF SecondPassKeeps, Loaded
  <1> QED
    BY <1>2, <1>3, <1>4 DEF AgainInv

(* The follow-up pass goes past no subdir without its names.               *)
LEMMA AgainStep ==
    ASSUME TypeOK, RootsInWalk, Modes, WalkInv, LeastInv, AgainInv, [Next]_vars
    PROVE  AgainInv'
  <1> USE DEF surroundings, metadata, position, passVars, database, outcome
  <1>0. /\ firstPass \in [Subdirs -> SUBSET Packages] /\ shard \in [Subdirs -> SUBSET Packages]
        /\ cur \in 1..NSubdirs + 1 /\ NSubdirs \in Nat
    BY SubdirsAssumption DEF TypeOK
  <1>1. CASE Check \/ FetchIndexes \/ Interrupt \/ Restart
    <2>1. CASE Check
      BY <2>1 DEF Check, AgainInv, InPass, SecondPassKeeps, Loaded
    <2>2. CASE FetchIndexes
      BY <2>2 DEF FetchIndexes, AgainInv, InPass, SecondPassKeeps, Loaded
    <2>3. CASE Interrupt
      BY <2>3 DEF Interrupt, AgainInv, InPass, SecondPassKeeps, Loaded
    <2>4. CASE Restart
      BY <2>4 DEF Restart, AgainInv, InPass, SecondPassKeeps, Loaded
    <2> QED
      BY <1>1, <2>1, <2>2, <2>3, <2>4
  <1>2. CASE Skip \/ NotThere
    <2>1. /\ UNCHANGED <<server, flat, kept, shard, firstPass, loadingFailed, pass>>
          /\ errors' = {} => errors = {}
          /\ phase = "load" /\ phase' = "load" /\ cur' = cur + 1 /\ cur \in Subdirs
      BY <1>2 DEF Skip, NotThere, Loading, Advance
    <2>2. ASSUME pass = "again"
          PROVE  firstPass[cur] \subseteq shard[cur]
      <3>1. cur \notin Sharded \/ shard[cur] # {}
        BY <1>2, <2>2 DEF Skip, NotThere, Skipped, Loading
      <3>2. cur \notin Sharded => firstPass[cur] = {}
        BY <2>1, <1>0 DEF LeastInv, Needed
      <3>3. shard[cur] # {} => firstPass[cur] \subseteq shard[cur]
        BY <2>1, <2>2 DEF AgainInv, InPass
      <3> QED
        BY <3>1, <3>2, <3>3
    <2> QED
      BY <2>1, <2>2, AgainAdvance DEF InPass
  <1>3. CASE LoadFlat \/ Fallback
    <2>1. /\ UNCHANGED <<server, kept, shard, firstPass, loadingFailed, errors, pass>>
          /\ flat' = flat \cup {cur}
          /\ InPass /\ phase' = "load" /\ cur' = cur + 1 /\ cur \in Subdirs
      BY <1>3 DEF InPass, LoadFlat, Fallback, AddFlat, Loading, Advance, TypeOK
    <2>2. cur \in flat' /\ flat \subseteq flat'
      BY <2>1
    <2>3. loadingFailed => loadingFailed'
      BY <2>1
    <2> QED
      BY <2>1, <2>2, <2>3, AgainAdvance
  <1>4. CASE FailFlat \/ FailFallback
    <2>1. /\ UNCHANGED <<server, kept, shard, firstPass, flat, pass>>
          /\ errors' = IF isRetry THEN errors \cup {"load"} ELSE errors
          /\ loadingFailed' = (loadingFailed \/ ~isRetry)
          /\ phase \in {"load", "fallback"} /\ phase' = "load" /\ cur' = cur + 1 /\ cur \in Subdirs
      BY <1>4 DEF FailFlat, FailFallback, LoadFailed, Loading, Advance, TypeOK
    <2>2. errors' # {} \/ loadingFailed'
      BY <2>1 DEF TypeOK
    <2>3. errors' = {} => errors = {}
      BY <2>1
    <2>4. loadingFailed => loadingFailed'
      BY <2>1
    <2> QED
      BY <2>1, <2>2, <2>3, <2>4, AgainAdvance DEF InPass
  <1>5. CASE OpenShards \/ FailShardIndex \/ Batch \/ ShardMissing
    <2>1. /\ UNCHANGED <<server, kept, shard, firstPass, flat, pass, cur, errors, loadingFailed>>
          /\ InPass /\ phase' \in {"walk", "fallback"}
      BY <1>5 DEF OpenShards, FailShardIndex, Batch, ShardMissing, Loading, InPass
    <2>2. \A j \in Subdirs : InDatabase(j)' = InDatabase(j)
      BY <2>1 DEF InDatabase
    <2> QED
      BY <2>1, <2>2 DEF AgainInv, InPass, SecondPassKeeps, Loaded
  <1>6. CASE AddShards
    <2>1. /\ UNCHANGED <<server, kept, firstPass, flat, pass, errors, loadingFailed>>
          /\ shard' = [j \in Subdirs |-> IF j \in NewRepos THEN Found(j) ELSE shard[j]]
          /\ phase = "walk" /\ AllPresent /\ cur \in Subdirs
          /\ \/ NewRepos # {} /\ phase' = "load" /\ cur' = cur + 1
             \/ NewRepos = {} /\ phase' = "fallback" /\ cur' = cur
      BY <1>6 DEF AddShards, Advance, TypeOK
    <2>2. \A j \in NewRepos : firstPass[j] \subseteq Found(j) /\ shard[j] = {}
      BY <2>1, FoundAgain DEF NewRepos
    <2>3. \A j \in Subdirs : /\ shard[j] \subseteq shard'[j]
                            /\ (firstPass[j] \subseteq shard'[j] \/ shard'[j] = shard[j])
      BY <2>1, <2>2
    <2>4. CASE NewRepos # {}
      <3>1. ASSUME pass = "again" PROVE firstPass[cur] \subseteq shard'[cur]
        <4>1. cur \in walk.group
          BY <2>1 DEF RootsInWalk
        <4>2. firstPass[cur] \subseteq Found(cur)
          BY <2>1, <4>1, FoundAgain
        <4>3. shard[cur] # {} => firstPass[cur] \subseteq shard[cur]
          BY <2>1, <3>1 DEF AgainInv, InPass
        <4> QED
          BY <2>1, <4>1, <4>2, <4>3 DEF NewRepos
      <3> QED
        BY <2>1, <2>3, <2>4, <3>1, AgainAdvance DEF InPass
    <2>5. CASE NewRepos = {}
      <3>1. \A j \in Subdirs : shard'[j] = shard[j]
        BY <2>1, <2>5
      <3>2. \A j \in Subdirs : InDatabase(j)' = InDatabase(j)
        BY <2>1, <3>1 DEF InDatabase
      <3> QED
        BY <2>1, <2>5, <3>1, <3>2 DEF AgainInv, InPass, SecondPassKeeps, Loaded
    <2> QED
      BY <2>4, <2>5
  <1>7. CASE FlatPassOver
    BY <1>7 DEF FlatPassOver, PassOver, AgainInv, InPass, SecondPassKeeps, Loaded
  <1>8. CASE LoadAgain
    <2>1. phase' = "load" /\ cur' = 1 /\ shard' = NoRepos
      BY <1>8 DEF LoadAgain, PassOver
    <2>2. \A j \in Subdirs : shard'[j] = {} /\ ~(j < cur')
      BY <2>1 DEF NoRepos, Subdirs
    <2> QED
      BY <2>1, <2>2 DEF AgainInv, SecondPassKeeps, Loaded
  <1>9. CASE Finish
    <2>1. /\ UNCHANGED <<server, kept, shard, firstPass, flat, pass>>
          /\ phase = "load" /\ phase' = "ended" /\ cur = NSubdirs + 1
          /\ errors' = {} => errors = {} /\ ~loadingFailed
      BY <1>9 DEF Finish, LastPassOver, PassOver
    <2>2. \A j \in Subdirs : j < cur
      BY <1>0, <2>1 DEF Subdirs
    <2>3. \A j \in Subdirs : InDatabase(j)' = InDatabase(j)
      BY <2>1 DEF InDatabase
    <2>4. SecondPassKeeps'
      BY <2>1, <2>2, <2>3 DEF AgainInv, InPass, SecondPassKeeps, Loaded
    <2> QED
      BY <2>1, <2>4 DEF AgainInv, InPass
  <1>10. CASE UNCHANGED vars
    <2>1. \A j \in Subdirs : InDatabase(j)' = InDatabase(j)
      BY <1>10 DEF InDatabase, vars
    <2> QED
      BY <1>10, <2>1 DEF vars, AgainInv, InPass, SecondPassKeeps, Loaded
  <1> QED
    BY <1>1, <1>2, <1>3, <1>4, <1>5, <1>6, <1>7, <1>8, <1>9, <1>10 DEF Next

(* All this holds in the beginning.                                        *)
LEMMA FollowUpInit == Init => FollowUpInv
  <1> SUFFICES ASSUME Init PROVE FollowUpInv
    OBVIOUS
  <1>1. WalkInv /\ LeastInv
    BY DEF Init, WalkInv, LeastInv, NoRepos
  <1>2. AgainInv
    BY DEF Init, AgainInv, InPass, SecondPassKeeps, Loaded
  <1> QED
    BY <1>1, <1>2 DEF FollowUpInv

(* Every step keeps it.                                                    *)
LEMMA FollowUpStep == Inv /\ FollowUpInv /\ [Next]_vars => FollowUpInv'
  BY WalkInvStep, LeastStep, AgainStep DEF Inv, FollowUpInv

(* For all channels, servers, caches and failures: the names that the      *)
(* first pass over the shards had put in the database are there when a     *)
(* load with a follow-up pass ends without error, though that pass removes *)
(* the repos before it makes them anew, and may have to fall back.         *)
THEOREM FollowUpKeeps == Spec => []SecondPassKeeps
  <1>1. FollowUpInv => SecondPassKeeps
    BY DEF FollowUpInv, AgainInv
  <1> QED
    BY <1>1, InvInit, InvStep, FollowUpInit, FollowUpStep, PTL DEF Spec
-----------------------------------------------------------------------------
(* A load in which nothing fails.                                          *)

(* The subdirs that are loaded together with k, the names that the full    *)
(* repos mention, and those that the shards around k do.                   *)
Group(k) == SameChannel(k) \cap Sharded
FullNames == Mentioned(Needs(Subdirs \ Sharded, Roots))
ShardNames(k) == Mentioned(Needs(Group(k), Roots))

(* The database has what the names need from the channel of k.             *)
Has(k, names) ==
    k \in flat \/ Reachable(Group(k), names) \cap server.index[k] \subseteq shard[k]

(* All metadata is there, the flat pass loads every full repo, and a walk  *)
(* is over all of its group.                                               *)
Smooth ==
    /\ ~loadingFailed
    /\ phase = "indexes" \/ InPass => hasShards = server.sharded
    /\ InPass => Subdirs \ Sharded \subseteq valid
    /\ InPass /\ pass = "flat" => \A i \in Subdirs \ Sharded : i < cur => i \in fullRepos
    /\ phase = "walk" => Group(cur) \subseteq walk.group /\ walk.visited \subseteq walk.present

(* The roots of the shards have the names from full repos, those of the    *)
(* follow-up pass also the ones from shards.                               *)
RootsKnown ==
    InPass /\ pass # "flat" /\ Sharded # {} =>
      /\ Roots \cup FullNames \subseteq rootsAfterFlat /\ rootsAfterFlat \subseteq roots
      /\ ~expand => \A i, j \in Sharded : Channel[i] = Channel[j]
      /\ pass = "again" => expand /\ \A k \in Sharded : ShardNames(k) \subseteq roots
      /\ phase = "fallback" /\ expand => ShardNames(cur) \subseteq roots

(* Subdirs that were gone past, or loaded along with one, have what the    *)
(* roots need, and have told their own names.                              *)
Done(k) ==
    /\ Has(k, rootsAfterFlat)
    /\ pass = "shard" /\ expand => ShardNames(k) \subseteq roots
    /\ pass = "again" => \A i \in Sharded : Has(k, ShardNames(i))
ReposHave ==
    InPass /\ pass # "flat" => \A k \in Sharded : k < cur \/ shard[k] # {} => Done(k)

(* What is promised of two subdirs.                                        *)
Crossed(i, j) ==
    /\ HasNodes(Needs(Group(i), Roots))
    /\ i \in Sharded => HasNodes(Needs(Group(j), ShardNames(i)))
    /\ HasNodes(Needs(Group(j), FullNames))

CrossInv == (Healthy => Smooth /\ RootsKnown /\ ReposHave) /\ OneCrossing

-----------------------------------------------------------------------------
(* Names that can be reached.                                              *)

(* More subdirs and more names reach more.                                 *)
LEMMA ReachableGrows ==
    ASSUME NEW A, NEW B, A \subseteq B, NEW N, NEW M, N \subseteq M
    PROVE  Reachable(A, N) \subseteq Reachable(B, M)
  <1>1. \A S : Closed(B, S) => Closed(A, S)
    BY DEF Closed, NodesOf
  <1> QED
    BY <1>1 DEF Reachable

(* They are closed, and the least such names.                              *)
LEMMA ReachableClosed ==
    ASSUME server \in ServerStates, NEW A, NEW N
    PROVE  Closed(A, Reachable(A, N))
  <1> SUFFICES ASSUME NEW n \in NodesOf(A, Reachable(A, N)), NEW q \in server.deps[n]
               PROVE  q \in Reachable(A, N)
    BY DEF Closed
  <1>1. n \in Nodes /\ q \in Packages
    BY DEF NodesOf, ServerStates
  <1>2. ASSUME NEW S \in SUBSET Packages, N \subseteq S, Closed(A, S)
        PROVE  q \in S
    <2>1. n[2] \in S
      BY <1>2 DEF NodesOf, Reachable
    <2>2. n \in NodesOf(A, S)
      BY <2>1 DEF NodesOf
    <2> QED
      BY <1>2, <2>2 DEF Closed
  <1> QED
    BY <1>1, <1>2 DEF Reachable

(* Any closed set with the names has all that they reach.                  *)
LEMMA ReachableLeast ==
    ASSUME NEW A, NEW N, NEW S \in SUBSET Packages, N \subseteq S, Closed(A, S)
    PROVE  Reachable(A, N) \subseteq S
  BY DEF Reachable

(* From what is reached nothing new is.                                    *)
LEMMA ReachableAgain ==
    ASSUME server \in ServerStates, NEW A, NEW N, N \subseteq Packages,
           NEW M, M \subseteq Reachable(A, N)
    PROVE  Reachable(A, M) \subseteq Reachable(A, N)
  <1>1. Reachable(A, N) \in SUBSET Packages
    BY DEF Reachable
  <1> QED
    BY <1>1, ReachableClosed, ReachableLeast

(* What is needed mentions what can be reached.                            *)
LEMMA MentionedReachable ==
    ASSUME server \in ServerStates, NEW A, NEW N
    PROVE  Mentioned(Needs(A, N)) \subseteq Reachable(A, N)
  BY ReachableClosed DEF Closed, Needs, Mentioned

(* More nodes mention more.                                                *)
LEMMA MentionedGrows ==
    ASSUME NEW A, NEW B, A \subseteq B
    PROVE  Mentioned(A) \subseteq Mentioned(B)
  BY DEF Mentioned

(* Nodes that cover names have all that these need.                        *)
LEMMA CoversNeeds ==
    ASSUME server \in ServerStates, NEW V \in SUBSET Nodes, NEW A, NEW N, N \subseteq Packages,
           Covers(V, A, N)
    PROVE  Needs(A, N) \subseteq V
  <1> DEFINE S == {p \in Packages : NodesOf(A, {p}) \subseteq V}
  <1>1. ASSUME NEW M, M \subseteq Packages, NodesOf(A, M) \subseteq V
        PROVE  M \subseteq S
    <2>1. \A p \in M : NodesOf(A, {p}) \subseteq NodesOf(A, M)
      BY NodesOfGrows
    <2> QED
      BY <1>1, <2>1
  <1>2. ASSUME NEW n \in NodesOf(A, S) PROVE n \in V
    BY DEF NodesOf
  <1>3. N \subseteq S
    BY <1>1 DEF Covers
  <1>4. Closed(A, S)
    <2> SUFFICES ASSUME NEW n \in NodesOf(A, S) PROVE server.deps[n] \subseteq S
      BY DEF Closed
    <2>1. n \in V /\ n \in Nodes
      BY <1>2 DEF NodesOf
    <2>2. server.deps[n] \subseteq Packages
      BY <2>1 DEF ServerStates
    <2> QED
      BY <1>1, <2>1, <2>2 DEF Covers
  <1>5. Reachable(A, N) \subseteq S
    BY <1>3, <1>4, ReachableLeast
  <1>6. NodesOf(A, Reachable(A, N)) \subseteq NodesOf(A, S)
    BY <1>5, NodesOfGrows
  <1> QED
    BY <1>2, <1>6 DEF Needs

(* On the same servers, the same can be reached.                           *)
LEMMA SameReachable ==
    ASSUME server' = server, NEW A, NEW N
    PROVE  /\ Reachable(A, N)' = Reachable(A, N)
           /\ Needs(A, N)' = Needs(A, N)
           /\ Mentioned(Needs(A, N))' = Mentioned(Needs(A, N))
  <1>1. \A B, M : NodesOf(B, M)' = NodesOf(B, M)
    BY DEF NodesOf
  <1>2. \A S : Closed(A, S)' <=> Closed(A, S)
    BY DEF Closed, NodesOf
  <1>3. Reachable(A, N)' = Reachable(A, N)
    BY <1>2 DEF Reachable
  <1>4. Needs(A, N)' = Needs(A, N)
    BY <1>1, <1>3 DEF Needs
  <1> QED
    BY <1>3, <1>4 DEF Mentioned

(* Nor do the names that full repos and shards mention change.             *)
LEMMA SameNames ==
    ASSUME server' = server, Sharded' = Sharded
    PROVE  /\ FullNames' = FullNames
           /\ \A k \in Subdirs : /\ Group(k)' = Group(k)
                                 /\ ShardNames(k)' = ShardNames(k)
  <1>1. FullNames' = FullNames
    <2>1. PICK H : H = Subdirs \ Sharded
      OBVIOUS
    <2>2. Mentioned(Needs(H, Roots))' = Mentioned(Needs(H, Roots))
      BY SameReachable
    <2> QED
      BY <2>1, <2>2 DEF FullNames
  <1>2. ASSUME NEW k \in Subdirs PROVE Group(k)' = Group(k)
    BY DEF Group, SameChannel
  <1>3. ASSUME NEW k \in Subdirs PROVE ShardNames(k)' = ShardNames(k)
    <2>1. PICK G : G = Group(k) /\ G = Group(k)'
      BY <1>2
    <2>2. Mentioned(Needs(G, Roots))' = Mentioned(Needs(G, Roots))
      BY SameReachable
    <2> QED
      BY <2>1, <2>2 DEF ShardNames
  <1> QED
    BY <1>1, <1>2, <1>3

(* The database does not lose names.                                       *)
LEMMA HasStays ==
    ASSUME server' = server, Sharded' = Sharded, NEW k \in Subdirs, NEW N, Has(k, N),
           flat \subseteq flat', shard[k] \subseteq shard'[k]
    PROVE  Has(k, N)'
  <1>1. PICK G : G = Group(k) /\ G = Group(k)'
    BY SameNames
  <1>2. Reachable(G, N)' = Reachable(G, N)
    BY SameReachable
  <1> QED
    BY <1>1, <1>2 DEF Has

(* What has the greater need has the lesser one.                           *)
LEMMA HasLess ==
    ASSUME NEW k, NEW N, NEW M, N \subseteq M, Has(k, M)
    PROVE  Has(k, N)
  BY ReachableGrows DEF Has

(* A walk without failures finds all that its roots need.                  *)
LEMMA WalkHas ==
    ASSUME TypeOK, WalkInv, phase = "walk", AllPresent, Group(cur) \subseteq walk.group,
           NEW N, N \subseteq roots, NEW k \in Group(cur)
    PROVE  /\ Needs(Group(k), N) \subseteq walk.visited
           /\ Reachable(Group(k), N) \cap server.index[k] \subseteq Found(k)
  <1>1. Group(k) = Group(cur) /\ k \in Group(k) /\ k \in Subdirs
    BY DEF Group, SameChannel
  <1>2. Covers(walk.visited, Group(k), N) /\ walk.visited \in SUBSET Nodes
    BY <1>1, WalkCovers, CoversLess
  <1>3. server \in ServerStates /\ N \subseteq Packages
    BY DEF TypeOK
  <1>4. Needs(Group(k), N) \subseteq walk.visited
    BY <1>2, <1>3, CoversNeeds
  <1>5. ASSUME NEW p \in Reachable(Group(k), N), p \in server.index[k] PROVE p \in Found(k)
    <2>1. p \in Packages
      BY DEF Reachable
    <2>2. <<k, p>> \in Needs(Group(k), N)
      BY <1>1, <1>5, <2>1 DEF Needs, NodesOf, Nodes
    <2> QED
      BY <1>4, <2>2 DEF Found
  <1> QED
    BY <1>4, <1>5

-----------------------------------------------------------------------------
(* The steps of a load in which nothing fails.                             *)

(* Nothing had failed before, either.                                      *)
LEMMA HealthyBefore ==
    ASSUME TypeOK, [Next]_vars, Healthy'
    PROVE  Healthy
  <1> USE DEF surroundings
  <1>1. offline' = offline
    BY DEF Next, Check, FetchIndexes, Interrupt, Skip, NotThere, LoadFlat, FailFlat, OpenShards,
       FailShardIndex, Batch, AddShards, ShardMissing, Fallback, FailFallback, FlatPassOver,
       LoadAgain, Restart, Finish, vars
  <1>2. failures \in Nat
    BY InputsAssumption DEF TypeOK
  <1>3. failures' = failures \/ failures' = failures + 1
    BY DEF Next, Check, FetchIndexes, Interrupt, Skip, NotThere, LoadFlat, FailFlat, OpenShards,
       FailShardIndex, Batch, AddShards, ShardMissing, Fallback, FailFallback, FlatPassOver,
       LoadAgain, Restart, Finish, vars, Fails, outcome
  <1> QED
    BY <1>1, <1>2, <1>3 DEF Healthy

(* What would count as a failure is not the case.                          *)
LEMMA NothingFails ==
    ASSUME Healthy, Healthy', NEW b \in BOOLEAN, Fails(b)
    PROVE  ~b
  BY DEF Healthy, Fails

(* The steps that fail are not taken, nor those that follow a failure.     *)
LEMMA HealthySteps ==
    ASSUME TypeOK, Smooth, Healthy, Healthy', [Next]_vars
    PROVE  /\ ~FailFlat /\ ~FailFallback /\ ~FailShardIndex /\ ~ShardMissing
           /\ ~Restart /\ ~NotThere
  <1>1. ~FailFlat
    BY NothingFails DEF FailFlat
  <1>2. ~FailFallback
    BY NothingFails DEF FailFallback, Healthy
  <1>3. ~FailShardIndex
    BY NothingFails DEF FailShardIndex, Healthy
  <1>4. ~ShardMissing
    BY DEF ShardMissing, Smooth, AllPresent
  <1>5. ~Restart
    BY DEF Restart, Retry, Smooth
  <1>6. ~NotThere
    BY DEF NotThere, Smooth, Loading, InPass
  <1> QED
    BY <1>1, <1>2, <1>3, <1>4, <1>5, <1>6

(* Nothing new is heard of shards.                                         *)
LEMMA HealthySame ==
    ASSUME TypeOK, Smooth, Healthy, Healthy', [Next]_vars, InPass
    PROVE  server' = server /\ hasShards' = hasShards /\ Sharded' = Sharded
  <1> USE DEF surroundings, metadata
  <1>1. CASE OpenShards
    <2>1. \E found \in SUBSET ((SameChannel(cur) \cap server.sharded) \ hasShards) :
            hasShards' = hasShards \cup found
      BY <1>1 DEF OpenShards
    <2>2. hasShards = server.sharded
      BY DEF Smooth
    <2> QED
      BY <1>1, <2>1, <2>2, SameShards DEF OpenShards
  <1>2. CASE ~OpenShards
    <2>1. ~Check /\ ~FetchIndexes /\ ~Interrupt
      BY DEF Check, FetchIndexes, Interrupt, InPass
    <2>2. server' = server /\ hasShards' = hasShards
      BY <1>2, <2>1, HealthySteps DEF Next, Skip, LoadFlat, Batch, AddShards, Fallback,
         FlatPassOver, LoadAgain, Finish, vars
    <2> QED
      BY <2>2, SameShards
  <1> QED
    BY <1>1, <1>2

(* The request for the metadata and those for the indexes are answered.    *)
LEMMA SmoothStart ==
    ASSUME TypeOK, Smooth, Healthy, Healthy', Check \/ FetchIndexes \/ Interrupt
    PROVE  Smooth'
  <1> USE DEF surroundings, metadata, outcome
  <1>1. CASE Check
    <2>1. hasShards' = server.sharded
      BY <1>1, NothingFails DEF Check, Healthy
    <2> QED
      BY <1>1, <2>1 DEF Check, Smooth, InPass
  <1>2. CASE FetchIndexes
    <2>1. (Subdirs \ Sharded) \ valid \subseteq valid'
      <3>1. PICK got \in SUBSET ((Subdirs \ Sharded) \ valid) :
              /\ Fails(~offline /\ got # (Subdirs \ Sharded) \ valid)
              /\ valid' = valid \cup got
        BY <1>2 DEF FetchIndexes, Healthy
      <3>2. got = (Subdirs \ Sharded) \ valid
        BY <3>1, NothingFails DEF Healthy
      <3> QED
        BY <3>1, <3>2
    <2>2. valid \subseteq valid' /\ Sharded' = Sharded
      BY <1>2, SameShards DEF FetchIndexes
    <2>3. phase = "indexes" /\ phase' = "load" /\ cur' = 1 /\ server' = server
          /\ hasShards' = hasShards /\ loadingFailed' = loadingFailed
      BY <1>2 DEF FetchIndexes
    <2>4. \A i \in Subdirs : ~(i < cur')
      BY <2>3 DEF Subdirs
    <2> QED
      BY <2>1, <2>2, <2>3, <2>4 DEF Smooth, InPass
  <1>3. CASE Interrupt
    BY <1>3 DEF Interrupt, Smooth, InPass
  <1> QED
    BY <1>1, <1>2, <1>3

(* The walks and passes go on without gaps.                                *)
LEMMA SmoothStep ==
    ASSUME TypeOK, Modes, Smooth, Healthy, Healthy', [Next]_vars
    PROVE  Smooth'
  <1> USE DEF surroundings, metadata, outcome, passVars, position
  <1>1. CASE Check \/ FetchIndexes \/ Interrupt
    BY <1>1, SmoothStart
  <1>2. CASE InPass /\ (Skip \/ LoadFlat \/ Fallback)
    <2>1. server' = server /\ hasShards' = hasShards /\ Sharded' = Sharded
      BY <1>2, HealthySame
    <2>2. phase' = "load" /\ cur' = cur + 1 /\ pass' = pass /\ cur \in Subdirs
      BY <1>2 DEF Skip, LoadFlat, Fallback, AddFlat, Advance, Loading, TypeOK
    <2>3. loadingFailed' = loadingFailed
      BY <1>2 DEF Skip, LoadFlat, Fallback
    <2>4. valid \subseteq valid' /\ fullRepos \subseteq fullRepos'
      BY <1>2 DEF Skip, LoadFlat, Fallback, AddFlat
    <2>5. pass = "flat" /\ cur \notin Sharded => cur \in fullRepos'
      <3>1. CASE Skip
        BY <3>1 DEF Skip, Skipped, Modes, NoRepos
      <3>2. CASE LoadFlat \/ Fallback
        BY <3>2 DEF LoadFlat, Fallback, AddFlat
      <3> QED
        BY <1>2, <3>1, <3>2
    <2>6. \A i \in Subdirs : i < cur' => i < cur \/ i = cur
      BY <2>2 DEF Subdirs
    <2> QED
      BY <1>2, <2>1, <2>2, <2>3, <2>4, <2>5, <2>6 DEF Smooth, InPass
  <1>3. CASE OpenShards
    <2>1. server' = server /\ hasShards' = hasShards /\ Sharded' = Sharded /\ Group(cur)' = Group(cur)
      <3>1. cur' = cur /\ InPass
        BY <1>3 DEF OpenShards, InPass, Loading
      <3> QED
        BY <1>3, <3>1, HealthySame DEF Group, SameChannel
    <2>2. PICK group \in ShardIndexes(cur, hasShards) :
            /\ Fails(~offline /\ group # SameChannel(cur) \cap hasShards)
            /\ walk' = [NoWalk EXCEPT !.group = group, !.pending = NodesOf(group, roots)]
      BY <1>3, <2>1 DEF OpenShards
    <2>3. group = SameChannel(cur) \cap hasShards
      BY <2>2, NothingFails DEF Healthy
    <2>4. walk'.group = group /\ walk'.visited = {}
      BY <2>2 DEF NoWalk
    <2>5. Group(cur) \subseteq group
      BY <2>3, ShardedIs DEF Group
    <2>6. /\ UNCHANGED <<valid, pass, cur, fullRepos, loadingFailed>>
          /\ phase = "load" /\ phase' = "walk" /\ Modes
      BY <1>3 DEF OpenShards, Loading
    <2>7. pass # "flat"
      BY <1>3 DEF OpenShards, Loading, Skipped
    <2> QED
      BY <2>1, <2>4, <2>5, <2>6, <2>7 DEF Smooth, InPass
  <1>4. CASE Batch
    <2>1. PICK got \in SUBSET walk.pending :
             /\ Fails(got # walk.pending)
             /\ walk' = [walk EXCEPT !.visited = walk.visited \cup walk.pending,
                                     !.present = @ \cup got,
                                     !.pending = Neighbors(walk.group, got)
                                                   \ (walk.visited \cup walk.pending)]
      BY <1>4 DEF Batch, FetchShards
    <2>2. got = walk.pending
      BY <2>1, NothingFails
    <2>3. /\ walk'.group = walk.group /\ walk'.visited = walk.visited \cup walk.pending
          /\ walk'.present = walk.present \cup walk.pending
      BY <2>1, <2>2 DEF Walks, TypeOK
    <2>4. /\ UNCHANGED <<server, hasShards, valid, pass, cur, fullRepos, loadingFailed>>
          /\ phase = "walk" /\ phase' = "walk" /\ pass # "flat"
      BY <1>4 DEF Batch, Modes
    <2>5. Sharded' = Sharded /\ Group(cur)' = Group(cur)
      BY <2>4, SameShards DEF Group, SameChannel
    <2> QED
      BY <2>3, <2>4, <2>5 DEF Smooth, InPass
  <1>5. CASE AddShards
    <2>1. /\ UNCHANGED <<server, hasShards, valid, pass, fullRepos, loadingFailed>>
          /\ phase = "walk" /\ phase' \in {"load", "fallback"} /\ pass # "flat"
      BY <1>5 DEF AddShards, Advance, Modes
    <2> QED
      BY <2>1, SameShards DEF Smooth, InPass
  <1>6. CASE FlatPassOver \/ LoadAgain \/ Finish
    <2>1. /\ UNCHANGED <<server, hasShards, valid, loadingFailed>>
          /\ phase = "load" /\ phase' \in {"load", "ended"} /\ (pass' # "flat" \/ phase' = "ended")
      BY <1>6 DEF FlatPassOver, LoadAgain, Finish, PassOver, LastPassOver
    <2> QED
      BY <2>1, SameShards DEF Smooth, InPass
  <1>7. CASE UNCHANGED vars
    <2>1. Sharded' = Sharded /\ Group(cur)' = Group(cur)
      BY <1>7, SameShards DEF vars, Group, SameChannel
    <2> QED
      BY <1>7, <2>1 DEF Smooth, InPass, vars
  <1>8. InPass \/ ~(Skip \/ LoadFlat \/ Fallback)
    BY DEF InPass, Skip, LoadFlat, Fallback, Loading
  <1> QED
    BY <1>1, <1>2, <1>3, <1>4, <1>5, <1>6, <1>7, <1>8, HealthySteps DEF Next

(* What a subdir has, it keeps.                                            *)
LEMMA DoneStays ==
    ASSUME TypeOK, server' = server, Sharded' = Sharded, NEW k \in Subdirs, Done(k),
           UNCHANGED <<rootsAfterFlat, pass, expand>>, roots \subseteq roots',
           flat \subseteq flat', shard[k] \subseteq shard'[k]
    PROVE  Done(k)'
  <1>1. Has(k, rootsAfterFlat)'
    <2>1. PICK N : N = rootsAfterFlat
      OBVIOUS
    <2>2. Has(k, N)'
      BY <2>1, HasStays DEF Done
    <2> QED
      BY <2>1, <2>2 DEF Has
  <1>2. ShardNames(k)' = ShardNames(k)
    BY SameNames
  <1>3. pass = "shard" /\ expand' => expand
    OBVIOUS
  <1>4. pass = "shard" /\ expand' => ShardNames(k)' \subseteq roots'
    BY <1>2, <1>3 DEF Done
  <1>5. ASSUME pass = "again", NEW i \in Sharded PROVE Has(k, ShardNames(i))'
    <2>1. i \in Subdirs
      BY <1>5, ShardedType
    <2>2. PICK N : N = ShardNames(i) /\ N = ShardNames(i)'
      BY <2>1, SameNames
    <2>3. Has(k, N)'
      BY <1>5, <2>2, HasStays DEF Done
    <2> QED
      BY <2>2, <2>3 DEF Has
  <1> QED
    BY <1>1, <1>4, <1>5 DEF Done

(* The roots are taken from full repos, and then from shards.              *)
LEMMA RootsKnownStep ==
    ASSUME TypeOK, RootsInRepos, RootsInWalk, Modes, WalkInv, Smooth, RootsKnown, ReposHave,
           Healthy, Healthy', [Next]_vars
    PROVE  RootsKnown'
  <1> USE DEF surroundings, metadata, outcome, passVars, position, rootVars
  <1>1. CASE ~InPass
    <2>1. CASE FetchIndexes
      <3>1. Sharded' = Sharded /\ (Sharded # {} => pass' = "flat")
        BY <2>1, SameShards DEF FetchIndexes
      <3> QED
        BY <3>1 DEF RootsKnown
    <2>2. CASE Check \/ Interrupt
      BY <2>2 DEF Check, Interrupt, RootsKnown, InPass
    <2>3. CASE UNCHANGED vars
      BY <1>1, <2>3 DEF vars, RootsKnown, InPass
    <2> QED
      BY <1>1, <2>1, <2>2, <2>3 DEF Next, Skip, NotThere, LoadFlat, FailFlat, OpenShards,
         FailShardIndex, Batch, AddShards, ShardMissing, Fallback, FailFallback, FlatPassOver,
         LoadAgain, Restart, Finish, InPass, Loading, PassOver, LastPassOver
  <1>2. CASE InPass
    <2>1. Sharded' = Sharded /\ server' = server /\ Sharded \subseteq Subdirs
      BY <1>2, HealthySame, ShardedType
    <2>2. FullNames' = FullNames /\ \A k \in Subdirs : ShardNames(k)' = ShardNames(k)
      BY <2>1, SameNames
    <2>3. CASE Skip \/ LoadFlat \/ Fallback \/ OpenShards \/ Batch
      <3>1. /\ UNCHANGED <<roots, rootsAfterFlat, pass, expand>>
            /\ phase' # "fallback"
        BY <2>3 DEF Skip, LoadFlat, Fallback, OpenShards, Batch, AddFlat, Advance
      <3> QED
        BY <1>2, <2>1, <2>2, <3>1 DEF RootsKnown
    <2>4. CASE AddShards
      <3>1. /\ UNCHANGED <<rootsAfterFlat, pass, expand>> /\ roots \subseteq roots'
            /\ expand => roots' = roots \cup Mentioned(walk.visited)
            /\ phase' = "fallback" => cur' = cur
            /\ phase = "walk" /\ AllPresent
        BY <2>4 DEF AddShards, Advance
      <3>2. expand => ShardNames(cur) \subseteq roots'
        <4>1. cur \in Group(cur) /\ Group(cur) \subseteq walk.group
          BY <3>1, <2>1 DEF Modes, Smooth, Group, SameChannel
        <4>2. Needs(Group(cur), Roots) \subseteq walk.visited
          BY <3>1, <4>1, WalkHas DEF RootsInRepos
        <4> QED
          BY <3>1, <4>2, MentionedGrows DEF ShardNames
      <3>3. phase' = "fallback" => ShardNames(cur)' = ShardNames(cur)
        BY <2>1, <2>2, <3>1 DEF Modes, ShardNames, Group, SameChannel
      <3>4. \A k \in Sharded : ShardNames(k)' \subseteq roots' \/ ~(ShardNames(k) \subseteq roots)
        BY <2>1, <2>2, <3>1
      <3> QED
        BY <1>2, <2>1, <2>2, <3>1, <3>2, <3>3, <3>4 DEF RootsKnown
    <2>5. CASE FlatPassOver
      <3>1. /\ roots' = Reachable(fullRepos, roots) /\ rootsAfterFlat' = roots'
            /\ expand' = (\E i, j \in hasShards : Channel[i] # Channel[j])
            /\ phase = "load" /\ phase' = "load" /\ pass = "flat" /\ pass' = "shard"
            /\ cur = NSubdirs + 1
        BY <2>5 DEF FlatPassOver, PassOver
      <3>2. Subdirs \ Sharded \subseteq fullRepos
        BY <1>2, <3>1, SubdirsAssumption DEF Smooth, Subdirs
      <3>3. Reachable(Subdirs \ Sharded, Roots) \subseteq roots'
        BY <3>1, <3>2, ReachableGrows DEF RootsInRepos
      <3>4. FullNames \subseteq roots'
        BY <3>3, MentionedReachable DEF FullNames, TypeOK
      <3>5. Roots \subseteq roots'
        BY <3>1, ReachableContains DEF RootsInRepos, TypeOK
      <3>6. ~expand' => \A i, j \in Sharded : Channel[i] = Channel[j]
        BY <3>1, ShardedIs
      <3> QED
        BY <2>1, <2>2, <3>1, <3>4, <3>5, <3>6 DEF RootsKnown
    <2>6. CASE LoadAgain
      <3>1. /\ UNCHANGED <<roots, rootsAfterFlat, expand>> /\ expand
            /\ pass = "shard" /\ pass' = "again" /\ phase = "load" /\ phase' = "load"
            /\ cur = NSubdirs + 1
        BY <2>6 DEF LoadAgain, PassOver, FollowUp
      <3>2. \A k \in Sharded : ShardNames(k) \subseteq roots
        BY <1>2, <2>1, <3>1, SubdirsAssumption DEF ReposHave, Done, Subdirs
      <3> QED
        BY <1>2, <2>1, <2>2, <3>1, <3>2 DEF RootsKnown
    <2>7. CASE Finish
      BY <2>7 DEF Finish, RootsKnown, InPass
    <2>8. CASE UNCHANGED vars
      <3>1. UNCHANGED <<roots, rootsAfterFlat, pass, expand, phase, cur>>
        BY <2>8 DEF vars
      <3>2. phase = "fallback" => ShardNames(cur)' = ShardNames(cur)
        BY <2>1, <2>2, <3>1 DEF Modes, ShardNames, Group, SameChannel
      <3> QED
        BY <1>2, <2>1, <2>2, <3>1, <3>2 DEF RootsKnown, InPass
    <2> QED
      BY <1>2, <2>3, <2>4, <2>5, <2>6, <2>7, <2>8, HealthySteps
         DEF Next, Check, FetchIndexes, Interrupt, InPass
  <1> QED
    BY <1>1, <1>2

(* A walk leaves the subdirs of its group with what they need.             *)
LEMMA WalkDone ==
    ASSUME TypeOK, RootsInRepos, WalkInv, RootsKnown, InPass, phase = "walk", AllPresent,
           pass # "flat", Group(cur) \subseteq walk.group, server' = server, Sharded' = Sharded,
           UNCHANGED <<rootsAfterFlat, pass, expand, flat>>, roots \subseteq roots',
           expand => roots' = roots \cup Mentioned(walk.visited),
           shard' = [j \in Subdirs |-> IF j \in NewRepos THEN Found(j) ELSE shard[j]],
           NEW k \in Group(cur), shard[k] = {}
    PROVE  Done(k)'
  <1>1. k \in Sharded /\ k \in Subdirs /\ k \in walk.group
    BY DEF Group, SameChannel
  <1>2. Found(k) \subseteq shard'[k]
    BY <1>1 DEF NewRepos
  <1>3. ASSUME NEW N, N \subseteq roots PROVE Has(k, N)'
    <2>1. Reachable(Group(k), N) \cap server.index[k] \subseteq Found(k)
      BY <1>3, WalkHas
    <2>2. PICK G : G = Group(k) /\ G = Group(k)'
      BY <1>1, SameNames
    <2>3. Reachable(G, N)' = Reachable(G, N)
      BY SameReachable
    <2> QED
      BY <1>2, <2>1, <2>2, <2>3 DEF Has
  <1>4. Has(k, rootsAfterFlat)'
    <2>1. PICK N : N = rootsAfterFlat
      OBVIOUS
    <2>2. Has(k, N)'
      BY <1>1, <1>3, <2>1 DEF RootsKnown
    <2> QED
      BY <2>1, <2>2 DEF Has
  <1>5. ShardNames(k) \subseteq Mentioned(walk.visited)
    <2>1. Needs(Group(k), Roots) \subseteq walk.visited
      BY WalkHas DEF RootsInRepos
    <2> QED
      BY <2>1, MentionedGrows DEF ShardNames
  <1>6. expand' => ShardNames(k)' \subseteq roots'
    <2>1. ShardNames(k)' = ShardNames(k)
      BY <1>1, SameNames
    <2>2. expand' => expand
      OBVIOUS
    <2> QED
      BY <1>5, <2>1, <2>2
  <1>7. ASSUME pass = "again", NEW i \in Sharded PROVE Has(k, ShardNames(i))'
    <2>1. PICK N : N = ShardNames(i) /\ N = ShardNames(i)'
      BY ShardedType, SameNames
    <2>2. N \subseteq roots
      BY <1>7, <2>1 DEF RootsKnown
    <2>3. Has(k, N)'
      BY <1>3, <2>2
    <2> QED
      BY <2>1, <2>3 DEF Has
  <1> QED
    BY <1>4, <1>6, <1>7 DEF Done

(* Each subdir that is gone past has what is needed of it.                 *)
LEMMA ReposHaveStep ==
    ASSUME TypeOK, RootsInRepos, RootsInWalk, Modes, WalkInv, Smooth, RootsKnown, ReposHave,
           Healthy, Healthy', [Next]_vars
    PROVE  ReposHave'
  <1> USE DEF surroundings, metadata, outcome, passVars, position, rootVars, database
  <1>1. CASE ~InPass
    <2>1. CASE FetchIndexes
      <3>1. Sharded' = Sharded /\ (Sharded # {} => pass' = "flat")
        BY <2>1, SameShards DEF FetchIndexes
      <3> QED
        BY <3>1 DEF ReposHave
    <2>2. CASE Check \/ Interrupt
      BY <2>2 DEF Check, Interrupt, ReposHave, InPass
    <2>3. CASE UNCHANGED vars
      BY <1>1, <2>3 DEF vars, ReposHave, InPass
    <2> QED
      BY <1>1, <2>1, <2>2, <2>3 DEF Next, Skip, NotThere, LoadFlat, FailFlat, OpenShards,
         FailShardIndex, Batch, AddShards, ShardMissing, Fallback, FailFallback, FlatPassOver,
         LoadAgain, Restart, Finish, InPass, Loading, PassOver, LastPassOver
  <1>2. CASE InPass
    <2>1. Sharded' = Sharded /\ server' = server /\ Sharded \subseteq Subdirs
      BY <1>2, HealthySame, ShardedType
    <2>2. cur \in Nat /\ \A k \in Subdirs : k < cur + 1 => k < cur \/ k = cur
      BY SubdirsAssumption DEF TypeOK, Subdirs
    <2>3. CASE Skip \/ LoadFlat \/ Fallback
      <3>1. /\ UNCHANGED <<roots, rootsAfterFlat, pass, expand, shard>>
            /\ flat \subseteq flat' /\ cur' = cur + 1
        BY <2>3 DEF Skip, LoadFlat, Fallback, AddFlat, Advance
      <3>2. \A k \in Sharded : Done(k) => Done(k)'
        BY <2>1, <3>1, DoneStays
      <3>3. ASSUME pass # "flat", NEW k \in Sharded, k = cur PROVE Done(k)' \/ shard[k] # {}
        <4>1. CASE Skip
          BY <3>3, <4>1 DEF Skip, Skipped
        <4>2. CASE LoadFlat
          BY <3>3, <4>2 DEF LoadFlat
        <4>3. CASE Fallback
          <5>1. k \in flat' /\ phase = "fallback"
            BY <3>3, <4>3 DEF Fallback, AddFlat
          <5>2. expand => ShardNames(k) \subseteq roots
            BY <1>2, <3>3, <5>1 DEF RootsKnown
          <5>3. ShardNames(k)' = ShardNames(k)
            BY <2>1, SameNames
          <5>4. expand' => expand
            BY <3>1
          <5>5. expand' => ShardNames(k)' \subseteq roots'
            BY <3>1, <5>2, <5>3, <5>4
          <5>6. Has(k, rootsAfterFlat)' /\ \A i \in Sharded : Has(k, ShardNames(i))'
            BY <5>1 DEF Has
          <5> QED
            BY <2>1, <5>5, <5>6 DEF Done
        <4> QED
          BY <2>3, <4>1, <4>2, <4>3
      <3> QED
        BY <1>2, <2>1, <2>2, <3>1, <3>2, <3>3 DEF ReposHave
    <2>4. CASE OpenShards \/ Batch
      <3>1. UNCHANGED <<roots, rootsAfterFlat, pass, cur, expand, shard, flat>>
        BY <2>4 DEF OpenShards, Batch
      <3>2. \A k \in Sharded : Done(k) => Done(k)'
        BY <2>1, <3>1, DoneStays
      <3> QED
        BY <1>2, <2>1, <3>1, <3>2 DEF ReposHave
    <2>5. CASE AddShards
      <3>1. /\ UNCHANGED <<rootsAfterFlat, pass, expand, flat>> /\ roots \subseteq roots'
            /\ expand => roots' = roots \cup Mentioned(walk.visited)
            /\ shard' = [j \in Subdirs |-> IF j \in NewRepos THEN Found(j) ELSE shard[j]]
            /\ cur' = cur \/ cur' = cur + 1
            /\ phase = "walk" /\ AllPresent /\ pass # "flat"
        BY <2>5 DEF AddShards, Advance, Modes
      <3>2. cur \in Group(cur) /\ Group(cur) \subseteq walk.group /\ cur \in Sharded
        BY <2>1, <3>1 DEF Modes, Smooth, Group, SameChannel
      <3>3. walk.group = Group(cur)
        BY <3>1, <3>2 DEF WalkInv, Group
      <3>4. \A k \in Subdirs : shard[k] \subseteq shard'[k]
        BY <3>1 DEF NewRepos
      <3>5. \A k \in Sharded : Done(k) => Done(k)'
        BY <2>1, <3>1, <3>4, DoneStays
      <3>6. ASSUME NEW k \in Group(cur), shard[k] = {} PROVE Done(k)'
        BY <1>2, <2>1, <3>1, <3>2, <3>3, <3>4, <3>6, WalkDone
      <3>7. \A k \in Sharded : shard'[k] # {} /\ shard[k] = {} => k \in Group(cur)
        BY <2>1, <3>1, <3>3 DEF NewRepos
      <3> QED
        BY <1>2, <2>1, <2>2, <3>1, <3>2, <3>5, <3>6, <3>7 DEF ReposHave
    <2>6. CASE FlatPassOver \/ LoadAgain
      <3>1. shard' = NoRepos /\ cur' = 1
        BY <2>6 DEF FlatPassOver, LoadAgain, Modes
      <3>2. \A k \in Subdirs : ~(k < cur') /\ shard'[k] = {}
        BY <3>1 DEF NoRepos, Subdirs
      <3> QED
        BY <2>1, <3>2 DEF ReposHave
    <2>7. CASE Finish
      BY <2>7 DEF Finish, ReposHave, InPass
    <2>8. CASE UNCHANGED vars
      <3>1. UNCHANGED <<roots, rootsAfterFlat, pass, cur, expand, shard, flat>>
        BY <2>8 DEF vars
      <3>2. \A k \in Sharded : Done(k) => Done(k)'
        BY <2>1, <3>1, DoneStays
      <3> QED
        BY <1>2, <2>1, <3>1, <3>2 DEF ReposHave
    <2> QED
      BY <1>2, <2>3, <2>4, <2>5, <2>6, <2>7, <2>8, HealthySteps
         DEF Next, Check, FetchIndexes, Interrupt, InPass
  <1> QED
    BY <1>1, <1>2

(* At the end, all of the shards' groups have what a change of channel     *)
(* asks of them.                                                           *)
LEMMA CrossEnd ==
    ASSUME TypeOK, RootsInRepos, InPass, pass # "flat", cur = NSubdirs + 1, ~FollowUp,
           pass \in {"shard", "again"}, RootsKnown, ReposHave, NEW i \in Subdirs, NEW j \in Subdirs
    PROVE  Crossed(i, j)
  <1>1. \A k \in Sharded : Done(k)
    BY ShardedType, SubdirsAssumption DEF ReposHave, Subdirs
  <1>2. ASSUME NEW N, NEW m \in Subdirs, \A k \in Group(m) : Has(k, N)
        PROVE  HasNodes(Needs(Group(m), N))
    <2> SUFFICES ASSUME NEW n \in Needs(Group(m), N) PROVE n[2] \in InDatabase(n[1])
      BY DEF HasNodes
    <2>1. n[1] \in Group(m) /\ n[2] \in Reachable(Group(m), N) \cap server.index[n[1]]
      BY DEF Needs, NodesOf
    <2>2. Group(n[1]) = Group(m)
      BY <2>1 DEF Group, SameChannel
    <2>3. Has(n[1], N)
      BY <1>2, <2>1
    <2> QED
      BY <2>1, <2>2, <2>3 DEF Has, InDatabase
  <1>3. \A k \in Sharded : Has(k, Roots) /\ Has(k, FullNames)
    <2> SUFFICES ASSUME NEW k \in Sharded PROVE Has(k, Roots) /\ Has(k, FullNames)
      OBVIOUS
    <2>1. Has(k, rootsAfterFlat) /\ Roots \subseteq rootsAfterFlat /\ FullNames \subseteq rootsAfterFlat
      BY <1>1 DEF Done, RootsKnown
    <2> QED
      BY <2>1, HasLess
  <1>4. ASSUME i \in Sharded, NEW k \in Sharded PROVE Has(k, ShardNames(i))
    <2>1. CASE pass = "again"
      BY <1>1, <1>4, <2>1 DEF Done
    <2>2. CASE pass = "shard" /\ expand
      <3>1. ShardNames(i) \subseteq rootsAfterFlat
        BY <1>1, <1>4, <2>2 DEF Done, FollowUp
      <3> QED
        BY <1>1, <3>1, HasLess DEF Done
    <2>3. CASE ~expand
      <3>1. Channel[i] = Channel[k]
        BY <1>4, <2>3 DEF RootsKnown
      <3>2. Group(i) = Group(k)
        BY <3>1 DEF Group, SameChannel
      <3>3. ShardNames(i) \subseteq Reachable(Group(k), Roots)
        BY <3>2, MentionedReachable DEF ShardNames, TypeOK
      <3>4. Reachable(Group(k), ShardNames(i)) \subseteq Reachable(Group(k), Roots)
        BY <3>3, ReachableAgain, InputsAssumption DEF TypeOK
      <3> QED
        BY <1>3, <1>4, <3>4 DEF Has
    <2> QED
      BY <2>1, <2>2, <2>3
  <1>5. \A k \in Group(i) \cup Group(j) : k \in Sharded
    BY DEF Group
  <1> QED
    BY <1>2, <1>3, <1>4, <1>5 DEF Crossed

(* The database stays as it is at the end.                                 *)
LEMMA CrossedStays ==
    ASSUME TypeOK, NEW i \in Subdirs, NEW j \in Subdirs, Crossed(i, j),
           UNCHANGED <<server, flat, shard, kept, hasShards>>
    PROVE  Crossed(i, j)'
  <1>1. Sharded' = Sharded
    BY SameShards
  <1>2. ASSUME NEW m \in Subdirs, NEW N, HasNodes(Needs(Group(m), N))
        PROVE  HasNodes(Needs(Group(m), N))'
    <2>1. PICK G : G = Group(m) /\ G = Group(m)'
      BY <1>1, SameNames
    <2>2. PICK V : V = Needs(G, N) /\ V = Needs(G, N)'
      BY SameReachable
    <2>3. HasNodes(V) => HasNodes(V)'
      BY DEF HasNodes, InDatabase
    <2> QED
      BY <1>2, <2>1, <2>2, <2>3 DEF HasNodes, Needs
  <1>3. HasNodes(Needs(Group(i), Roots))'
    BY <1>2 DEF Crossed
  <1>4. ASSUME i \in Sharded PROVE HasNodes(Needs(Group(j), ShardNames(i)))'
    <2>1. PICK N : N = ShardNames(i) /\ N = ShardNames(i)'
      BY <1>1, SameNames
    <2>2. HasNodes(Needs(Group(j), N))'
      BY <1>2, <1>4, <2>1 DEF Crossed
    <2> QED
      BY <2>1, <2>2 DEF HasNodes, Needs
  <1>5. HasNodes(Needs(Group(j), FullNames))'
    <2>1. PICK N : N = FullNames /\ N = FullNames'
      BY <1>1, SameNames
    <2>2. HasNodes(Needs(Group(j), N))'
      BY <1>2, <2>1 DEF Crossed
    <2> QED
      BY <2>1, <2>2 DEF HasNodes, Needs
  <1> QED
    BY <1>1, <1>3, <1>4, <1>5 DEF Crossed

(* The load ends with all that is promised.                                *)
LEMMA OneCrossingStep ==
    ASSUME TypeOK, RootsInRepos, Modes, CrossInv, [Next]_vars
    PROVE  OneCrossing'
  <1> SUFFICES ASSUME Loaded', Healthy', NEW i \in Subdirs, NEW j \in Subdirs
               PROVE  Crossed(i, j)'
    BY DEF OneCrossing, Crossed, Group, ShardNames, FullNames
  <1> USE DEF surroundings, metadata, outcome, passVars, position, rootVars, database
  <1>1. Healthy
    BY HealthyBefore
  <1>2. CASE Finish
    <2>1. /\ UNCHANGED <<server, flat, shard, kept, hasShards>>
          /\ phase = "load" /\ pass # "flat" /\ cur = NSubdirs + 1 /\ ~FollowUp
      BY <1>2 DEF Finish, LastPassOver, PassOver
    <2>2. InPass /\ pass \in {"shard", "again"}
      BY <2>1 DEF InPass, TypeOK
    <2>3. Crossed(i, j)
      BY <1>1, <2>1, <2>2, CrossEnd DEF CrossInv
    <2> QED
      BY <2>1, <2>3, CrossedStays
  <1>3. CASE UNCHANGED vars
    <2>1. Loaded /\ UNCHANGED <<server, flat, shard, kept, hasShards>>
      BY <1>3 DEF vars, Loaded
    <2>2. Crossed(i, j)
      BY <1>1, <2>1 DEF CrossInv, OneCrossing, Crossed, Group, ShardNames, FullNames
    <2> QED
      BY <2>1, <2>2, CrossedStays
  <1>4. ~Interrupt
    BY DEF Interrupt, Loaded
  <1>5. Finish \/ UNCHANGED vars
    BY <1>4 DEF Next, Check, FetchIndexes, Skip, NotThere, LoadFlat, FailFlat, OpenShards,
       FailShardIndex, Batch, AddShards, ShardMissing, Fallback, FailFallback, FlatPassOver,
       LoadAgain, Restart, AddFlat, LoadFailed, Advance, Loaded, PassOver, LastPassOver, Loading
  <1> QED
    BY <1>2, <1>3, <1>5

(* The invariant of healthy loads holds in the beginning.                  *)
LEMMA CrossInit == Init => CrossInv
  <1> SUFFICES ASSUME Init PROVE CrossInv
    OBVIOUS
  <1>1. Smooth /\ RootsKnown /\ ReposHave
    BY DEF Init, Smooth, RootsKnown, ReposHave, InPass
  <1>2. OneCrossing
    BY DEF Init, OneCrossing, Loaded
  <1> QED
    BY <1>1, <1>2 DEF CrossInv

(* Every step keeps it.                                                    *)
LEMMA CrossStep == Inv /\ FollowUpInv /\ CrossInv /\ [Next]_vars => CrossInv'
  <1> SUFFICES ASSUME Inv, FollowUpInv, CrossInv, [Next]_vars PROVE CrossInv'
    OBVIOUS
  <1>1. OneCrossing'
    BY OneCrossingStep DEF Inv
  <1>2. ASSUME Healthy' PROVE Smooth' /\ RootsKnown' /\ ReposHave'
    <2>1. Healthy
      BY <1>2, HealthyBefore DEF Inv
    <2> QED
      BY <1>2, <2>1, SmoothStep, RootsKnownStep, ReposHaveStep DEF Inv, FollowUpInv, CrossInv
  <1> QED
    BY <1>1, <1>2 DEF CrossInv

(* For all channels and servers, in whatever order: when nothing fails, a  *)
(* load ends with all that the requested names need from the shards of     *)
(* each channel, with what those packages then need from the shards of     *)
(* any other channel, and with what the full repos need from shards.       *)
THEOREM CrossingLoaded == Spec => []OneCrossing
  <1>1. CrossInv => OneCrossing
    BY DEF CrossInv
  <1> QED
    BY <1>1, InvInit, InvStep, FollowUpInit, FollowUpStep, CrossInit, CrossStep, PTL DEF Spec
=============================================================================
