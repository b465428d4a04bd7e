------------------------------- MODULE History -------------------------------
(***************************************************************************)
(* The history of a prefix (core/history.cpp) and the commands that write  *)
(* and read it: every transaction appends what it unlinked and linked and  *)
(* the specs the user asked for; "install --revision" computes from it how *)
(* to go back (PackageDiff::from_revision); pruning reads from it what to  *)
(* keep (get_requested_specs_map).                                         *)
(***************************************************************************)
EXTENDS Integers, FiniteSets, Sequences

CONSTANTS
    PackageNames,  \* package names
    Versions,      \* their versions
    Builds,        \* the builds of a version
    Unspecified,   \* the version or the build that a spec leaves open
    Nothing,       \* no package
    MaxEntries     \* bound: entries of the file

Package == [name : PackageNames, version : Versions, build : Builds]
MatchSpec ==
    [name : PackageNames, version : Versions \cup {Unspecified}, build : Builds \cup {Unspecified}]

ASSUME HistoryAssumption ==
    /\ IsFiniteSet(Package) /\ Unspecified \notin Versions \cup Builds /\ Nothing \notin Package
    /\ MaxEntries \in Nat

VARIABLES
    prefix,        \* the packages installed
    entries,       \* conda-meta/history
    past,          \* history: the prefix before the first entry and after each revision
    wanted         \* history: names the user has asked for, and not asked to remove since

historyVars == <<prefix, entries, past, wanted>>

NamesOf(S) == {x.name : x \in S}
PrefixStates == {S \in SUBSET Package : \A p, q \in S : p.name = q.name => p = q}
Entry ==
    [unlink : SUBSET Package, link : SUBSET Package, update : SUBSET MatchSpec,
     remove : SUBSET PackageNames]

(* Every variable of the history keeps its type.                           *)
HistoryTypeOK ==
    /\ prefix \in PrefixStates /\ entries \in Seq(Entry) /\ past \in Seq(PrefixStates)
    /\ wanted \in SUBSET PackageNames

HistoryInit == prefix = {} /\ entries = <<>> /\ past = <<{}>> /\ wanted = {}

Matches(spec, p) ==
    /\ spec.name = p.name
    /\ spec.version \in {Unspecified, p.version} /\ spec.build \in {Unspecified, p.build}
ExplicitSpec(p) == [name |-> p.name, version |-> p.version, build |-> p.build]

-----------------------------------------------------------------------------
(* Reading the file.                                                       *)

(* Entries that changed packages are numbered from 0.                      *)
IsRevision(e) == e.unlink # {} \/ e.link # {}
RevisionsIn(list) ==
    LET upTo[k \in 0..Len(list)] ==
            IF k = 0 THEN <<>>
            ELSE IF IsRevision(list[k]) THEN Append(upTo[k - 1], list[k]) ELSE upTo[k - 1]
    IN  upTo[Len(list)]
Revisions == RevisionsIn(entries)

(* Mutant: what was to be removed goes last.                               *)
ReadRemovedLast(map, e) ==
    {s \in map : s.name \notin NamesOf(e.update) \cup e.remove}
        \cup {s \in e.update : s.name \notin e.remove}
Read(map, e) == {s \in map : s.name \notin NamesOf(e.update) \cup e.remove} \cup e.update
SpecsIn(list) ==
    LET upTo[k \in 0..Len(list)] == IF k = 0 THEN {} ELSE Read(upTo[k - 1], list[k])
    IN  upTo[Len(list)]
RequestedSpecs == SpecsIn(entries)

(* from_revision(): for one name, the packages that revisions above the    *)
(* target removed and installed, consumed from the first to the last.      *)
Of(S, n) == IF n \in NamesOf(S) THEN CHOOSE p \in S : p.name = n ELSE Nothing
Above(target, n) ==
    LET revisions == SubSeq(Revisions, target + 2, Len(Revisions))
    IN  [i \in DOMAIN revisions |->
            [removed |-> Of(revisions[i].unlink, n), installed |-> Of(revisions[i].link, n)]]

SameVersion(p, q) == p # Nothing /\ q # Nothing /\ p.version = q.version

(* Mutant: a package that comes back is always counted as installed.       *)
HandleInstallAlways(d, i) ==
    IF d.rest[i].installed = Nothing THEN [d EXCEPT !.found = FALSE]
    ELSE [d EXCEPT !.found = TRUE, !.rest[i].installed = Nothing,
                   !.installed = d.rest[i].installed]
HandleInstall(d, i) ==
    LET p == d.rest[i].installed IN
    CASE p = Nothing -> [d EXCEPT !.found = FALSE]
      [] p # Nothing /\ SameVersion(d.removed, p) ->
            [d EXCEPT !.found = TRUE, !.rest[i].installed = Nothing, !.removed = Nothing]
      [] p # Nothing /\ ~SameVersion(d.removed, p) ->
            [d EXCEPT !.found = TRUE, !.rest[i].installed = Nothing, !.installed = p]

HandleRemove(d, i) ==
    LET p == d.rest[i].removed IN
    CASE p = Nothing -> [d EXCEPT !.found = FALSE]
      [] p # Nothing /\ SameVersion(d.installed, p) ->
            [d EXCEPT !.found = TRUE, !.rest[i].removed = Nothing, !.installed = Nothing]
      [] p # Nothing /\ ~SameVersion(d.installed, p) ->
            [d EXCEPT !.found = TRUE, !.rest[i].removed = Nothing, !.removed = p]

(* Whether the last operation was a removal, after an install was sought.  *)
InstallEndsRemoval(d, i) == LET e == HandleInstall(d, i) IN [e EXCEPT !.lastly = ~e.found]
RemoveAndInstall(d, i) ==
    LET e == HandleRemove(d, i)
    IN  IF e.found THEN InstallEndsRemoval(e, i) ELSE [e EXCEPT !.lastly = FALSE]

FollowRemoved(d, i) ==
    LET p == d.rest[i].removed
        upTo[j \in i..Len(d.rest)] ==
            IF j = i
            THEN InstallEndsRemoval([d EXCEPT !.removed = p, !.rest[i].removed = Nothing], i)
            ELSE LET e == upTo[j - 1]
                 IN  IF e.lastly THEN InstallEndsRemoval(e, j) ELSE RemoveAndInstall(e, j)
    IN  IF p = Nothing THEN d ELSE upTo[Len(d.rest)]

FollowInstalled(d, i) ==
    LET p == d.rest[i].installed
        upTo[j \in i..Len(d.rest)] ==
            IF j = i
            THEN [d EXCEPT !.installed = p, !.rest[i].installed = Nothing, !.lastly = FALSE]
            ELSE LET e == upTo[j - 1] IN IF e.lastly THEN e ELSE RemoveAndInstall(e, j)
    IN  IF p = Nothing THEN d ELSE upTo[Len(d.rest)]

DiffOf(target, n) ==
    LET above == Above(target, n)
        upTo[i \in 0..Len(above)] ==
            IF i = 0 THEN [rest |-> above, removed |-> Nothing, installed |-> Nothing,
                           lastly |-> FALSE, found |-> FALSE]
            ELSE FollowInstalled(FollowRemoved(upTo[i - 1], i), i)
    IN  upTo[Len(above)]

FromRevision(target) ==
    LET diffs == {DiffOf(target, n) : n \in PackageNames}
    IN  [removed |-> {d.removed : d \in diffs} \ {Nothing},
         installed |-> {d.installed : d \in diffs} \ {Nothing}]

-----------------------------------------------------------------------------
(* Commands.  What the solver chooses is any outcome its jobs allow; a     *)
(* transaction that fails writes nothing, and is not a step here.          *)

Transact(to, update, remove) ==
    LET written == [unlink |-> prefix \ to, link |-> to \ prefix,
                    update |-> update, remove |-> remove]
    IN  /\ Len(entries) < MaxEntries
        /\ prefix' = to /\ entries' = Append(entries, written)
        /\ past' = IF IsRevision(written) THEN Append(past, to) ELSE past

(* Lists of specs that the user gives: one for a name, without a build.    *)
(* The prefix that the solver comes to has a package for each.             *)
SpecLists ==
    {specs \in SUBSET {s \in MatchSpec : s.build = Unspecified} :
        \A s, r \in specs : s.name = r.name => s = r}
Satisfied(specs, to) == \A s \in specs : \E p \in to : Matches(s, p)

(* "install": other packages may change or go.                             *)
InstallSpecs ==
    \E to \in PrefixStates, specs \in SpecLists \ {{}} :
        /\ Satisfied(specs, to)
        /\ Transact(to, specs, {})
        /\ wanted' = wanted \cup NamesOf(specs)

(* "update SPEC", of what is installed: both lists of the entry have the   *)
(* specs.                                                                  *)
UpdateSpecs ==
    \E to \in PrefixStates, specs \in SpecLists \ {{}} :
        /\ Satisfied(specs, to) /\ NamesOf(specs) \subseteq NamesOf(prefix)
        /\ Transact(to, specs, NamesOf(specs))
        /\ wanted' = wanted \cup NamesOf(specs)

(* "update --all [SPEC]", which installs the specs too: with --prune, only *)
(* packages that a requested spec matches are sure to stay.                *)
UpdateAll(prune) ==
    \E to \in PrefixStates, specs \in SpecLists :
        /\ Satisfied(specs, to)
        /\ \A p \in prefix : (prune => \E s \in RequestedSpecs : Matches(s, p)) => p.name \in NamesOf(to)
        /\ Transact(to, specs, {})
        /\ wanted' = wanted \cup NamesOf(specs)

(* "env update --prune": requested packages that the file does not name    *)
(* are removed.                                                            *)
EnvUpdate ==
    \E to \in PrefixStates, specs \in SpecLists \ {{}} :
        LET left == NamesOf(RequestedSpecs) \ NamesOf(specs) IN
        /\ Satisfied(specs, to) /\ left \cap NamesOf(to) = {}
        /\ Transact(to, specs, left)
        /\ wanted' = (wanted \ left) \cup NamesOf(specs)

(* "remove": dependents go too.                                            *)
RemoveSpecs ==
    \E to \in SUBSET prefix, names \in SUBSET NamesOf(prefix) \ {{}} :
        /\ names \cap NamesOf(to) = {}
        /\ Transact(to, {}, names) /\ wanted' = wanted \ names

(* Explicit packages, which are not installed.                             *)
InstallExplicit ==
    \E to \in PrefixStates :
        /\ prefix \subseteq to /\ NamesOf(to) # NamesOf(prefix)
        /\ Transact(to, {ExplicitSpec(p) : p \in to \ prefix}, {})
        /\ wanted' = wanted \cup NamesOf(to \ prefix)

(* A lock file: nothing is recorded as asked for.                          *)
InstallLockfile ==
    \E to \in PrefixStates :
        /\ prefix \subseteq to /\ NamesOf(to) # NamesOf(prefix)
        /\ Transact(to, {}, {}) /\ UNCHANGED wanted

(* "install --revision".                                                   *)
InstallRevision(target) ==
    LET diff == FromRevision(target) IN
    /\ entries # <<>>
    /\ Transact((prefix \ diff.installed) \cup diff.removed,
                {ExplicitSpec(p) : p \in diff.removed}, NamesOf(diff.installed))
    /\ wanted' = wanted \ (NamesOf(diff.installed) \ NamesOf(diff.removed))

HistoryNext ==
    \/ InstallSpecs \/ UpdateSpecs \/ EnvUpdate \/ RemoveSpecs \/ InstallExplicit \/ InstallLockfile
    \/ \E prune \in BOOLEAN : UpdateAll(prune)
    \/ \E target \in 0..MaxEntries : InstallRevision(target)

HistorySpec == HistoryInit /\ [][HistoryNext]_historyVars

-----------------------------------------------------------------------------
(* from_revision() is right for a name if undoing its diff brings back     *)
(* exactly what the prefix had of that name at the target, and touches     *)
(* nothing that is there already.                                          *)
DiffRestores(target, n) ==
    LET diff == DiffOf(target, n)
        undone == (prefix \ {diff.installed}) \cup ({diff.removed} \ {Nothing})
    IN  /\ {p \in undone : p.name = n} = {p \in past[target + 2] : p.name = n}
        /\ diff.installed # Nothing => diff.installed \in prefix
        /\ diff.removed \notin prefix

(* A name of which two builds of a version have been installed.            *)
Rebuilt(n) ==
    \E i, j \in DOMAIN entries : \E p \in entries[i].link, q \in entries[j].link :
        p.name = n /\ q.name = n /\ p.version = q.version /\ p.build # q.build

(* "install --revision N" brings back the packages of revision N, whatever *)
(* was installed, changed, removed and rolled back since, as long as no    *)
(* version was rebuilt.                                                    *)
RevisionRestored ==
    \A target \in 0..(Len(Revisions) - 1), n \in PackageNames : Rebuilt(n) \/ DiffRestores(target, n)

(* The same for every name, as the comment on PackageDiff has it: "the     *)
(* diff between the target revision and the current one".  It does not     *)
(* hold: versions are compared, not builds, so that a rebuild stays.       *)
RevisionAlwaysRestored ==
    \A target \in 0..(Len(Revisions) - 1), n \in PackageNames : DiffRestores(target, n)

(* "update --all --prune" never takes away a package that the user has     *)
(* asked for and that still matches what was asked.                        *)
StillMatches(n) ==
    \A i \in DOMAIN entries : \A s \in entries[i].update :
        s.name = n /\ (\A j \in (i + 1)..Len(entries) : n \notin NamesOf(entries[j].update))
            => \E p \in prefix : Matches(s, p)
PruneSparesRequested ==
    [][UpdateAll(TRUE) =>
        \A n \in wanted \cap NamesOf(prefix) : StillMatches(n) => n \in NamesOf(prefix')]_historyVars
=============================================================================
