------------------------------ MODULE Activation ------------------------------
(***************************************************************************)
(* Activator (libmamba/src/core/activation.cpp): what "activate",          *)
(* "activate --stack", "deactivate" and "reactivate" do to the variables   *)
(* of a shell.  Every command is a process of its own that knows nothing   *)
(* but these variables: where to return to is read from CONDA_SHLVL,       *)
(* CONDA_PREFIX_<n>, CONDA_STACKED_<n> and __CONDA_SHLVL_<n>_<var>.        *)
(*                                                                         *)
(* The directory that an environment adds to PATH is the environment       *)
(* itself; the value it gives to a variable is the environment too.        *)
(***************************************************************************)
EXTENDS Naturals, Sequences, FiniteSets

CONSTANTS
    Envs,          \* environments
    Vars,          \* variables that environments may set
    System,        \* the user's own directory in PATH
    Condabin,      \* <root prefix>/condabin
    User,          \* the user's own value of a variable
    None,          \* an unset variable
    Unset,         \* the marker "***unset***"
    Marked,        \* whether environments mark variables as unset
    MaxDepth       \* bound: environments activated above each other

ASSUME ActivationAssumption ==
    /\ MaxDepth \in Nat /\ Marked \in BOOLEAN
    /\ {System, Condabin, User, None, Unset} \cap Envs = {} /\ System # Condabin

VARIABLES
    envVars,       \* get_environment_vars() of each environment; never changes
    path,          \* PATH
    prefix,        \* CONDA_PREFIX
    shlvl,         \* CONDA_SHLVL
    prefixAt,      \* CONDA_PREFIX_<n>
    stackedAt,     \* CONDA_STACKED_<n>
    value,         \* the variables environments may set
    saved,         \* __CONDA_SHLVL_<n>_<var>
    prompt,        \* {stacked_env} in CONDA_PROMPT_MODIFIER
    before,        \* history: the shell before each level was entered
    twice          \* history: one environment was shown at two levels

conda == <<prefix, shlvl, prefixAt, stackedAt>>
vars == <<envVars, path, conda, value, saved, prompt, before, twice>>

Levels == 1..MaxDepth
Values == Envs \cup {User, None, Unset}
Shells == [path : Seq(Envs \cup {System}), prefix : Envs \cup {None},
           prefixAt : [Levels -> Envs \cup {None}], stackedAt : [Levels -> BOOLEAN],
           value : [Vars -> Values], saved : [0..MaxDepth -> [Vars -> Values]]]

(* Every variable of the shell keeps its type.                             *)
TypeOK ==
    /\ envVars \in [Envs -> [Vars -> Values]]
    /\ path \in Seq(Envs \cup {System, Condabin})
    /\ prefix \in Envs \cup {None} /\ shlvl \in 0..MaxDepth
    /\ prefixAt \in [Levels -> Envs \cup {None}] /\ stackedAt \in [Levels -> BOOLEAN]
    /\ value \in [Vars -> Values] /\ saved \in [0..MaxDepth -> [Vars -> Values]]
    /\ prompt \in Seq(Envs) /\ twice \in BOOLEAN
    /\ before \in [0..MaxDepth -> Shells \cup {None}]

-----------------------------------------------------------------------------
(* The k-th of a set of numbers, and what a list has at the positions of   *)
(* the set: what a loop keeps that copies or erases elements in order.     *)
Kth(S, k) == CHOOSE i \in {j \in S : Cardinality({h \in S : h <= j}) = k} : TRUE
Kept(list, S) == [k \in 1..Cardinality(S) |-> list[Kth(S, k)]]

-----------------------------------------------------------------------------
(* PATH.                                                                   *)

(* std::unique(): runs of one directory are cut down to one.               *)
Unique(dirs) == Kept(dirs, {i \in 1..Len(dirs) : i = 1 \/ dirs[i] # dirs[i - 1]})

HasCondabin == \E i \in 1..Len(path) : path[i] = Condabin

AddPrefixToPath(e) ==
    Unique(<<e>> \o (IF shlvl = 0 /\ ~HasCondabin THEN <<Condabin>> ELSE <<>>) \o path)

WithoutPrefix(old) == Kept(path, {i \in 1..Len(path) : path[i] # old})
RemovePrefixFromPath(old) == Unique(WithoutPrefix(old))
(* Mutant: the old prefix is not taken out.                                *)
AddedInPath(old, new) == Unique(<<new>> \o path)
ReplacePrefixInPath(old, new) == Unique(<<new>> \o WithoutPrefix(old))

-----------------------------------------------------------------------------
(* The prompt.                                                             *)

PrefixOf(i) == IF i = shlvl THEN prefix ELSE prefixAt[i]
(* Level i has not been replaced by the one above.                         *)
IsShown(i) == i = shlvl \/ stackedAt[i + 1]
ShownLevels == {i \in 1..shlvl : IsShown(i)}
PromptStack == Kept([i \in 1..shlvl |-> PrefixOf(i)], ShownLevels)
Popped(seq) == IF seq = <<>> THEN <<>> ELSE SubSeq(seq, 1, Len(seq) - 1)

(* get_prompt_modifier() for each ActivationType.                          *)
PromptActivating(e, stack) ==
    Append(IF stack THEN PromptStack ELSE Popped(PromptStack), e)
(* Mutant: a stacked environment leaves the one below twice.               *)
PromptDeactivatingPlain ==
    Popped(PromptStack) \o (IF shlvl = 1 THEN <<>> ELSE <<prefixAt[shlvl - 1]>>)
PromptDeactivating ==
    Popped(PromptStack)
      \o (IF stackedAt[shlvl] \/ shlvl = 1 THEN <<>> ELSE <<prefixAt[shlvl - 1]>>)

-----------------------------------------------------------------------------
(* Shell variables.                                                        *)

Defines(e, v) == envVars[e][v] # None
(* CONDA_ENV_VARS_UNSET_VAR is filtered out when an environment is entered *)
(* by its activation.                                                      *)
Exports(e, v) == envVars[e][v] \notin {None, Unset}

(* What replacing environment old leaves in v.                             *)
Restored(old, v) == IF Defines(old, v) THEN saved[shlvl - 1][v] ELSE value[v]
(* Mutant: what is overwritten is saved under the level that is entered.   *)
SavedAbove(e) ==
    [saved EXCEPT ![shlvl + 1] = [v \in Vars |-> IF Exports(e, v) /\ value[v] # None
                                                   THEN value[v] ELSE @[v]]]
SavedBelow(e) ==
    [saved EXCEPT ![shlvl] = [v \in Vars |-> IF Exports(e, v) /\ value[v] # None
                                               THEN value[v] ELSE @[v]]]

-----------------------------------------------------------------------------
(* The commands.                                                           *)

OwnDirs == Kept(path, {i \in 1..Len(path) : path[i] # Condabin})
(* What an activation has to leave as it was, for the return.              *)
Shell == [path |-> OwnDirs, prefix |-> prefix, prefixAt |-> prefixAt,
          stackedAt |-> stackedAt, value |-> value, saved |-> saved]

Init ==
    /\ envVars \in [Envs -> [Vars -> Values]]
    /\ \A e \in Envs, v \in Vars : envVars[e][v] \in {None, e} \cup (IF Marked THEN {Unset} ELSE {})
    /\ path \in {<<System>>, <<Condabin, System>>}
    /\ prefix = None /\ shlvl = 0
    /\ prefixAt = [i \in Levels |-> None] /\ stackedAt = [i \in Levels |-> FALSE]
    /\ value \in [Vars -> {None, User}] /\ saved = [i \in 0..MaxDepth |-> [v \in Vars |-> None]]
    /\ prompt = <<>>
    /\ before = [i \in 0..MaxDepth |-> None] /\ twice = FALSE

Reactivates(e) == shlvl > 0 /\ prefix = e
(* Mutant: the prefix of the level itself is compared.                     *)
StepsBackHere(e) == shlvl > 1 /\ prefixAt[shlvl] = e
StepsBack(e) == shlvl > 1 /\ prefixAt[shlvl - 1] = e

Entered(e, stacked) ==
    /\ prefix' = e /\ shlvl' = shlvl + 1
    /\ before' = [before EXCEPT ![shlvl] = Shell]
    /\ value' = [v \in Vars |-> IF Exports(e, v) THEN e
                                ELSE IF shlvl = 0 \/ stacked THEN value[v] ELSE Restored(prefix, v)]
    /\ saved' = SavedBelow(e)
    /\ stackedAt' = IF stacked THEN [stackedAt EXCEPT ![shlvl + 1] = TRUE] ELSE stackedAt
    /\ twice' = (twice \/ \E i, j \in 1..shlvl' : i # j /\ IsShown(i)' /\ IsShown(j)'
                                                    /\ PrefixOf(i)' = PrefixOf(j)')
    /\ UNCHANGED envVars

(* build_activate() from level 0, where --stack has nothing to stack upon. *)
ActivateFirst(e, stack) ==
    /\ shlvl = 0 /\ MaxDepth > 0
    /\ path' = AddPrefixToPath(e)
    /\ prompt' = PromptActivating(e, stack)
    /\ Entered(e, FALSE) /\ UNCHANGED prefixAt

ActivateStacked(e) ==
    /\ shlvl \in 1..MaxDepth - 1 /\ ~Reactivates(e) /\ ~StepsBack(e)
    /\ path' = AddPrefixToPath(e)
    /\ prompt' = PromptActivating(e, TRUE)
    /\ prefixAt' = [prefixAt EXCEPT ![shlvl] = prefix]
    /\ Entered(e, TRUE)

ActivateInstead(e) ==
    /\ shlvl \in 1..MaxDepth - 1 /\ ~Reactivates(e) /\ ~StepsBack(e)
    /\ path' = ReplacePrefixInPath(prefix, e)
    /\ prompt' = PromptActivating(e, FALSE)
    /\ prefixAt' = [prefixAt EXCEPT ![shlvl] = prefix]
    /\ Entered(e, FALSE)

(* build_reactivate() leaves the environment's variables alone.            *)
Reactivated(shown) ==
    /\ path' = ReplacePrefixInPath(prefix, prefix)
    /\ prompt' = shown
    /\ UNCHANGED <<envVars, conda, value, saved, before, twice>>

Reactivate == shlvl > 0 /\ Reactivated(PromptStack)
ActivateAgain(e, stack) == Reactivates(e) /\ Reactivated(PromptActivating(e, stack))

(* build_deactivate().                                                     *)
LeftFirst ==
    /\ shlvl = 1
    /\ path' = RemovePrefixFromPath(prefix)
    /\ prefix' = None /\ shlvl' = 0 /\ prompt' = <<>>
    /\ UNCHANGED <<prefixAt, stackedAt>>

LeftAbove(shown) ==
    LET below == prefixAt[shlvl - 1] IN
    /\ shlvl > 1
    /\ path' = IF stackedAt[shlvl] THEN RemovePrefixFromPath(prefix)
                                   ELSE ReplacePrefixInPath(prefix, below)
    /\ prefix' = below /\ shlvl' = shlvl - 1 /\ prompt' = shown
    /\ prefixAt' = [prefixAt EXCEPT ![shlvl - 1] = None]
    /\ stackedAt' = [stackedAt EXCEPT ![shlvl] = FALSE]

(* The variables of the environment below come back, then what was saved.  *)
(* A mutant counts on what was saved alone.                                *)
ReturnedIfSaved(v) == IF Defines(prefix, v) THEN saved[shlvl - 1][v] ELSE value[v]
Returned(v) ==
    IF Defines(prefix, v) /\ saved[shlvl - 1][v] # None THEN saved[shlvl - 1][v]
    ELSE IF shlvl > 1 /\ Defines(prefixAt[shlvl - 1], v) THEN envVars[prefixAt[shlvl - 1]][v]
    ELSE IF Defines(prefix, v) THEN None ELSE value[v]
SavedLeft ==
    [saved EXCEPT ![shlvl - 1] = [v \in Vars |-> IF Defines(prefix, v) THEN None ELSE @[v]]]

Left ==
    /\ value' = [v \in Vars |-> Returned(v)]
    /\ saved' = SavedLeft
    /\ before' = [before EXCEPT ![shlvl - 1] = None]
    /\ UNCHANGED <<envVars, twice>>

Deactivate == (LeftFirst \/ LeftAbove(PromptDeactivating)) /\ Left
(* Activating the environment below the top is a deactivation, with the    *)
(* prompt of an activation.                                                *)
ActivateBelow(e, stack) ==
    /\ ~Reactivates(e) /\ StepsBack(e)
    /\ LeftAbove(PromptActivating(e, stack)) /\ Left

Activate(e) ==
    \/ \E stack \in BOOLEAN : ActivateFirst(e, stack) \/ ActivateAgain(e, stack)
                                \/ ActivateBelow(e, stack)
    \/ ActivateStacked(e) \/ ActivateInstead(e)

Next == Deactivate \/ Reactivate \/ \E e \in Envs : Activate(e)
Spec == Init /\ [][Next]_vars

-----------------------------------------------------------------------------
(* The variables CONDA_PREFIX, CONDA_PREFIX_<n> and CONDA_STACKED_<n>      *)
(* are a stack of environments, whatever is activated and deactivated in   *)
(* between: no variable of a level that was left is taken for a new one's. *)
Stack == [i \in 1..shlvl |-> [env |-> PrefixOf(i), stacked |-> stackedAt[i]]]
Env == INSTANCE EnvStack WITH stack <- Stack
StackSpec == Env!Spec

(* The environments in PATH are those that were not replaced, the latest   *)
(* first, unless one was stacked upon itself.                              *)
PathShowsStack ==
    LET dirs == Kept(path, {i \in 1..Len(path) : path[i] \in Envs})
    IN  ~twice => dirs = [k \in 1..Len(PromptStack) |-> PromptStack[Len(PromptStack) + 1 - k]]

(* Deactivation is the opposite of activation: it returns to the PATH and  *)
(* to all the variables from before.                                       *)
RoundTrip == [][shlvl' < shlvl /\ ~twice => Shell' = before[shlvl']]_vars

(* The active environment's variables have its values.                     *)
OwnValues == \A v \in Vars : shlvl > 0 /\ Exports(prefix, v) => value[v] = prefix

(* {stacked_env} names the environments that PATH shows, after an          *)
(* activation that enters one, a deactivation and a reactivation.          *)
PromptFollows ==
    [][shlvl' > shlvl \/ Deactivate \/ Reactivate => prompt' = PromptStack']_vars

(* "The activation of an environment makes all its contents available to   *)
(* your shell": the active environment is in PATH.  It does not hold once  *)
(* an environment was shown at two levels: both places go with either.     *)
ActiveOnPath == prefix # None => \E i \in 1..Len(path) : path[i] = prefix

(* A variable has the value of the latest environment shown that sets it,  *)
(* or else the user's: an environment that was replaced has no say.  It    *)
(* does not hold: a replaced environment's values are not all taken back.  *)
ReplacedHasNoSay ==
    \A v \in Vars : value[v] \in Envs => \E i \in 1..shlvl : IsShown(i) /\ PrefixOf(i) = value[v]
=============================================================================
