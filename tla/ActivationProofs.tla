--------------------------- MODULE ActivationProofs ---------------------------
(***************************************************************************)
(* The shell's variables are a stack of environments, and the active one's *)
(* variables have its values, for any number of environments, variables    *)
(* and levels and whatever variables environments mark as unset.  PATH and *)
(* the prompt show the environments of that stack that were not replaced,  *)
(* and a deactivation returns to the shell from before the activation.     *)
(*                                                                         *)
(* The former come from what is left behind by levels that were left:      *)
(* nothing.  CONDA_STACKED_<n> and CONDA_PREFIX_<n> are set for levels that*)
(* exist only (LevelsInv), and so is what was saved (SavedInv); a value    *)
(* saved below a level is the one of the environment below, if it has one. *)
(* The latter come from what is known of the shells from before each level *)
(* (RoundInv): each shows its own prompt in PATH, and is what undoing the  *)
(* level above it gives.                                                   *)
(***************************************************************************)
EXTENDS Activation, SequenceTheorems, FiniteSetTheorems, FunctionTheorems, TLAPS

ShellInv ==
    /\ envVars \in [Envs -> [Vars -> Values]]
    /\ \A e \in Envs, v \in Vars : envVars[e][v] \in {None, e, Unset}
    /\ shlvl \in 0..MaxDepth /\ (shlvl > 0 => prefix \in Envs) /\ prefix \in Envs \cup {None}
    /\ prefixAt \in [Levels -> Envs \cup {None}] /\ stackedAt \in [Levels -> BOOLEAN]
    /\ value \in [Vars -> Values] /\ saved \in [0..MaxDepth -> [Vars -> Values]]
LevelsInv ==
    /\ \A i \in Levels : i < shlvl => prefixAt[i] \in Envs
    /\ \A i \in Levels : i >= shlvl => prefixAt[i] = None
    /\ \A i \in Levels : i > shlvl => ~stackedAt[i]
    /\ shlvl > 0 => ~stackedAt[1]
SavedInv ==
    \A l \in 0..MaxDepth, v \in Vars : saved[l][v] # None =>
        /\ l < shlvl /\ Exports(PrefixOf(l + 1), v)
        /\ l > 0 /\ Exports(PrefixOf(l), v) => saved[l][v] = PrefixOf(l)

IInv == ShellInv /\ LevelsInv /\ SavedInv /\ OwnValues

(* What {stacked_env} and PATH show of a shell at level l.                 *)
EnvOf(sh, l, i) == IF i = l THEN sh.prefix ELSE sh.prefixAt[i]
EnvsOf(sh, l) == [i \in 1..l |-> EnvOf(sh, l, i)]
ShownOf(sh, l) == {i \in 1..l : i = l \/ sh.stackedAt[i + 1]}
PromptOf(sh, l) == Kept(EnvsOf(sh, l), ShownOf(sh, l))
Distinct(list) == \A a, b \in 1..Len(list) : list[a] = list[b] => a = b

(* The directories are those of the prompt, the latest first, and the      *)
(* user's, with condabin before it when there are two.                     *)
Dirs == Envs \cup {System, Condabin}
Shows(dirs, ps, users) ==
    /\ dirs \in Seq(Dirs) /\ users \in {1, 2} /\ Len(dirs) = Len(ps) + users
    /\ \A k \in 1..Len(ps) : dirs[k] = ps[Len(ps) + 1 - k]
    /\ dirs[Len(dirs)] = System /\ (users = 2 => dirs[Len(dirs) - 1] = Condabin)

Fits(sh, l) ==
    /\ sh \in Shells /\ \A i \in 1..l : EnvOf(sh, l, i) \in Envs
    /\ Distinct(PromptOf(sh, l)) /\ Shows(sh.path, PromptOf(sh, l), 1)

(* Shell low is what is left of high when its level l is left, its         *)
(* variables if environments with the variables vals mark none as unset.   *)
UndoesLevels(high, low, l) ==
    /\ low.prefix = IF l = 1 THEN None ELSE high.prefixAt[l - 1]
    /\ low.prefixAt = IF l = 1 THEN high.prefixAt ELSE [high.prefixAt EXCEPT ![l - 1] = None]
    /\ low.stackedAt = IF l = 1 THEN high.stackedAt ELSE [high.stackedAt EXCEPT ![l] = FALSE]
ReturnedTo(vals, high, l, v) ==
    IF vals[high.prefix][v] # None /\ high.saved[l - 1][v] # None THEN high.saved[l - 1][v]
    ELSE IF l > 1 /\ vals[high.prefixAt[l - 1]][v] # None THEN vals[high.prefixAt[l - 1]][v]
    ELSE IF vals[high.prefix][v] # None THEN None ELSE high.value[v]
UndoesValues(vals, high, low, l) ==
    /\ low.value = [v \in Vars |-> ReturnedTo(vals, high, l, v)]
    /\ low.saved = [high.saved EXCEPT ![l - 1] =
                       [v \in Vars |-> IF vals[high.prefix][v] # None THEN None ELSE @[v]]]

(* While no environment was shown twice, PATH shows the prompt, and each   *)
(* level is undone to the one below it.                                    *)
NothingMarked == \A e \in Envs, v \in Vars : envVars[e][v] \in {None, e}
ShellAt(l) == IF l = shlvl THEN Shell ELSE before[l]
PathShown == \E users \in {1, 2} : Shows(path, PromptStack, users)
RoundInv ==
    ~twice =>
        /\ PathShown
        /\ \A l \in 0..shlvl : Fits(ShellAt(l), l)
        /\ \A l \in 1..shlvl : UndoesLevels(ShellAt(l), ShellAt(l - 1), l)
        /\ NothingMarked =>
             \A l \in 1..shlvl : UndoesValues(envVars, ShellAt(l), ShellAt(l - 1), l)
BookInv == twice \in BOOLEAN /\ DOMAIN before = 0..MaxDepth /\ (shlvl = 0 => prefix = None)

-----------------------------------------------------------------------------
(* Keeping a list's elements at some positions.                            *)

(* How many numbers of S are not above i, and those with k of them.        *)
UpTo(S, i) == {h \in S : h <= i}
AtRank(S, k) == {i \in S : Cardinality(UpTo(S, i)) = k}

LEMMA KthIs == ASSUME NEW S, NEW k PROVE Kth(S, k) = CHOOSE i \in AtRank(S, k) : TRUE
  BY DEF Kth, AtRank, UpTo

(* Positions in a list, where it has members of T.                         *)
Positions(S) == IsFiniteSet(S) /\ S \subseteq Nat
Within(list, S, T) == \A i \in S : list[i] \in T

(* The k-th number is one of the set, and no other is the k-th.            *)
LEMMA KthInSet ==
    ASSUME NEW S, Positions(S), NEW k \in 1..Cardinality(S)
    PROVE  Kth(S, k) \in S /\ Cardinality(UpTo(S, Kth(S, k))) = k
  <1> DEFINE n == Cardinality(S)
             rank == [i \in S |-> Cardinality(UpTo(S, i))]
  <1>0. IsFiniteSet(S) /\ \A h \in S : h \in Nat
    BY DEF Positions
  <1>1. n \in Nat
    BY <1>0, FS_CardinalityType
  <1>2. ASSUME NEW i \in S
        PROVE  IsFiniteSet(UpTo(S, i)) /\ Cardinality(UpTo(S, i)) \in 1..n
    <2>1. UpTo(S, i) \in SUBSET S /\ i \in UpTo(S, i)
      BY <1>0 DEF UpTo
    <2>2. IsFiniteSet(UpTo(S, i)) /\ Cardinality(UpTo(S, i)) <= n
      BY <1>0, <2>1, FS_Subset
    <2>3. Cardinality(UpTo(S, i)) \in Nat /\ Cardinality(UpTo(S, i)) # 0
      BY <2>1, <2>2, FS_CardinalityType, FS_EmptySet
    <2> QED
      BY <1>1, <2>2, <2>3
  <1>3. ASSUME NEW i \in S, NEW j \in S, i < j
        PROVE  Cardinality(UpTo(S, i)) # Cardinality(UpTo(S, j))
    <2>1. UpTo(S, i) \in SUBSET UpTo(S, j)
      BY <1>0, <1>3 DEF UpTo
    <2>2. j \in UpTo(S, j) /\ j \notin UpTo(S, i)
      BY <1>0, <1>3 DEF UpTo
    <2> QED
      BY <1>2, <2>1, <2>2, FS_Subset
  <1>4. rank \in Injection(S, 1..n)
    <2>1. rank \in [S -> 1..n]
      BY <1>2
    <2>2. ASSUME NEW i \in S, NEW j \in S, rank[i] = rank[j] PROVE i = j
      <3>1. i \in Nat /\ j \in Nat /\ Cardinality(UpTo(S, i)) = Cardinality(UpTo(S, j))
        BY <1>0, <2>2
      <3>2. i < j \/ j < i \/ i = j
        BY <3>1
      <3> QED
        BY <1>3, <3>1, <3>2
    <2> QED
      BY <2>1, <2>2, Fun_IsInj
  <1>5. IsFiniteSet(1..n) /\ Cardinality(1..n) = n
    BY <1>1, FS_Interval
  <1>6. rank \in Surjection(S, 1..n)
    BY <1>4, <1>5, FS_Injection
  <1>7. PICK i \in S : rank[i] = k
    BY <1>6 DEF Surjection
  <1>8. i \in AtRank(S, k)
    BY <1>7 DEF AtRank
  <1>9. Kth(S, k) \in AtRank(S, k)
    BY <1>8, KthIs
  <1> QED
    BY <1>9 DEF AtRank

(* What is kept is what the list has at the k-th position.                *)
LEMMA KeptElement ==
    ASSUME NEW list, NEW S, Positions(S), NEW k \in 1..Cardinality(S)
    PROVE  Kept(list, S)[k] = list[Kth(S, k)]
  BY DEF Kept

LEMMA KeptType ==
    ASSUME NEW T, NEW list, NEW S, Positions(S), Within(list, S, T)
    PROVE  /\ Kept(list, S) \in Seq(T) /\ Len(Kept(list, S)) = Cardinality(S)
           /\ Cardinality(S) \in Nat
  <1>1. Cardinality(S) \in Nat
    BY FS_CardinalityType DEF Positions
  <1>2. \A k \in 1..Cardinality(S) : list[Kth(S, k)] \in T
    BY KthInSet DEF Within
  <1>3. Kept(list, S) \in [1..Cardinality(S) -> T]
    BY <1>2 DEF Kept
  <1> QED
    BY <1>1, <1>3, SeqDef, LenProperties

(* Lists that agree at the positions keep the same.                        *)
LEMMA KeptSame ==
    ASSUME NEW list, NEW other, NEW S, Positions(S),
           \A i \in S : list[i] = other[i]
    PROVE  Kept(list, S) = Kept(other, S)
  <1>1. \A k \in 1..Cardinality(S) : list[Kth(S, k)] = other[Kth(S, k)]
    BY KthInSet
  <1> QED
    BY <1>1 DEF Kept

(* Positions in a row keep a part of the list.                             *)
Row(list, m, n) == [k \in 1..(n + 1 - m) |-> list[m + k - 1]]
LEMMA KeptRow ==
    ASSUME NEW list, NEW m \in Nat, NEW n \in Nat, m <= n + 1
    PROVE  Kept(list, m..n) = Row(list, m, n)
  <1>1. Cardinality(m..n) = n + 1 - m
    BY FS_Interval
  <1>2. ASSUME NEW k \in 1..(n + 1 - m) PROVE Kth(m..n, k) = m + k - 1
    <2>1. ASSUME NEW i \in m..n PROVE Cardinality(UpTo(m..n, i)) = i + 1 - m
      <3>1. UpTo(m..n, i) = m..i
        BY DEF UpTo
      <3> QED
        BY <3>1, FS_Interval
    <2>2. m + k - 1 \in m..n
      OBVIOUS
    <2>3. \A i \in m..n : i \in AtRank(m..n, k) <=> i = m + k - 1
      BY <2>1 DEF AtRank
    <2>4. AtRank(m..n, k) = {m + k - 1}
      BY <2>2, <2>3 DEF AtRank
    <2> QED
      BY <2>4, KthIs
  <1> QED
    BY <1>1, <1>2 DEF Kept, Row

(* A position above the others adds what is there at the end.              *)
LEMMA KeptAbove ==
    ASSUME NEW T, NEW list, NEW S, Positions(S), Within(list, S, T),
           NEW x \in Nat, \A i \in S : i < x, list[x] \in T
    PROVE  Kept(list, S \cup {x}) = Append(Kept(list, S), list[x])
  <1> DEFINE n == Cardinality(S)
             R == S \cup {x}
  <1>1. n \in Nat /\ IsFiniteSet(R) /\ Cardinality(R) = n + 1
    <2>1. x \notin S /\ IsFiniteSet(S)
      BY DEF Positions
    <2> QED
      BY <2>1, FS_CardinalityType, FS_AddElement
  <1>0. \A i \in S : i \in Nat /\ i < x /\ ~(x <= i) /\ i <= x /\ i # x /\ x <= x
    BY DEF Positions
  <1>2. UpTo(R, x) = R
    <2>1. x <= x /\ \A i \in R : i <= x
      BY <1>0
    <2> QED
      BY <2>1 DEF UpTo
  <1>3. \A i \in S : UpTo(R, i) = UpTo(S, i)
    BY <1>0 DEF UpTo
  <1>4. ASSUME NEW i \in S PROVE Cardinality(UpTo(S, i)) <= n /\ Cardinality(UpTo(S, i)) \in Nat
    <2>1. UpTo(S, i) \in SUBSET S
      BY DEF UpTo
    <2> QED
      BY <2>1, FS_Subset, FS_CardinalityType DEF Positions
  <1>5. Kth(R, n + 1) = x
    <2>1. \A i \in S : Cardinality(UpTo(R, i)) # n + 1
      BY <1>1, <1>3, <1>4
    <2>2. Cardinality(UpTo(R, x)) = n + 1
      BY <1>1, <1>2
    <2>3. AtRank(R, n + 1) = {x}
      BY <2>1, <2>2 DEF AtRank
    <2> QED
      BY <2>3, KthIs
  <1>6. ASSUME NEW k \in 1..n PROVE Kth(R, k) = Kth(S, k)
    <2>1. Cardinality(UpTo(R, x)) = n + 1 /\ k # n + 1
      BY <1>1, <1>2
    <2>2. AtRank(R, k) = AtRank(S, k)
      BY <1>3, <2>1, Zenon DEF AtRank
    <2> QED
      BY <2>2, KthIs, Zenon
  <1>7. /\ Kept(list, S) \in Seq(T) /\ Len(Kept(list, S)) = n
        /\ \A k \in 1..n : Kept(list, S)[k] = list[Kth(S, k)]
    BY KeptType, KeptElement
  <1>8. /\ Append(Kept(list, S), list[x]) \in Seq(T)
        /\ Len(Append(Kept(list, S), list[x])) = n + 1
        /\ \A k \in 1..n : Append(Kept(list, S), list[x])[k] = Kept(list, S)[k]
        /\ Append(Kept(list, S), list[x])[n + 1] = list[x]
    BY <1>7, AppendProperties
  <1>9. /\ Kept(list, R) \in Seq(T) /\ Len(Kept(list, R)) = n + 1
        /\ \A k \in 1..(n + 1) : Kept(list, R)[k] = list[Kth(R, k)]
    <2>1. Positions(R) /\ Within(list, R, T)
      BY <1>1 DEF Positions, Within
    <2>2. Cardinality(R) = n + 1
      BY <1>1
    <2> HIDE DEF R, n
    <2> QED
      BY <2>1, <2>2, KeptType, KeptElement
  <1>10. \A k \in 1..(n + 1) : Kept(list, R)[k] = Append(Kept(list, S), list[x])[k]
    <2> SUFFICES ASSUME NEW k \in 1..(n + 1)
                 PROVE  Kept(list, R)[k] = Append(Kept(list, S), list[x])[k]
      OBVIOUS
    <2>1. CASE k = n + 1
      BY <1>5, <1>8, <1>9, <2>1
    <2>2. CASE k \in 1..n
      <3>1. Kept(list, R)[k] = list[Kth(R, k)]
        BY <1>9, Zenon
      <3> QED
        BY <1>6, <1>7, <1>8, <2>2, <3>1, Zenon
    <2>3. k = n + 1 \/ k \in 1..n
      BY <1>1
    <2> QED
      BY <2>1, <2>2, <2>3
  <1> HIDE DEF R, n
  <1>11. Kept(list, R) = Append(Kept(list, S), list[x])
    BY <1>8, <1>9, <1>10, SeqEqual
  <1> QED
    BY <1>11 DEF R

-----------------------------------------------------------------------------
(* The steps, as what they do to the variables of the invariant.           *)

Enters(e, stacked) ==
    /\ shlvl < MaxDepth /\ ~Reactivates(e) /\ ~StepsBack(e)
    /\ stacked => shlvl > 0
    /\ prefixAt' = IF shlvl = 0 THEN prefixAt ELSE [prefixAt EXCEPT ![shlvl] = prefix]
    /\ prefix' = e /\ shlvl' = shlvl + 1
    /\ value' = [v \in Vars |-> IF Exports(e, v) THEN e
                                ELSE IF shlvl = 0 \/ stacked THEN value[v] ELSE Restored(prefix, v)]
    /\ saved' = SavedBelow(e)
    /\ stackedAt' = IF stacked THEN [stackedAt EXCEPT ![shlvl + 1] = TRUE] ELSE stackedAt
    /\ UNCHANGED envVars
    /\ path' = IF shlvl = 0 \/ stacked THEN AddPrefixToPath(e) ELSE ReplacePrefixInPath(prefix, e)
    /\ before' = [before EXCEPT ![shlvl] = Shell]
    /\ twice' = (twice \/ \E i, j \in 1..shlvl' : i # j /\ IsShown(i)' /\ IsShown(j)'
                                                    /\ PrefixOf(i)' = PrefixOf(j)')
Leaves == shlvl > 0 /\ (LeftFirst \/ \E shown : LeftAbove(shown)) /\ Left
Stays ==
    /\ UNCHANGED <<envVars, conda, value, saved, before, twice>>
    /\ path' = path \/ (shlvl > 0 /\ path' = ReplacePrefixInPath(prefix, prefix))

(* A step enters an environment, leaves the active one, or keeps the       *)
(* levels.                                                                 *)
LEMMA Steps ==
    ASSUME ShellInv, [Next]_vars
    PROVE  (\E e \in Envs, stacked \in BOOLEAN : Enters(e, stacked)) \/ Leaves \/ Stays
  <1>1. ASSUME NEW e \in Envs, NEW stack \in BOOLEAN, ActivateFirst(e, stack)
        PROVE  Enters(e, FALSE)
    BY <1>1, ActivationAssumption DEF ActivateFirst, Entered, Enters, Reactivates, StepsBack, ShellInv
  <1>2. ASSUME NEW e \in Envs, ActivateStacked(e) PROVE Enters(e, TRUE)
    BY <1>2, ActivationAssumption DEF ActivateStacked, Entered, Enters, ShellInv
  <1>3. ASSUME NEW e \in Envs, ActivateInstead(e) PROVE Enters(e, FALSE)
    BY <1>3, ActivationAssumption DEF ActivateInstead, Entered, Enters, ShellInv
  <1>4. ASSUME NEW e \in Envs, NEW stack \in BOOLEAN, ActivateAgain(e, stack) PROVE Stays
    BY <1>4 DEF ActivateAgain, Reactivates, Reactivated, Stays
  <1>5. ASSUME NEW e \in Envs, NEW stack \in BOOLEAN, ActivateBelow(e, stack) PROVE Leaves
    BY <1>5 DEF ActivateBelow, Leaves, ShellInv, StepsBack
  <1>6. CASE Deactivate
    BY <1>6 DEF Deactivate, Leaves, LeftFirst, LeftAbove, ShellInv
  <1>7. CASE Reactivate
    BY <1>7 DEF Reactivate, Reactivated, Stays
  <1>8. CASE UNCHANGED vars
    BY <1>8 DEF vars, Stays, conda
  <1> QED
    BY <1>1, <1>2, <1>3, <1>4, <1>5, <1>6, <1>7, <1>8 DEF Next, Activate

(* What entering and leaving do to the environments of the levels.         *)
LEMMA EnteredLevels ==
    ASSUME ShellInv, NEW e \in Envs, NEW stacked \in BOOLEAN, Enters(e, stacked)
    PROVE  /\ shlvl' = shlvl + 1 /\ shlvl' \in 1..MaxDepth /\ prefix' = e
           /\ \A i \in 1..shlvl : PrefixOf(i)' = PrefixOf(i)
           /\ prefixAt' \in [Levels -> Envs \cup {None}] /\ stackedAt' \in [Levels -> BOOLEAN]
           /\ \A i \in Levels : stackedAt'[i] = IF stacked /\ i = shlvl' THEN TRUE ELSE stackedAt[i]
  <1>1. /\ shlvl' = shlvl + 1 /\ shlvl' \in 1..MaxDepth /\ shlvl \in 0..MaxDepth /\ prefix' = e
        /\ prefixAt' = IF shlvl = 0 THEN prefixAt ELSE [prefixAt EXCEPT ![shlvl] = prefix]
        /\ stackedAt' = IF stacked THEN [stackedAt EXCEPT ![shlvl + 1] = TRUE] ELSE stackedAt
    BY ActivationAssumption DEF Enters, ShellInv
  <1>2. prefixAt' \in [Levels -> Envs \cup {None}] /\ stackedAt' \in [Levels -> BOOLEAN]
    BY <1>1 DEF ShellInv
  <1>3. \A i \in Levels : stackedAt'[i] = IF stacked /\ i = shlvl' THEN TRUE ELSE stackedAt[i]
    BY <1>1 DEF ShellInv, Levels
  <1>4. \A i \in 1..shlvl : PrefixOf(i)' = PrefixOf(i)
    <2> SUFFICES ASSUME NEW i \in 1..shlvl PROVE PrefixOf(i)' = PrefixOf(i)
      OBVIOUS
    <2>1. i \in Levels /\ i # shlvl' /\ shlvl # 0
      BY <1>1, ActivationAssumption DEF Levels
    <2>2. prefixAt'[i] = IF i = shlvl THEN prefix ELSE prefixAt[i]
      BY <1>1, <2>1 DEF ShellInv
    <2> QED
      BY <2>1, <2>2 DEF PrefixOf
  <1> QED
    BY <1>1, <1>2, <1>3, <1>4

LevelLeft ==
    /\ shlvl' = shlvl - 1 /\ shlvl' \in 0..MaxDepth
    /\ shlvl' > 0 => prefix' = prefixAt[shlvl'] /\ prefix' \in Envs
    /\ shlvl' = 0 => prefix' = None
    /\ \A i \in 1..shlvl' : PrefixOf(i)' = PrefixOf(i)
    /\ prefixAt' \in [Levels -> Envs \cup {None}] /\ stackedAt' \in [Levels -> BOOLEAN]
    /\ \A i \in Levels : i < shlvl' => prefixAt'[i] = prefixAt[i]
    /\ \A i \in Levels : i >= shlvl' => prefixAt'[i] = None
    /\ \A i \in Levels : stackedAt'[i] = IF i = shlvl THEN FALSE ELSE stackedAt[i]

(* Leaving an environment makes the one below active again.                *)
LEMMA LeftLevels == ASSUME ShellInv, LevelsInv, Leaves PROVE LevelLeft
  <1>1. CASE LeftFirst
    <2>1. shlvl = 1 /\ shlvl' = 0 /\ prefix' = None /\ prefixAt' = prefixAt /\ stackedAt' = stackedAt
      BY <1>1 DEF LeftFirst
    <2>2. \A i \in Levels : stackedAt'[i] = IF i = shlvl THEN FALSE ELSE stackedAt[i]
      <3> SUFFICES ASSUME NEW i \in Levels, i = 1 PROVE stackedAt[i] = FALSE
        BY <2>1
      <3> QED
        BY <2>1 DEF LevelsInv, ShellInv
    <2>3. prefixAt' \in [Levels -> Envs \cup {None}] /\ stackedAt' \in [Levels -> BOOLEAN]
      BY <2>1 DEF ShellInv
    <2>4. \A i \in 1..shlvl' : PrefixOf(i)' = PrefixOf(i)
      BY <2>1
    <2>5. shlvl' = shlvl - 1 /\ shlvl' \in 0..MaxDepth
      BY <2>1, ActivationAssumption
    <2>6. \A i \in Levels : i < shlvl' => prefixAt'[i] = prefixAt[i]
      BY <2>1
    <2>7. (shlvl' = 0 => prefix' = None) /\ (shlvl' > 0 => prefix' = prefixAt[shlvl'] /\ prefix' \in Envs)
      BY <2>1
    <2>8. \A i \in Levels : i >= shlvl' => prefixAt'[i] = None
      <3>1. \A i \in Levels : i >= shlvl
        BY <2>1 DEF Levels
      <3> QED
        BY <2>1, <3>1, Zenon DEF LevelsInv
    <2> QED
      BY <2>2, <2>3, <2>4, <2>5, <2>6, <2>7, <2>8, Zenon DEF LevelLeft
  <1>2. ASSUME NEW shown, LeftAbove(shown)
        PROVE  LevelLeft
    <2>1. /\ shlvl' = shlvl - 1 /\ shlvl' \in 1..MaxDepth /\ shlvl \in Levels /\ shlvl' \in Levels
          /\ prefix' = prefixAt[shlvl'] /\ prefix' \in Envs
          /\ prefixAt' = [prefixAt EXCEPT ![shlvl'] = None]
          /\ stackedAt' = [stackedAt EXCEPT ![shlvl] = FALSE]
      BY <1>2, ActivationAssumption DEF LeftAbove, ShellInv, LevelsInv, Levels
    <2>2. \A i \in 1..shlvl' : PrefixOf(i)' = PrefixOf(i)
      <3> SUFFICES ASSUME NEW i \in 1..shlvl' PROVE PrefixOf(i)' = PrefixOf(i)
        OBVIOUS
      <3>1. i \in Levels /\ i # shlvl
        BY <2>1, ActivationAssumption DEF Levels
      <3>2. i # shlvl' => prefixAt'[i] = prefixAt[i]
        BY <2>1, <3>1 DEF ShellInv
      <3> QED
        BY <2>1, <3>1, <3>2 DEF PrefixOf
    <2>3. \A i \in Levels : i < shlvl' => prefixAt'[i] = prefixAt[i]
      BY <2>1 DEF ShellInv, Levels
    <2>4. \A i \in Levels : stackedAt'[i] = IF i = shlvl THEN FALSE ELSE stackedAt[i]
      BY <2>1 DEF ShellInv
    <2>5. prefixAt' \in [Levels -> Envs \cup {None}] /\ stackedAt' \in [Levels -> BOOLEAN]
      BY <2>1 DEF ShellInv
    <2>6. \A i \in Levels : i >= shlvl' => prefixAt'[i] = None
      <3> SUFFICES ASSUME NEW i \in Levels, i >= shlvl' PROVE prefixAt'[i] = None
        OBVIOUS
      <3>1. i = shlvl' \/ i >= shlvl
        BY <2>1 DEF Levels
      <3>2. prefixAt'[i] = IF i = shlvl' THEN None ELSE prefixAt[i]
        BY <2>1 DEF ShellInv
      <3> QED
        BY <3>1, <3>2 DEF LevelsInv
    <2> QED
      BY <2>1, <2>2, <2>3, <2>4, <2>5, <2>6 DEF LevelLeft
  <1> QED
    BY <1>1, <1>2 DEF Leaves

-----------------------------------------------------------------------------
(* The invariant holds in a shell without environments.                    *)
LEMMA Initially == Init => IInv
  <1> SUFFICES ASSUME Init PROVE IInv
    OBVIOUS
  <1>1. ShellInv
    <2>1. \A e \in Envs, v \in Vars : envVars[e][v] \in {None, e, Unset}
      BY DEF Init
    <2>2. envVars \in [Envs -> [Vars -> Values]] /\ value \in [Vars -> Values]
      BY DEF Init, Values
    <2>3. prefixAt \in [Levels -> Envs \cup {None}] /\ stackedAt \in [Levels -> BOOLEAN]
      BY DEF Init
    <2>4. saved \in [0..MaxDepth -> [Vars -> Values]]
      BY DEF Init, Values
    <2>5. shlvl \in 0..MaxDepth /\ ~(shlvl > 0) /\ prefix \in Envs \cup {None}
      BY ActivationAssumption DEF Init
    <2> QED
      BY <2>1, <2>2, <2>3, <2>4, <2>5, Zenon DEF ShellInv
  <1>2. LevelsInv
    BY ActivationAssumption DEF Init, LevelsInv, Levels
  <1>3. SavedInv /\ OwnValues
    BY DEF Init, SavedInv, OwnValues
  <1> QED
    BY <1>1, <1>2, <1>3 DEF IInv

(* The level and the prefixes keep their types.                            *)
LEMMA ShellKept ==
    ASSUME ShellInv, LevelsInv, [Next]_vars
    PROVE  ShellInv'
  <1>1. ASSUME NEW e \in Envs, NEW stacked \in BOOLEAN, Enters(e, stacked) PROVE ShellInv'
    <2>1. /\ shlvl' \in 0..MaxDepth /\ prefix' = e /\ envVars' = envVars
          /\ prefixAt' \in [Levels -> Envs \cup {None}] /\ stackedAt' \in [Levels -> BOOLEAN]
      <3>0. shlvl' \in 1..MaxDepth
        BY <1>1, EnteredLevels, Zenon
      <3>1. shlvl' \in 0..MaxDepth
        BY <3>0, ActivationAssumption
      <3> QED
        BY <1>1, <3>1, EnteredLevels, Zenon DEF Enters
    <2>2. saved' \in [0..MaxDepth -> [Vars -> Values]]
      BY <1>1 DEF Enters, SavedBelow, ShellInv
    <2>3. value' \in [Vars -> Values]
      <3> SUFFICES ASSUME NEW v \in Vars
                   PROVE  (IF Exports(e, v) THEN e
                           ELSE IF shlvl = 0 \/ stacked THEN value[v] ELSE Restored(prefix, v))
                             \in Values
        BY <1>1 DEF Enters
      <3>1. shlvl # 0 => Restored(prefix, v) \in Values
        BY ActivationAssumption DEF Restored, ShellInv
      <3>2. e \in Values /\ value[v] \in Values
        BY DEF Values, ShellInv
      <3> QED
        BY <3>1, <3>2
    <2> QED
      BY <2>1, <2>2, <2>3 DEF ShellInv
  <1>2. CASE Leaves
    <2>1. /\ shlvl' \in 0..MaxDepth /\ (shlvl' > 0 => prefix' \in Envs)
          /\ prefix' \in Envs \cup {None} /\ envVars' = envVars
          /\ prefixAt' \in [Levels -> Envs \cup {None}] /\ stackedAt' \in [Levels -> BOOLEAN]
      <3>1. LevelLeft /\ envVars' = envVars
        BY <1>2, LeftLevels DEF Leaves, Left
      <3>2. /\ shlvl' \in 0..MaxDepth /\ (shlvl' > 0 => prefix' \in Envs)
            /\ (shlvl' = 0 => prefix' = None)
        BY <3>1, Zenon DEF LevelLeft
      <3>3. prefix' \in Envs \cup {None}
        BY <3>2, ActivationAssumption
      <3> QED
        BY <3>1, <3>2, <3>3, Zenon DEF LevelLeft
    <2>2. /\ saved' = SavedLeft /\ value' = [v \in Vars |-> Returned(v)]
          /\ shlvl - 1 \in 0..MaxDepth
      BY <1>2, ActivationAssumption DEF Leaves, Left, ShellInv
    <2>3. saved' \in [0..MaxDepth -> [Vars -> Values]]
      BY <2>2 DEF SavedLeft, ShellInv, Values
    <2>4. value' \in [Vars -> Values]
      <3> SUFFICES ASSUME NEW v \in Vars PROVE Returned(v) \in Values
        BY <2>2
      <3>1. saved[shlvl - 1][v] \in Values /\ value[v] \in Values /\ None \in Values
        BY <2>2 DEF ShellInv, Values
      <3>2. shlvl > 1 => envVars[prefixAt[shlvl - 1]][v] \in Values
        <4> SUFFICES ASSUME shlvl > 1 PROVE envVars[prefixAt[shlvl - 1]][v] \in Values
          OBVIOUS
        <4>1. prefixAt[shlvl - 1] \in Envs
          BY ActivationAssumption DEF ShellInv, LevelsInv, Levels
        <4> QED
          BY <4>1 DEF ShellInv
      <3> QED
        BY <3>1, <3>2 DEF Returned
    <2> QED
      BY <2>1, <2>3, <2>4 DEF ShellInv
  <1>3. CASE Stays
    BY <1>3 DEF Stays, conda, ShellInv
  <1> QED
    BY <1>1, <1>2, <1>3, Steps

(* There is an environment at each level, and none above; neighbours       *)
(* differ.                                                                 *)
LEMMA LevelsKept ==
    ASSUME ShellInv, LevelsInv, [Next]_vars
    PROVE  LevelsInv'
  <1>1. ASSUME NEW e \in Envs, NEW stacked \in BOOLEAN, Enters(e, stacked) PROVE LevelsInv'
    <2>1. /\ shlvl' = shlvl + 1 /\ shlvl \in 0..MaxDepth /\ (stacked => shlvl > 0)
          /\ shlvl < MaxDepth
          /\ prefixAt' = IF shlvl = 0 THEN prefixAt ELSE [prefixAt EXCEPT ![shlvl] = prefix]
          /\ \A i \in Levels : stackedAt'[i] = IF stacked /\ i = shlvl' THEN TRUE ELSE stackedAt[i]
      BY <1>1, EnteredLevels DEF Enters, ShellInv
    <2>2. ASSUME NEW i \in Levels, i < shlvl' PROVE prefixAt'[i] \in Envs
      <3>1. i \in Int /\ i >= 1 /\ (i = shlvl \/ i < shlvl) /\ shlvl > 0
        BY <2>1, <2>2, ActivationAssumption DEF Levels
      <3>2. prefixAt'[i] = IF i = shlvl THEN prefix ELSE prefixAt[i]
        BY <2>1, <2>2, <3>1 DEF ShellInv
      <3> QED
        BY <2>2, <3>1, <3>2 DEF ShellInv, LevelsInv
    <2>3. ASSUME NEW i \in Levels, i > shlvl' PROVE ~stackedAt'[i]
      <3>1. i > shlvl /\ i # shlvl'
        BY <2>1, <2>3 DEF Levels
      <3> QED
        BY <2>1, <3>1, Zenon DEF LevelsInv
    <2>4. ~stackedAt'[1]
      <3>1. 1 \in Levels /\ (stacked => 1 # shlvl')
        BY <2>1, ActivationAssumption DEF Levels
      <3>2. shlvl > 0 \/ 1 > shlvl
        BY <2>1
      <3>3. ~stackedAt[1]
        BY <3>1, <3>2, Zenon DEF LevelsInv
      <3> QED
        BY <2>1, <3>1, <3>3, Zenon
    <2>5. ASSUME NEW i \in Levels, i >= shlvl' PROVE prefixAt'[i] = None
      <3>1. i >= shlvl /\ i # shlvl
        BY <2>1, <2>5 DEF Levels
      <3>2. prefixAt'[i] = prefixAt[i]
        BY <2>1, <3>1 DEF ShellInv
      <3> QED
        BY <3>1, <3>2, Zenon DEF LevelsInv
    <2> QED
      BY <2>2, <2>3, <2>4, <2>5 DEF LevelsInv
  <1>2. CASE Leaves
    <2>1. /\ shlvl' = shlvl - 1 /\ shlvl \in 1..MaxDepth
          /\ \A i \in Levels : i < shlvl' => prefixAt'[i] = prefixAt[i]
          /\ \A i \in Levels : stackedAt'[i] = IF i = shlvl THEN FALSE ELSE stackedAt[i]
      <3>1. LevelLeft /\ shlvl > 0 /\ shlvl \in 0..MaxDepth
        BY <1>2, LeftLevels DEF Leaves, ShellInv
      <3>2. shlvl' = shlvl - 1 /\ shlvl \in 1..MaxDepth
        BY <3>1, ActivationAssumption DEF LevelLeft
      <3> QED
        BY <3>1, <3>2, Zenon DEF LevelLeft
    <2>2. ASSUME NEW i \in Levels, i < shlvl' PROVE prefixAt'[i] \in Envs
      <3>1. i < shlvl
        BY <2>1, <2>2 DEF Levels
      <3> QED
        BY <2>1, <2>2, <3>1, Zenon DEF LevelsInv
    <2>3. ASSUME NEW i \in Levels, i > shlvl' PROVE ~stackedAt'[i]
      <3>1. i = shlvl \/ i > shlvl
        BY <2>1, <2>3 DEF Levels
      <3> QED
        BY <2>1, <3>1, Zenon DEF LevelsInv
    <2>4. ~stackedAt'[1]
      <3>1. 1 \in Levels /\ shlvl > 0
        BY <2>1, ActivationAssumption DEF Levels
      <3> QED
        BY <2>1, <3>1, Zenon DEF LevelsInv
    <2>5. \A i \in Levels : i >= shlvl' => prefixAt'[i] = None
      BY <1>2, LeftLevels, Zenon DEF LevelLeft
    <2> QED
      BY <2>2, <2>3, <2>4, <2>5 DEF LevelsInv
  <1>3. CASE Stays
    BY <1>3 DEF Stays, conda, LevelsInv
  <1> QED
    BY <1>1, <1>2, <1>3, Steps

-----------------------------------------------------------------------------
(* What is saved below a level belongs to that level.                      *)
LEMMA SavedKept ==
    ASSUME IInv, [Next]_vars
    PROVE  SavedInv'
  <1> USE DEF IInv
  <1>1. ASSUME NEW e \in Envs, NEW stacked \in BOOLEAN, Enters(e, stacked) PROVE SavedInv'
    <2>1. /\ shlvl' = shlvl + 1 /\ shlvl \in 0..MaxDepth /\ envVars' = envVars
          /\ prefix' = e /\ saved' = SavedBelow(e)
          /\ \A i \in 1..shlvl : PrefixOf(i)' = PrefixOf(i)
      BY <1>1, EnteredLevels, Zenon DEF Enters, ShellInv
    <2> SUFFICES ASSUME NEW l \in 0..MaxDepth, NEW v \in Vars, saved'[l][v] # None
                 PROVE  /\ l < shlvl' /\ Exports(PrefixOf(l + 1), v)'
                        /\ l > 0 /\ Exports(PrefixOf(l), v)' => saved'[l][v] = PrefixOf(l)'
      BY DEF SavedInv
    <2>2. CASE l # shlvl
      <3>1. saved'[l][v] = saved[l][v]
        BY <2>1, <2>2 DEF SavedBelow, ShellInv
      <3>2. /\ l < shlvl /\ Exports(PrefixOf(l + 1), v)
            /\ l > 0 /\ Exports(PrefixOf(l), v) => saved[l][v] = PrefixOf(l)
        BY <3>1 DEF SavedInv
      <3>3. PrefixOf(l + 1)' = PrefixOf(l + 1) /\ (l > 0 => PrefixOf(l)' = PrefixOf(l))
        BY <2>1, <3>2, ActivationAssumption
      <3> QED
        BY <2>1, <3>1, <3>2, <3>3 DEF Exports
    <2>3. CASE l = shlvl
      <3>1. saved'[l][v] = IF Exports(e, v) /\ value[v] # None THEN value[v] ELSE saved[l][v]
        BY <2>1, <2>3 DEF SavedBelow, ShellInv
      <3>2. saved[l][v] = None
        BY <2>1, <2>3 DEF SavedInv
      <3>3. Exports(e, v) /\ saved'[l][v] = value[v]
        BY <3>1, <3>2
      <3>4. PrefixOf(l + 1)' = e
        BY <2>1, <2>3, ActivationAssumption DEF PrefixOf
      <3>5. l > 0 => PrefixOf(l)' = prefix
        BY <2>1, <2>3, ActivationAssumption DEF PrefixOf
      <3> QED
        BY <2>1, <2>3, <3>3, <3>4, <3>5 DEF Exports, OwnValues
    <2> QED
      BY <2>2, <2>3
  <1>2. CASE Leaves
    <2>1. /\ shlvl' = shlvl - 1 /\ shlvl \in 0..MaxDepth /\ shlvl > 0 /\ envVars' = envVars
          /\ saved' = SavedLeft
          /\ \A i \in 1..shlvl' : PrefixOf(i)' = PrefixOf(i)
      BY <1>2, LeftLevels, Zenon DEF Leaves, Left, LevelLeft, ShellInv
    <2> SUFFICES ASSUME NEW l \in 0..MaxDepth, NEW v \in Vars, saved'[l][v] # None
                 PROVE  /\ l < shlvl' /\ Exports(PrefixOf(l + 1), v)'
                        /\ l > 0 /\ Exports(PrefixOf(l), v)' => saved'[l][v] = PrefixOf(l)'
      BY DEF SavedInv
    <2>2. saved'[l][v] = IF l = shlvl - 1 /\ Defines(prefix, v) THEN None ELSE saved[l][v]
      BY <2>1, ActivationAssumption DEF SavedLeft, ShellInv
    <2>3. /\ l < shlvl /\ Exports(PrefixOf(l + 1), v)
          /\ l > 0 /\ Exports(PrefixOf(l), v) => saved[l][v] = PrefixOf(l)
      BY <2>2 DEF SavedInv
    <2>4. l # shlvl - 1
      <3> SUFFICES ASSUME l = shlvl - 1 PROVE FALSE
        OBVIOUS
      <3>1. PrefixOf(l + 1) = prefix
        BY <2>1, ActivationAssumption DEF PrefixOf
      <3> QED
        BY <2>2, <2>3, <3>1 DEF Exports, Defines
    <2>5. PrefixOf(l + 1)' = PrefixOf(l + 1) /\ (l > 0 => PrefixOf(l)' = PrefixOf(l)) /\ l < shlvl'
      BY <2>1, <2>3, <2>4, ActivationAssumption
    <2> QED
      BY <2>1, <2>2, <2>3, <2>4, <2>5 DEF Exports
  <1>3. CASE Stays
    BY <1>3 DEF Stays, conda, SavedInv, Exports, PrefixOf
  <1> QED
    BY <1>1, <1>2, <1>3, Steps

(* An environment that comes back has its values again: they were saved,   *)
(* or nobody took them.                                                    *)
LEMMA OwnKept ==
    ASSUME IInv, [Next]_vars
    PROVE  OwnValues'
  <1> USE DEF IInv
  <1>1. ASSUME NEW e \in Envs, NEW stacked \in BOOLEAN, Enters(e, stacked) PROVE OwnValues'
    <2>1. \A v \in Vars : Exports(e, v) => value'[v] = e
      BY <1>1 DEF Enters
    <2> QED
      BY <1>1, <2>1 DEF Enters, OwnValues, Exports
  <1>2. CASE Leaves
    <2>1. /\ shlvl' = shlvl - 1 /\ shlvl \in 0..MaxDepth /\ shlvl > 0 /\ envVars' = envVars
          /\ value' = [v \in Vars |-> Returned(v)]
          /\ (shlvl' > 0 => prefix' = prefixAt[shlvl'] /\ prefix' \in Envs)
      BY <1>2, LeftLevels, Zenon DEF Leaves, Left, LevelLeft, ShellInv
    <2> SUFFICES ASSUME NEW v \in Vars, shlvl' > 0, Exports(prefix', v)
                 PROVE  Returned(v) = prefix'
      BY <2>1 DEF OwnValues, Exports
    <2>2. /\ shlvl - 1 \in 0..MaxDepth /\ shlvl - 1 > 0 /\ PrefixOf(shlvl - 1) = prefix'
          /\ prefixAt[shlvl - 1] = prefix' /\ prefix' \in Envs
      BY <2>1, ActivationAssumption DEF PrefixOf
    <2>3. saved[shlvl - 1][v] # None => saved[shlvl - 1][v] = prefix'
      BY <2>2 DEF SavedInv
    <2>4. Defines(prefix', v) /\ envVars[prefix'][v] = prefix'
      BY <2>2 DEF ShellInv, Defines, Exports
    <2> QED
      BY <2>1, <2>2, <2>3, <2>4 DEF Returned
  <1>3. CASE Stays
    BY <1>3 DEF Stays, conda, OwnValues, Exports
  <1> QED
    BY <1>1, <1>2, <1>3, Steps

(* The parts together are inductive.                                       *)
LEMMA Invariance == Spec => []IInv
  <1>1. Init => IInv
    BY Initially
  <1>2. IInv /\ [Next]_vars => IInv'
    BY ShellKept, LevelsKept, SavedKept, OwnKept DEF IInv
  <1> QED
    BY <1>1, <1>2, PTL DEF Spec

(* The active environment's variables have its values, however it was      *)
(* reached: by its activation or by leaving what was above it.             *)
THEOREM ActiveHasOwnValues == Spec => []OwnValues
  <1>1. IInv => OwnValues
    BY DEF IInv
  <1> QED
    BY <1>1, Invariance, PTL

-----------------------------------------------------------------------------
(* The refinement.                                                         *)

Shown == [env : Envs \cup {None}, stacked : BOOLEAN]

(* The stack has one environment for each level.                           *)
LEMMA StackShape == ShellInv => Stack \in Seq(Shown) /\ Len(Stack) = shlvl
  <1> SUFFICES ASSUME ShellInv PROVE Stack \in Seq(Shown) /\ Len(Stack) = shlvl
    OBVIOUS
  <1>1. Stack \in [1..shlvl -> Shown]
    <2> SUFFICES ASSUME NEW i \in 1..shlvl PROVE PrefixOf(i) \in Envs \cup {None} /\ stackedAt[i] \in BOOLEAN
      BY DEF Stack, Shown
    <2>1. i \in Levels
      BY ActivationAssumption DEF ShellInv, Levels
    <2> QED
      BY <2>1 DEF PrefixOf, ShellInv
  <1>2. shlvl \in Nat
    BY ActivationAssumption DEF ShellInv
  <1>3. Stack \in Seq(Shown)
    BY <1>1, <1>2, SeqDef
  <1> QED
    BY <1>1, <1>2, <1>3, LenProperties

(* So it has after a step.                                                 *)
LEMMA NextStackShape == ShellInv' => (Stack \in Seq(Shown) /\ Len(Stack) = shlvl)'
  BY StackShape, PTL

(* Entering an environment pushes it.                                      *)
LEMMA EnteringPushes ==
    ASSUME IInv, IInv', NEW e \in Envs, NEW stacked \in BOOLEAN, Enters(e, stacked)
    PROVE  Env!Push(e, stacked)
  <1> DEFINE top == [env |-> e, stacked |-> stacked]
  <1>1. /\ shlvl \in 0..MaxDepth /\ shlvl < MaxDepth /\ shlvl' = shlvl + 1 /\ prefix' = e
        /\ (stacked => shlvl > 0)
        /\ \A i \in 1..shlvl : PrefixOf(i)' = PrefixOf(i)
        /\ \A i \in Levels : stackedAt'[i] = IF stacked /\ i = shlvl' THEN TRUE ELSE stackedAt[i]
    BY EnteredLevels, Zenon DEF IInv, ShellInv, Enters
  <1>2. /\ Stack \in Seq(Shown) /\ Len(Stack) = shlvl
        /\ Stack' \in Seq(Shown) /\ Len(Stack') = shlvl'
    BY StackShape, NextStackShape DEF IInv, Shown
  <1>3. top \in Shown
    BY DEF Shown
  <1>4. ASSUME NEW i \in 1..shlvl PROVE Stack'[i] = Stack[i]
    <2>1. i \in 1..shlvl' /\ i \in Levels /\ i # shlvl'
      BY <1>1, ActivationAssumption DEF Levels
    <2>2. PrefixOf(i)' = PrefixOf(i) /\ stackedAt'[i] = stackedAt[i]
      BY <1>1, <1>4, <2>1, Zenon
    <2>3. Stack'[i] = [env |-> PrefixOf(i)', stacked |-> stackedAt'[i]]
      BY <2>1 DEF Stack
    <2> QED
      BY <2>2, <2>3 DEF Stack
  <1>5. ASSUME NEW i \in 1..shlvl', i = shlvl' PROVE Stack'[i] = top
    <2>1. i \in Levels /\ i > shlvl
      BY <1>1, <1>5, ActivationAssumption DEF Levels
    <2>2. stackedAt'[i] = stacked
      <3>1. ~stackedAt[i] /\ stackedAt[i] \in BOOLEAN
        BY <2>1 DEF IInv, LevelsInv, ShellInv
      <3> QED
        BY <1>1, <1>5, <2>1, <3>1, Zenon
    <2>3. PrefixOf(i)' = e
      BY <1>1, <1>5 DEF PrefixOf
    <2>4. Stack'[i] = [env |-> PrefixOf(i)', stacked |-> stackedAt'[i]]
      BY DEF Stack
    <2> QED
      BY <2>2, <2>3, <2>4
  <1>6. Stack' = Append(Stack, top)
    BY <1>1, <1>2, <1>3, <1>4, <1>5, ActivationAssumption, AppendProperties, SeqEqual
  <1>7. /\ shlvl > 0 => Stack[shlvl].env # e
        /\ shlvl > 1 => Stack[shlvl - 1].env # e
    <2>1. ~(shlvl > 0 /\ prefix = e) /\ ~(shlvl > 1 /\ prefixAt[shlvl - 1] = e)
      BY DEF Enters, Reactivates, StepsBack
    <2>2. shlvl > 0 => Stack[shlvl].env = prefix
      BY <1>1 DEF Stack, PrefixOf
    <2>3. shlvl > 1 => Stack[shlvl - 1].env = prefixAt[shlvl - 1]
      BY <1>1 DEF Stack, PrefixOf
    <2> QED
      BY <2>1, <2>2, <2>3
  <1> QED
    BY <1>1, <1>2, <1>6, <1>7 DEF Env!Push, Env!Depth

(* Leaving an environment pops it.                                         *)
LEMMA LeavingPops ==
    ASSUME IInv, IInv', Leaves
    PROVE  Env!Pop
  <1>1. /\ shlvl \in 0..MaxDepth /\ shlvl > 0 /\ shlvl' = shlvl - 1
        /\ \A i \in 1..shlvl' : PrefixOf(i)' = PrefixOf(i)
        /\ \A i \in Levels : stackedAt'[i] = IF i = shlvl THEN FALSE ELSE stackedAt[i]
    BY LeftLevels, Zenon DEF IInv, ShellInv, Leaves, LevelLeft
  <1>2. /\ Stack \in Seq(Shown) /\ Len(Stack) = shlvl
        /\ Stack' \in Seq(Shown) /\ Len(Stack') = shlvl'
    BY StackShape, NextStackShape DEF IInv, Shown
  <1>3. ASSUME NEW i \in 1..shlvl' PROVE Stack'[i] = Stack[i] /\ Stack[i] \in Shown
    <2>1. i \in 1..shlvl /\ i \in Levels /\ i # shlvl
      BY <1>1, ActivationAssumption DEF Levels
    <2>2. PrefixOf(i)' = PrefixOf(i) /\ stackedAt'[i] = stackedAt[i]
      BY <1>1, <1>3, <2>1, Zenon
    <2>3. Stack'[i] = [env |-> PrefixOf(i)', stacked |-> stackedAt'[i]]
      BY DEF Stack
    <2> QED
      BY <1>2, <2>1, <2>2, <2>3, ElementOfSeq DEF Stack
  <1>4. /\ SubSeq(Stack, 1, shlvl - 1) \in Seq(Shown)
        /\ Len(SubSeq(Stack, 1, shlvl - 1)) = shlvl'
        /\ \A i \in 1..shlvl' : SubSeq(Stack, 1, shlvl - 1)[i] = Stack[i]
    BY <1>1, <1>3, SubSeqProperties
  <1>5. Stack' = SubSeq(Stack, 1, shlvl - 1)
    BY <1>2, <1>3, <1>4, SeqEqual
  <1> QED
    BY <1>1, <1>2, <1>5 DEF Env!Pop, Env!Depth

(* CONDA_PREFIX, CONDA_PREFIX_<n> and CONDA_STACKED_<n> are a stack of     *)
(* environments: every command pushes one, pops one, or leaves it alone.   *)
THEOREM ImplementsStack == Spec => StackSpec
  <1>1. Init => Env!Init
    BY DEF Init, Env!Init, Stack
  <1>2. IInv /\ IInv' /\ [Next]_vars => [Env!Next]_Stack
    <2> SUFFICES ASSUME IInv, IInv', [Next]_vars PROVE Env!Next \/ Stack' = Stack
      OBVIOUS
    <2>1. ASSUME NEW e \in Envs, NEW stacked \in BOOLEAN, Enters(e, stacked) PROVE Env!Next
      BY <2>1, EnteringPushes DEF Env!Next
    <2>2. CASE Leaves
      BY <2>2, LeavingPops DEF Env!Next
    <2>3. CASE Stays
      BY <2>3 DEF Stays, conda, Stack, PrefixOf
    <2> QED
      BY <2>1, <2>2, <2>3, Steps DEF IInv
  <1> QED
    BY <1>1, <1>2, Invariance, PTL DEF Spec, StackSpec, Env!Spec

-----------------------------------------------------------------------------
(* PATH and the prompt of a shell.                                         *)

LEMMA RowPositions == ASSUME NEW n \in Nat, NEW S, S \subseteq 1..n PROVE Positions(S)
  <1>1. IsFiniteSet(1..n)
    BY FS_Interval
  <1>2. IsFiniteSet(S)
    BY <1>1, FS_Subset
  <1> QED
    BY <1>2 DEF Positions

(* The levels under the top that are shown.                                *)
Under(sh, l) == {i \in 1..(l - 1) : sh.stackedAt[i + 1]}
EnvsAt(sh, l) == \A i \in 1..l : EnvOf(sh, l, i) \in Envs

LEMMA NothingShown == ASSUME NEW sh PROVE PromptOf(sh, 0) = <<>>
  <1>1. ShownOf(sh, 0) = {}
    BY DEF ShownOf
  <1>2. Positions({}) /\ Cardinality({}) = 0 /\ Within(EnvsOf(sh, 0), {}, Envs)
    BY FS_EmptySet DEF Positions, Within
  <1>3. Kept(EnvsOf(sh, 0), {}) \in Seq(Envs) /\ Len(Kept(EnvsOf(sh, 0), {})) = 0
    BY <1>2, KeptType
  <1> QED
    BY <1>1, <1>3, EmptySeq DEF PromptOf

(* The active environment is the last in the prompt.                       *)
LEMMA PromptTop ==
    ASSUME NEW sh, NEW l \in Nat \ {0}, EnvsAt(sh, l)
    PROVE  /\ Kept(EnvsOf(sh, l), Under(sh, l)) \in Seq(Envs) /\ sh.prefix \in Envs
           /\ PromptOf(sh, l) = Append(Kept(EnvsOf(sh, l), Under(sh, l)), sh.prefix)
  <1>1. Under(sh, l) \subseteq 1..l /\ \A i \in Under(sh, l) : i < l
    BY DEF Under
  <1>2. Positions(Under(sh, l))
    BY <1>1, RowPositions
  <1>3. \A i \in 1..l : EnvsOf(sh, l)[i] = EnvOf(sh, l, i) /\ EnvOf(sh, l, i) \in Envs
    BY DEF EnvsOf, EnvsAt
  <1>4. Within(EnvsOf(sh, l), Under(sh, l), Envs)
    BY <1>1, <1>3 DEF Within
  <1>5. EnvsOf(sh, l)[l] = sh.prefix /\ sh.prefix \in Envs
    BY <1>3 DEF EnvOf
  <1>6. ShownOf(sh, l) = Under(sh, l) \cup {l}
    BY DEF ShownOf, Under
  <1>7. Kept(EnvsOf(sh, l), Under(sh, l)) \in Seq(Envs)
    BY <1>2, <1>4, KeptType
  <1>8. Kept(EnvsOf(sh, l), Under(sh, l) \cup {l})
          = Append(Kept(EnvsOf(sh, l), Under(sh, l)), EnvsOf(sh, l)[l])
    BY <1>1, <1>2, <1>4, <1>5, KeptAbove
  <1> QED
    BY <1>5, <1>6, <1>7, <1>8 DEF PromptOf

LEMMA PromptType ==
    ASSUME NEW sh, NEW l \in Nat, EnvsAt(sh, l) PROVE PromptOf(sh, l) \in Seq(Envs)
  <1>1. CASE l = 0
    BY <1>1, NothingShown, EmptySeq
  <1>2. CASE l # 0
    <2>1. l \in Nat \ {0}
      BY <1>2
    <2> QED
      BY <2>1, PromptTop, AppendProperties
  <1> QED
    BY <1>1, <1>2

LEMMA PoppedAppend ==
    ASSUME NEW q \in Seq(Envs), NEW e \in Envs PROVE Popped(Append(q, e)) = q
  <1>1. /\ Append(q, e) \in Seq(Envs) /\ Append(q, e) # <<>> /\ Len(Append(q, e)) = Len(q) + 1
        /\ \A i \in 1..Len(q) : Append(q, e)[i] = q[i] /\ q[i] \in Envs
        /\ Len(q) \in Nat
    BY AppendProperties, LenProperties, ElementOfSeq
  <1>2. /\ SubSeq(Append(q, e), 1, Len(q)) \in Seq(Envs)
        /\ Len(SubSeq(Append(q, e), 1, Len(q))) = Len(q)
        /\ \A i \in 1..Len(q) : SubSeq(Append(q, e), 1, Len(q))[i] = q[i]
    BY <1>1, SubSeqProperties
  <1>3. SubSeq(Append(q, e), 1, Len(q)) = q
    BY <1>2, SeqEqual
  <1> QED
    BY <1>1, <1>3 DEF Popped

(* Shell high has one level more than shell low.                           *)
Extended(high, low, l, stacked) ==
    /\ \A i \in 1..l : EnvOf(high, l + 1, i) = EnvOf(low, l, i)
    /\ \A i \in 2..l : high.stackedAt[i] <=> low.stackedAt[i]
    /\ IF l = 0 THEN ~stacked ELSE (high.stackedAt[l + 1] <=> stacked)

(* The prompt grows by one environment, which takes the place of the last  *)
(* one unless it is stacked.                                               *)
LEMMA PromptGrows ==
    ASSUME NEW high, NEW low, NEW l \in Nat, NEW stacked \in BOOLEAN,
           Extended(high, low, l, stacked), EnvsAt(low, l), high.prefix \in Envs
    PROVE  /\ EnvsAt(high, l + 1) /\ PromptOf(low, l) \in Seq(Envs)
           /\ Popped(PromptOf(low, l)) \in Seq(Envs)
           /\ l > 0 => PromptOf(low, l) = Append(Popped(PromptOf(low, l)), low.prefix)
           /\ PromptOf(high, l + 1)
                = Append(IF stacked THEN PromptOf(low, l) ELSE Popped(PromptOf(low, l)), high.prefix)
  <1>1. \A i \in 1..l : EnvOf(high, l + 1, i) = EnvOf(low, l, i)
    BY DEF Extended
  <1>2. EnvsAt(high, l + 1)
    <2> SUFFICES ASSUME NEW i \in 1..(l + 1) PROVE EnvOf(high, l + 1, i) \in Envs
      BY DEF EnvsAt
    <2>1. CASE i = l + 1
      BY <2>1 DEF EnvOf
    <2>2. CASE i \in 1..l
      BY <1>1, <2>2 DEF EnvsAt
    <2> QED
      BY <2>1, <2>2
  <1>3. ASSUME NEW S, S \subseteq 1..l PROVE Kept(EnvsOf(high, l + 1), S) = Kept(EnvsOf(low, l), S)
    <2>1. \A i \in 1..l : EnvsOf(high, l + 1)[i] = EnvsOf(low, l)[i]
      BY <1>1 DEF EnvsOf
    <2>2. Positions(S) /\ \A i \in S : EnvsOf(high, l + 1)[i] = EnvsOf(low, l)[i]
      BY <1>3, <2>1, RowPositions
    <2> QED
      BY <2>2, KeptSame
  <1>4. PromptOf(high, l + 1) = Append(Kept(EnvsOf(high, l + 1), Under(high, l + 1)), high.prefix)
    BY <1>2, PromptTop
  <1>5. Under(high, l + 1) = {i \in 1..l : high.stackedAt[i + 1]}
    BY DEF Under
  <1>6. \A i \in 1..l : i # l => (high.stackedAt[i + 1] <=> low.stackedAt[i + 1])
    <2> SUFFICES ASSUME NEW i \in 1..l, i # l PROVE high.stackedAt[i + 1] <=> low.stackedAt[i + 1]
      OBVIOUS
    <2>1. i + 1 \in 2..l
      OBVIOUS
    <2> QED
      BY <2>1 DEF Extended
  <1>7. PromptOf(low, l) \in Seq(Envs)
    BY PromptType
  <1>8. Under(low, l) \subseteq 1..l /\ ShownOf(low, l) \subseteq 1..l
    BY DEF Under, ShownOf
  <1>9. Popped(PromptOf(low, l)) = Kept(EnvsOf(low, l), Under(low, l))
    <2>1. CASE l = 0
      <3>1. Under(low, l) = ShownOf(low, l)
        BY <2>1 DEF Under, ShownOf
      <3> QED
        BY <2>1, <3>1, NothingShown DEF PromptOf, Popped
    <2>2. CASE l # 0
      <3>1. /\ Kept(EnvsOf(low, l), Under(low, l)) \in Seq(Envs) /\ low.prefix \in Envs
            /\ PromptOf(low, l) = Append(Kept(EnvsOf(low, l), Under(low, l)), low.prefix)
        BY <2>2, PromptTop
      <3> QED
        BY <3>1, PoppedAppend
    <2> QED
      BY <2>1, <2>2
  <1>10. Popped(PromptOf(low, l)) \in Seq(Envs)
    <2>1. Positions(Under(low, l))
      BY <1>8, RowPositions
    <2>2. Within(EnvsOf(low, l), Under(low, l), Envs)
      BY <1>8 DEF Within, EnvsOf, EnvsAt
    <2> QED
      BY <1>9, <2>1, <2>2, KeptType
  <1>11. l > 0 => PromptOf(low, l) = Append(Popped(PromptOf(low, l)), low.prefix)
    BY <1>9, PromptTop
  <1>12. CASE stacked
    <2>1. l # 0 /\ high.stackedAt[l + 1]
      BY <1>12 DEF Extended
    <2>2. Under(high, l + 1) = ShownOf(low, l)
      BY <1>5, <1>6, <2>1 DEF ShownOf
    <2> QED
      BY <1>2, <1>3, <1>4, <1>7, <1>8, <1>10, <1>11, <1>12, <2>2 DEF PromptOf
  <1>13. CASE ~stacked
    <2>1. l # 0 => ~high.stackedAt[l + 1]
      BY <1>13 DEF Extended
    <2>2. Under(high, l + 1) = Under(low, l)
      BY <1>5, <1>6, <2>1 DEF Under
    <2> QED
      BY <1>2, <1>3, <1>4, <1>7, <1>8, <1>9, <1>10, <1>11, <1>13, <2>2
  <1> QED
    BY <1>12, <1>13

(* PATH when it shows a prompt.                                            *)
LEMMA ShowsTypes ==
    ASSUME NEW dirs, NEW ps \in Seq(Envs), NEW users, Shows(dirs, ps, users)
    PROVE  /\ Len(ps) \in Nat /\ Len(dirs) = Len(ps) + users /\ users \in {1, 2}
           /\ \A k \in 1..Len(ps) : ps[k] \in Envs /\ dirs[k] = ps[Len(ps) + 1 - k] /\ dirs[k] \in Envs
           /\ \A k \in 1..Len(dirs) : dirs[k] \in Dirs
           /\ dirs[Len(dirs)] = System /\ (users = 2 => dirs[Len(ps) + 1] = Condabin)
           /\ dirs \in Seq(Dirs)
  <1>1. Len(ps) \in Nat /\ \A k \in 1..Len(ps) : ps[k] \in Envs
    BY LenProperties, ElementOfSeq
  <1>2. /\ dirs \in Seq(Dirs) /\ Len(dirs) = Len(ps) + users /\ users \in {1, 2}
        /\ \A k \in 1..Len(ps) : dirs[k] = ps[Len(ps) + 1 - k]
        /\ dirs[Len(dirs)] = System /\ (users = 2 => dirs[Len(dirs) - 1] = Condabin)
    BY DEF Shows
  <1>3. \A k \in 1..Len(ps) : ps[Len(ps) + 1 - k] \in Envs
    BY <1>1
  <1>4. \A k \in 1..Len(dirs) : dirs[k] \in Dirs
    BY <1>2, ElementOfSeq
  <1>5. users = 2 => dirs[Len(ps) + 1] = Condabin
    BY <1>1, <1>2
  <1> QED
    BY <1>1, <1>2, <1>3, <1>4, <1>5

(* Without condabin, the user's directory is left alone.                   *)
LEMMA OwnShows ==
    ASSUME NEW dirs, NEW ps \in Seq(Envs), NEW users, Shows(dirs, ps, users)
    PROVE  Shows(Kept(dirs, {i \in 1..Len(dirs) : dirs[i] # Condabin}), ps, 1)
  <1> DEFINE n == Len(ps)
             S == {i \in 1..Len(dirs) : dirs[i] # Condabin}
  <1>1. /\ n \in Nat /\ Len(dirs) = n + users /\ users \in {1, 2}
        /\ \A k \in 1..n : dirs[k] = ps[n + 1 - k] /\ dirs[k] \in Envs
        /\ \A k \in 1..Len(dirs) : dirs[k] \in Dirs
        /\ dirs[Len(dirs)] = System /\ (users = 2 => dirs[n + 1] = Condabin)
    BY ShowsTypes
  <1>2. System # Condabin /\ \A e \in Envs : e # Condabin
    BY ActivationAssumption
  <1> HIDE DEF n
  <1>3. PICK last \in Nat : last = n + users /\ last = Len(dirs)
    BY <1>1
  <1>4. S = (1..n) \cup {last}
    <2>1. \A i \in 1..Len(dirs) : i \in 1..n \/ i = last \/ (users = 2 /\ i = n + 1)
      BY <1>1, <1>3
    <2>2. last \in 1..Len(dirs) /\ 1..n \subseteq 1..Len(dirs) /\ last \notin 1..n
      BY <1>1, <1>3
    <2>3. users = 2 => last # n + 1
      BY <1>1, <1>3
    <2> QED
      BY <1>1, <1>2, <1>3, <2>1, <2>2, <2>3
  <1>5. /\ Positions(1..n) /\ Within(dirs, 1..n, Dirs)
        /\ (\A i \in 1..n : i < last) /\ dirs[last] = System /\ dirs[last] \in Dirs
    <2>1. Positions(1..n)
      BY <1>1, RowPositions
    <2>2. 1..n \subseteq 1..Len(dirs)
      BY <1>1
    <2> QED
      BY <1>1, <1>3, <2>1, <2>2 DEF Within, Dirs
  <1>6. /\ Kept(dirs, 1..n) \in Seq(Dirs) /\ Len(Kept(dirs, 1..n)) = n
    <2>1. Cardinality(1..n) = n
      BY <1>1, FS_Interval
    <2> QED
      BY <1>5, <2>1, KeptType
  <1>7. \A k \in 1..n : Kept(dirs, 1..n)[k] = dirs[k]
    <2>1. Kept(dirs, 1..n) = Row(dirs, 1, n)
      BY <1>1, KeptRow
    <2> QED
      BY <1>1, <2>1 DEF Row
  <1> HIDE DEF S
  <1>0. Kept(dirs, S) = Append(Kept(dirs, 1..n), dirs[last])
    <2>1. Kept(dirs, (1..n) \cup {last}) = Append(Kept(dirs, 1..n), dirs[last])
      <3> DEFINE row == 1..n
      <3>1. /\ Positions(row) /\ Within(dirs, row, Dirs)
            /\ (\A i \in row : i < last) /\ dirs[last] \in Dirs
        BY <1>5
      <3> HIDE DEF row
      <3>2. Kept(dirs, row \cup {last}) = Append(Kept(dirs, row), dirs[last])
        BY <3>1, KeptAbove
      <3> QED
        BY <3>2 DEF row
    <2> QED
      BY <1>4, <2>1
  <1>8. /\ Kept(dirs, S) \in Seq(Dirs) /\ Len(Kept(dirs, S)) = n + 1
        /\ \A k \in 1..n : Kept(dirs, S)[k] = dirs[k]
        /\ Kept(dirs, S)[n + 1] = System
    BY <1>0, <1>5, <1>6, <1>7, AppendProperties
  <1>9. \A k \in 1..n : Kept(dirs, S)[k] = ps[n + 1 - k]
    BY <1>1, <1>8
  <1>10. Shows(Kept(dirs, S), ps, 1)
    BY <1>1, <1>8, <1>9 DEF Shows, n
  <1> QED
    BY <1>10 DEF S

(* The environments in PATH, when it shows a prompt.                       *)
LEMMA EnvsShow ==
    ASSUME NEW dirs, NEW ps \in Seq(Envs), NEW users, Shows(dirs, ps, users)
    PROVE  Kept(dirs, {i \in 1..Len(dirs) : dirs[i] \in Envs})
             = [k \in 1..Len(ps) |-> ps[Len(ps) + 1 - k]]
  <1> DEFINE n == Len(ps)
  <1>1. /\ n \in Nat /\ Len(dirs) = n + users /\ users \in {1, 2}
        /\ \A k \in 1..n : dirs[k] = ps[n + 1 - k] /\ dirs[k] \in Envs
        /\ dirs[Len(dirs)] = System /\ (users = 2 => dirs[n + 1] = Condabin)
    BY ShowsTypes
  <1>2. System \notin Envs /\ Condabin \notin Envs
    BY ActivationAssumption
  <1> HIDE DEF n
  <1>3. {i \in 1..Len(dirs) : dirs[i] \in Envs} = 1..n
    <2>1. \A i \in 1..Len(dirs) : i \in 1..n \/ i = Len(dirs) \/ (users = 2 /\ i = n + 1)
      BY <1>1
    <2>2. 1..n \subseteq 1..Len(dirs) /\ \A i \in 1..n : i # Len(dirs) /\ i # n + 1
      BY <1>1
    <2> QED
      BY <1>1, <1>2, <2>1, <2>2
  <1>4. Kept(dirs, 1..n) = Row(dirs, 1, n)
    BY <1>1, KeptRow
  <1>5. \A k \in 1..n : dirs[1 + k - 1] = ps[n + 1 - k]
    BY <1>1
  <1>6. n + 1 - 1 = n
    BY <1>1
  <1> QED
    BY <1>3, <1>4, <1>5, <1>6 DEF n, Row

(* Then no directory is next to itself, and std::unique() changes nothing. *)
LEMMA UniqueShows ==
    ASSUME NEW dirs, NEW ps \in Seq(Envs), NEW users, Shows(dirs, ps, users), Distinct(ps)
    PROVE  Unique(dirs) = dirs
  <1> DEFINE n == Len(ps)
  <1>1. /\ n \in Nat /\ Len(dirs) = n + users /\ users \in {1, 2} /\ dirs \in Seq(Dirs)
        /\ \A k \in 1..n : dirs[k] = ps[n + 1 - k] /\ dirs[k] \in Envs
        /\ dirs[Len(dirs)] = System /\ (users = 2 => dirs[n + 1] = Condabin)
    BY ShowsTypes
  <1>2. System \notin Envs /\ Condabin \notin Envs /\ System # Condabin
    BY ActivationAssumption
  <1>3. \A a, b \in 1..n : ps[a] = ps[b] => a = b
    BY DEF Distinct
  <1> HIDE DEF n
  <1>4. ASSUME NEW i \in 1..Len(dirs), i # 1 PROVE dirs[i] # dirs[i - 1]
    <2>1. CASE i \in 1..n
      <3>1. i - 1 \in 1..n /\ n + 1 - i \in 1..n /\ n + 1 - (i - 1) \in 1..n
            /\ n + 1 - i # n + 1 - (i - 1)
        BY <1>1, <1>4, <2>1
      <3>2. ps[n + 1 - i] # ps[n + 1 - (i - 1)]
        BY <1>3, <3>1
      <3> QED
        BY <1>1, <2>1, <3>1, <3>2
    <2>2. CASE i = n + 1 /\ users = 2
      <3>1. i - 1 \in 1..n
        BY <1>1, <1>4, <2>2
      <3> QED
        BY <1>1, <1>2, <2>2, <3>1
    <2>3. CASE i = Len(dirs)
      <3>1. i - 1 \in 1..n \/ (users = 2 /\ i - 1 = n + 1)
        BY <1>1, <1>4, <2>3
      <3> QED
        BY <1>1, <1>2, <2>3, <3>1
    <2> QED
      BY <1>1, <2>1, <2>2, <2>3
  <1>5. {i \in 1..Len(dirs) : i = 1 \/ dirs[i] # dirs[i - 1]} = 1..Len(dirs)
    BY <1>4
  <1>6. Len(dirs) \in Nat /\ dirs = [k \in 1..Len(dirs) |-> dirs[k]]
    BY <1>1, LenProperties
  <1>7. PICK m \in Nat : m = Len(dirs)
    BY <1>6
  <1>8. Kept(dirs, 1..m) = Row(dirs, 1, m)
    BY KeptRow
  <1>9. Kept(dirs, 1..m) = [k \in 1..m |-> dirs[k]]
    BY <1>8 DEF Row
  <1> QED
    BY <1>5, <1>6, <1>7, <1>9 DEF Unique

(* The active environment is first in PATH, and nowhere else: taking it    *)
(* out leaves the others.                                                  *)
LEMMA WithoutShows ==
    ASSUME NEW dirs, NEW q \in Seq(Envs), NEW e \in Envs, NEW users,
           Shows(dirs, Append(q, e), users), Distinct(Append(q, e))
    PROVE  Shows(Kept(dirs, {i \in 1..Len(dirs) : dirs[i] # e}), q, users)
  <1> DEFINE ps == Append(q, e)
             n == Len(q)
  <1>1. /\ ps \in Seq(Envs) /\ Len(ps) = n + 1 /\ n \in Nat
        /\ (\A k \in 1..n : ps[k] = q[k]) /\ ps[n + 1] = e
    BY AppendProperties, LenProperties
  <1>2. \A a, b \in 1..(n + 1) : ps[a] = ps[b] => a = b
    BY <1>1 DEF Distinct
  <1>3. Shows(dirs, ps, users)
    OBVIOUS
  <1> HIDE DEF ps, n
  <1>4. PICK m \in Nat : m = Len(dirs)
    BY <1>1, <1>3, ShowsTypes
  <1>5. /\ m = n + 1 + users /\ users \in {1, 2}
        /\ \A k \in 1..(n + 1) : dirs[k] = ps[n + 1 + 1 - k]
        /\ \A k \in 1..m : dirs[k] \in Dirs
        /\ dirs[m] = System /\ (users = 2 => dirs[n + 2] = Condabin)
    <2>0. /\ Len(dirs) = Len(ps) + users /\ users \in {1, 2} /\ dirs \in Seq(Dirs)
          /\ dirs[Len(dirs)] = System /\ (users = 2 => dirs[Len(ps) + 1] = Condabin)
      BY <1>1, <1>3, ShowsTypes
    <2>1. /\ \A k \in 1..Len(ps) : dirs[k] = ps[Len(ps) + 1 - k]
          /\ \A k \in 1..Len(dirs) : dirs[k] \in Dirs
      BY <1>3, <2>0, ElementOfSeq DEF Shows
    <2>2. n + 1 + 1 = n + 2
      BY <1>1
    <2> QED
      BY <1>1, <1>4, <2>0, <2>1, <2>2
  <1>6. System # e /\ Condabin # e
    BY ActivationAssumption
  <1>7. dirs[1] = e
    BY <1>1, <1>5
  <1>8. ASSUME NEW i \in 2..m PROVE dirs[i] # e
    <2>1. CASE i \in 1..(n + 1)
      <3>1. n + 1 + 1 - i \in 1..(n + 1) /\ n + 1 + 1 - i # n + 1 /\ n + 1 \in 1..(n + 1)
        BY <1>1, <1>8, <2>1
      <3> QED
        BY <1>1, <1>2, <1>5, <2>1, <3>1
    <2>2. i \in 1..(n + 1) \/ i = m \/ (users = 2 /\ i = n + 2)
      BY <1>1, <1>5
    <2> QED
      BY <1>5, <1>6, <2>1, <2>2
  <1>9. {i \in 1..m : dirs[i] # e} = 2..m
    BY <1>7, <1>8
  <1>10. Kept(dirs, 2..m) = [k \in 1..(m - 1) |-> dirs[k + 1]]
    <2>1. 2 <= m + 1
      BY <1>1, <1>5
    <2>2. Kept(dirs, 2..m) = Row(dirs, 2, m)
      BY <2>1, KeptRow
    <2> QED
      BY <2>2 DEF Row
  <1>11. PICK cut : cut = Kept(dirs, 2..m)
    OBVIOUS
  <1>12. \A k \in 1..(m - 1) : cut[k] = dirs[k + 1] /\ k + 1 \in 1..m
    BY <1>10, <1>11
  <1>13. cut \in Seq(Dirs) /\ Len(cut) = n + users
    <2>1. m - 1 = n + users /\ m - 1 \in Nat
      BY <1>1, <1>5
    <2>2. cut \in [1..(m - 1) -> Dirs]
      BY <1>5, <1>10, <1>11, <1>12, <2>1
    <2> QED
      BY <2>1, <2>2, SeqDef, LenProperties
  <1>14. \A k \in 1..n : cut[k] = q[n + 1 - k]
    <2> SUFFICES ASSUME NEW k \in 1..n PROVE cut[k] = q[n + 1 - k]
      OBVIOUS
    <2>1. k \in 1..(m - 1) /\ k + 1 \in 1..(n + 1) /\ n + 1 + 1 - (k + 1) = n + 1 - k
          /\ n + 1 - k \in 1..n
      BY <1>1, <1>5
    <2>2. cut[k] = ps[n + 1 + 1 - (k + 1)]
      BY <1>5, <1>12, <2>1
    <2> QED
      BY <1>1, <2>1, <2>2
  <1>15. cut[n + users] = System /\ (users = 2 => cut[n + users - 1] = Condabin)
    <2>1. n + users \in 1..(m - 1) /\ n + users + 1 = m
      BY <1>1, <1>5
    <2>2. users = 2 => n + users - 1 \in 1..(m - 1) /\ n + users - 1 + 1 = n + 2
      BY <1>1, <1>5
    <2> QED
      BY <1>5, <1>12, <2>1, <2>2
  <1>16. Shows(cut, q, users)
    BY <1>5, <1>13, <1>14, <1>15 DEF Shows, n
  <1> QED
    BY <1>4, <1>9, <1>11, <1>16

(* Another one is shown first.                                             *)
LEMMA PutShows ==
    ASSUME NEW dirs, NEW q \in Seq(Envs), NEW e \in Envs, NEW users, Shows(dirs, q, users)
    PROVE  Shows(<<e>> \o dirs, Append(q, e), users)
  <1> DEFINE ps == Append(q, e)
             all == <<e>> \o dirs
             n == Len(q)
  <1>1. /\ Len(ps) = n + 1 /\ n \in Nat
        /\ (\A k \in 1..n : ps[k] = q[k]) /\ ps[n + 1] = e
    BY AppendProperties, LenProperties
  <1>2. /\ dirs \in Seq(Dirs) /\ Len(dirs) = n + users /\ users \in {1, 2}
        /\ \A k \in 1..n : dirs[k] = q[n + 1 - k]
        /\ dirs[n + users] = System /\ (users = 2 => dirs[n + users - 1] = Condabin)
    BY DEF Shows
  <1>3. <<e>> \in Seq(Dirs) /\ Len(<<e>>) = 1 /\ <<e>>[1] = e
    BY DEF Dirs
  <1>4. /\ all \in Seq(Dirs) /\ Len(all) = 1 + Len(dirs)
        /\ \A i \in 1..(1 + Len(dirs)) : all[i] = IF i <= 1 THEN <<e>>[i] ELSE dirs[i - 1]
    BY <1>2, <1>3, ConcatProperties
  <1> HIDE DEF ps, all, n
  <1>5. all[1] = e /\ \A i \in 2..(1 + n + users) : all[i] = dirs[i - 1]
    BY <1>1, <1>2, <1>3, <1>4
  <1>6. ASSUME NEW k \in 1..(n + 1) PROVE all[k] = ps[n + 1 + 1 - k]
    <2>1. CASE k = 1
      BY <1>1, <1>5, <2>1
    <2>2. CASE k # 1
      <3>1. k \in 2..(1 + n + users) /\ k - 1 \in 1..n /\ n + 1 - (k - 1) = n + 1 + 1 - k
            /\ n + 1 + 1 - k \in 1..n
        BY <1>1, <1>2, <2>2
      <3> QED
        BY <1>1, <1>2, <1>5, <3>1
    <2> QED
      BY <2>1, <2>2
  <1>7. all[1 + n + users] = System /\ (users = 2 => all[1 + n + users - 1] = Condabin)
    <2>1. PICK m \in Nat : m = n + users
      BY <1>1, <1>2
    <2>2. \A i \in 2..(m + 1) : all[i] = dirs[i - 1]
      <3>1. 1 + n + users = m + 1
        BY <1>1, <1>2, <2>1
      <3> QED
        BY <1>5, <3>1
    <2>3. m + 1 \in 2..(m + 1) /\ m + 1 - 1 = m /\ (users = 2 => m \in 2..(m + 1))
      BY <1>1, <1>2, <2>1
    <2>4. all[m + 1] = dirs[m] /\ (users = 2 => all[m] = dirs[m - 1])
      BY <2>2, <2>3
    <2>5. 1 + n + users = m + 1 /\ 1 + n + users - 1 = m
      BY <1>1, <1>2, <2>1
    <2>6. dirs[m] = System /\ (users = 2 => dirs[m - 1] = Condabin)
      <3>1. m = Len(dirs)
        BY <1>2, <2>1
      <3> QED
        BY <3>1 DEF Shows
    <2> QED
      BY <2>4, <2>5, <2>6
  <1>8. Len(all) = 1 + n + users /\ 1 + n + users = n + 1 + users
    BY <1>1, <1>2, <1>4
  <1>9. Shows(all, ps, users)
    BY <1>1, <1>2, <1>4, <1>6, <1>7, <1>8 DEF Shows
  <1> QED
    BY <1>9 DEF ps, all

(* One prompt is shown by one list for each number of user directories.    *)
LEMMA SameShows ==
    ASSUME NEW dirs, NEW other, NEW ps \in Seq(Envs), NEW users,
           Shows(dirs, ps, users), Shows(other, ps, users)
    PROVE  dirs = other
  <1> DEFINE n == Len(ps)
  <1>1. /\ n \in Nat /\ Len(dirs) = n + users /\ users \in {1, 2} /\ dirs \in Seq(Dirs)
        /\ dirs[Len(dirs)] = System /\ (users = 2 => dirs[n + 1] = Condabin)
        /\ Len(other) = n + users /\ other \in Seq(Dirs)
        /\ other[Len(other)] = System /\ (users = 2 => other[n + 1] = Condabin)
    BY ShowsTypes
  <1>2. \A k \in 1..n : dirs[k] = other[k]
    BY DEF Shows
  <1> HIDE DEF n
  <1>3. ASSUME NEW k \in 1..Len(dirs) PROVE dirs[k] = other[k]
    <2>1. k \in 1..n \/ k = Len(dirs) \/ (users = 2 /\ k = n + 1)
      BY <1>1
    <2> QED
      BY <1>1, <1>2, <2>1
  <1> QED
    BY <1>1, <1>3, SeqEqual

(* The prompt depends on CONDA_PREFIX, CONDA_PREFIX_<n> and                *)
(* CONDA_STACKED_<n>.                                                      *)
LEMMA SamePrompt ==
    ASSUME NEW sh, NEW other, NEW l,
           sh.prefix = other.prefix, sh.prefixAt = other.prefixAt, sh.stackedAt = other.stackedAt
    PROVE  PromptOf(sh, l) = PromptOf(other, l)
  BY DEF PromptOf, EnvsOf, EnvOf, ShownOf

-----------------------------------------------------------------------------
(* The shell's own prompt and its steps.                                   *)

LEMMA ShellFields ==
    /\ Shell.path = OwnDirs /\ Shell.prefix = prefix /\ Shell.prefixAt = prefixAt
    /\ Shell.stackedAt = stackedAt /\ Shell.value = value /\ Shell.saved = saved
  BY DEF Shell
LEMMA NextShellFields ==
    /\ Shell'.path = OwnDirs' /\ Shell'.prefix = prefix' /\ Shell'.prefixAt = prefixAt'
    /\ Shell'.stackedAt = stackedAt' /\ Shell'.value = value' /\ Shell'.saved = saved'
  BY DEF Shell

LEMMA PromptIs == PromptStack = PromptOf(Shell, shlvl)
  <1>1. ShownLevels = ShownOf(Shell, shlvl)
    BY ShellFields DEF ShownLevels, ShownOf, IsShown
  <1>2. [i \in 1..shlvl |-> PrefixOf(i)] = EnvsOf(Shell, shlvl)
    BY ShellFields DEF PrefixOf, EnvsOf, EnvOf
  <1> QED
    BY <1>1, <1>2 DEF PromptStack, PromptOf
LEMMA NextPromptIs == PromptStack' = PromptOf(Shell', shlvl')
  <1>1. (PromptStack = PromptOf(Shell, shlvl))'
    BY PromptIs, PTL
  <1> QED
    BY <1>1

LEMMA EnvsInShell == ASSUME ShellInv, LevelsInv PROVE EnvsAt(Shell, shlvl)
  <1> SUFFICES ASSUME NEW i \in 1..shlvl PROVE EnvOf(Shell, shlvl, i) \in Envs
    BY DEF EnvsAt
  <1>1. i \in Levels /\ (i = shlvl \/ i < shlvl) /\ shlvl > 0
    BY ActivationAssumption DEF ShellInv, Levels
  <1> QED
    BY <1>1, ShellFields DEF EnvOf, ShellInv, LevelsInv

LEMMA EnteringExtends ==
    ASSUME ShellInv, LevelsInv, NEW e \in Envs, NEW stacked \in BOOLEAN, Enters(e, stacked)
    PROVE  Extended(Shell', Shell, shlvl, stacked) /\ shlvl \in Nat /\ shlvl' = shlvl + 1 /\ Shell'.prefix = e
  <1>1. /\ shlvl' = shlvl + 1 /\ shlvl' \in 1..MaxDepth /\ prefix' = e
        /\ \A i \in 1..shlvl : PrefixOf(i)' = PrefixOf(i)
        /\ \A i \in Levels : stackedAt'[i] = IF stacked /\ i = shlvl' THEN TRUE ELSE stackedAt[i]
    BY EnteredLevels
  <1>2. shlvl \in Nat /\ (stacked => shlvl > 0)
    BY ActivationAssumption DEF ShellInv, Enters
  <1>3. \A i \in 1..shlvl : EnvOf(Shell', shlvl + 1, i) = EnvOf(Shell, shlvl, i)
    <2> SUFFICES ASSUME NEW i \in 1..shlvl
                 PROVE  EnvOf(Shell', shlvl + 1, i) = EnvOf(Shell, shlvl, i)
      OBVIOUS
    <2>1. PrefixOf(i)' = EnvOf(Shell', shlvl', i) /\ PrefixOf(i) = EnvOf(Shell, shlvl, i)
      BY ShellFields, NextShellFields DEF PrefixOf, EnvOf
    <2> QED
      BY <1>1, <2>1
  <1>4. \A i \in 2..shlvl : stackedAt'[i] <=> stackedAt[i]
    <2> SUFFICES ASSUME NEW i \in 2..shlvl PROVE stackedAt'[i] <=> stackedAt[i]
      OBVIOUS
    <2>1. i \in Levels /\ i # shlvl'
      BY <1>1, <1>2, ActivationAssumption DEF Levels
    <2> QED
      BY <1>1, <2>1, Zenon
  <1>5. stackedAt'[shlvl'] <=> stacked
    <2>1. shlvl' \in Levels /\ shlvl' > shlvl
      BY <1>1, <1>2 DEF Levels
    <2>2. ~stackedAt[shlvl']
      BY <2>1, Zenon DEF LevelsInv
    <2> QED
      BY <1>1, <2>1, <2>2, Zenon
  <1> QED
    BY <1>1, <1>2, <1>3, <1>4, <1>5, NextShellFields, ShellFields DEF Extended

LEMMA LeavingExtends ==
    ASSUME ShellInv, LevelsInv, Leaves
    PROVE  /\ Extended(Shell, Shell', shlvl', stackedAt[shlvl]) /\ stackedAt[shlvl] \in BOOLEAN
           /\ shlvl' \in Nat /\ shlvl = shlvl' + 1 /\ prefix \in Envs
  <1>1. /\ shlvl' = shlvl - 1 /\ shlvl' \in 0..MaxDepth
        /\ \A i \in 1..shlvl' : PrefixOf(i)' = PrefixOf(i)
        /\ \A i \in Levels : stackedAt'[i] = IF i = shlvl THEN FALSE ELSE stackedAt[i]
    BY LeftLevels DEF LevelLeft
  <1>2. /\ shlvl' \in Nat /\ shlvl = shlvl' + 1 /\ shlvl \in Levels /\ prefix \in Envs
        /\ stackedAt[shlvl] \in BOOLEAN
    BY <1>1, ActivationAssumption DEF ShellInv, Leaves, Levels
  <1>3. \A i \in 1..shlvl' : EnvOf(Shell, shlvl' + 1, i) = EnvOf(Shell', shlvl', i)
    <2> SUFFICES ASSUME NEW i \in 1..shlvl'
                 PROVE  EnvOf(Shell, shlvl' + 1, i) = EnvOf(Shell', shlvl', i)
      OBVIOUS
    <2>1. PrefixOf(i)' = EnvOf(Shell', shlvl', i) /\ PrefixOf(i) = EnvOf(Shell, shlvl, i)
      BY ShellFields, NextShellFields DEF PrefixOf, EnvOf
    <2> QED
      BY <1>1, <1>2, <2>1
  <1>4. \A i \in 2..shlvl' : stackedAt[i] <=> stackedAt'[i]
    <2> SUFFICES ASSUME NEW i \in 2..shlvl' PROVE stackedAt[i] <=> stackedAt'[i]
      OBVIOUS
    <2>1. i \in Levels /\ i # shlvl
      BY <1>1, <1>2, ActivationAssumption DEF Levels
    <2> QED
      BY <1>1, <2>1, Zenon
  <1>5. shlvl' = 0 => ~stackedAt[shlvl]
    BY <1>2 DEF LevelsInv
  <1> QED
    BY <1>2, <1>3, <1>4, <1>5, NextShellFields, ShellFields DEF Extended

(* What entering and leaving do to the prompt.                             *)
LEMMA EnteringShown ==
    ASSUME IInv, IInv', NEW e \in Envs, NEW stacked \in BOOLEAN, Enters(e, stacked)
    PROVE  /\ PromptStack \in Seq(Envs) /\ Popped(PromptStack) \in Seq(Envs)
           /\ shlvl > 0 => PromptStack = Append(Popped(PromptStack), prefix)
           /\ shlvl = 0 => PromptStack = <<>> /\ Popped(PromptStack) = <<>>
           /\ PromptStack' = Append(IF stacked THEN PromptStack ELSE Popped(PromptStack), e)
           /\ PromptStack' \in Seq(Envs)
  <1>1. /\ Extended(Shell', Shell, shlvl, stacked) /\ shlvl \in Nat /\ shlvl' = shlvl + 1
        /\ Shell'.prefix = e /\ Shell.prefix = prefix
    BY EnteringExtends, ShellFields DEF IInv
  <1>2. EnvsAt(Shell, shlvl)
    BY EnvsInShell DEF IInv
  <1>3. PromptStack = PromptOf(Shell, shlvl) /\ PromptStack' = PromptOf(Shell', shlvl + 1)
    BY <1>1, PromptIs, NextPromptIs
  <1>4. /\ PromptStack \in Seq(Envs) /\ Popped(PromptStack) \in Seq(Envs)
        /\ shlvl > 0 => PromptStack = Append(Popped(PromptStack), prefix)
        /\ PromptStack' = Append(IF stacked THEN PromptStack ELSE Popped(PromptStack), e)
    BY <1>1, <1>2, <1>3, PromptGrows
  <1>5. shlvl = 0 => PromptStack = <<>> /\ Popped(PromptStack) = <<>>
    BY <1>3, NothingShown DEF Popped
  <1>6. PromptStack' \in Seq(Envs)
    BY <1>4, AppendProperties
  <1> QED
    BY <1>4, <1>5, <1>6

LEMMA LeavingShown ==
    ASSUME IInv, IInv', Leaves
    PROVE  /\ PromptStack' \in Seq(Envs) /\ Popped(PromptStack') \in Seq(Envs)
           /\ shlvl' > 0 => PromptStack' = Append(Popped(PromptStack'), prefix')
           /\ shlvl' = 0 => PromptStack' = <<>>
           /\ PromptStack = Append(IF stackedAt[shlvl] THEN PromptStack' ELSE Popped(PromptStack'), prefix)
           /\ Popped(PromptStack) = IF stackedAt[shlvl] THEN PromptStack' ELSE Popped(PromptStack')
           /\ shlvl' \in Nat /\ shlvl = shlvl' + 1 /\ prefix \in Envs
           /\ shlvl' = 0 => ~stackedAt[shlvl]
  <1>1. /\ Extended(Shell, Shell', shlvl', stackedAt[shlvl]) /\ stackedAt[shlvl] \in BOOLEAN
        /\ shlvl' \in Nat /\ shlvl = shlvl' + 1 /\ prefix \in Envs
        /\ Shell'.prefix = prefix' /\ Shell.prefix = prefix
    BY LeavingExtends, ShellFields, NextShellFields DEF IInv
  <1>2. EnvsAt(Shell', shlvl')
    <2>1. ShellInv /\ LevelsInv => EnvsAt(Shell, shlvl)
      BY EnvsInShell
    <2>2. (ShellInv /\ LevelsInv => EnvsAt(Shell, shlvl))'
      BY <2>1, EnvsInShell, PTL
    <2> QED
      BY <2>2 DEF IInv
  <1>3. PromptStack' = PromptOf(Shell', shlvl') /\ PromptStack = PromptOf(Shell, shlvl' + 1)
    BY <1>1, PromptIs, NextPromptIs
  <1>4. /\ PromptStack' \in Seq(Envs) /\ Popped(PromptStack') \in Seq(Envs)
        /\ shlvl' > 0 => PromptStack' = Append(Popped(PromptStack'), prefix')
        /\ PromptStack = Append(IF stackedAt[shlvl] THEN PromptStack' ELSE Popped(PromptStack'), prefix)
    BY <1>1, <1>2, <1>3, PromptGrows
  <1>5. shlvl' = 0 => PromptStack' = <<>>
    BY <1>3, NothingShown
  <1>6. Popped(PromptStack) = IF stackedAt[shlvl] THEN PromptStack' ELSE Popped(PromptStack')
    BY <1>1, <1>4, PoppedAppend
  <1>7. shlvl' = 0 => ~stackedAt[shlvl]
    BY <1>1 DEF Extended
  <1> QED
    BY <1>1, <1>4, <1>5, <1>6, <1>7

(* A shell whose levels stay shows what it showed.                         *)
LEMMA StayingShown == ASSUME Stays PROVE PromptStack' = PromptStack
  BY DEF Stays, conda, PromptStack, ShownLevels, IsShown, PrefixOf

LEMMA DeactivatePrompt == ASSUME IInv, IInv', Deactivate PROVE prompt' = PromptStack'
  <1>1. Leaves
    BY DEF Deactivate, Leaves, LeftFirst, LeftAbove, IInv, ShellInv
  <1>2. /\ PromptStack' \in Seq(Envs) /\ Popped(PromptStack') \in Seq(Envs)
        /\ shlvl' > 0 => PromptStack' = Append(Popped(PromptStack'), prefix')
        /\ shlvl' = 0 => PromptStack' = <<>>
        /\ Popped(PromptStack) = IF stackedAt[shlvl] THEN PromptStack' ELSE Popped(PromptStack')
        /\ shlvl' \in Nat /\ shlvl = shlvl' + 1 /\ prefix \in Envs
    BY <1>1, LeavingShown
  <1>3. CASE LeftFirst
    BY <1>2, <1>3 DEF LeftFirst
  <1>4. CASE LeftAbove(PromptDeactivating)
    <2>1. /\ prompt' = PromptDeactivating /\ shlvl # 1 /\ shlvl' > 0
          /\ prefix' = prefixAt[shlvl - 1]
      <3>0. shlvl > 1
        BY <1>4 DEF LeftAbove
      <3>1. prompt' = PromptDeactivating /\ prefix' = prefixAt[shlvl - 1]
        BY <1>4 DEF LeftAbove
      <3>2. shlvl' \in Nat /\ shlvl = shlvl' + 1
        BY <1>2
      <3>3. shlvl # 1 /\ shlvl' > 0
        <4>1. PICK m \in Nat : m = shlvl'
          BY <3>2
        <4>2. m + 1 > 1
          BY <3>0, <3>2, <4>1
        <4>3. m + 1 # 1 /\ m > 0
          BY <4>2
        <4> QED
          BY <3>2, <4>1, <4>3
      <3> QED
        BY <3>1, <3>3
    <2>2. CASE stackedAt[shlvl]
      <3>1. prompt' = PromptStack' \o <<>>
        BY <1>2, <2>1, <2>2 DEF PromptDeactivating
      <3> QED
        BY <1>2, <3>1, ConcatEmptySeq
    <2>3. CASE ~stackedAt[shlvl]
      <3>1. prompt' = Popped(PromptStack') \o <<prefix'>>
        BY <1>2, <2>1, <2>3 DEF PromptDeactivating
      <3>2. prefix' \in Envs
        BY <2>1 DEF IInv, ShellInv
      <3> QED
        BY <1>2, <2>1, <3>1, <3>2, AppendIsConcat
    <2> QED
      BY <2>2, <2>3
  <1> QED
    BY <1>3, <1>4 DEF Deactivate

LEMMA PromptStep == ASSUME IInv, IInv', [Next]_vars, shlvl' > shlvl \/ Deactivate \/ Reactivate
                    PROVE  prompt' = PromptStack'
  <1>1. CASE Deactivate
    BY <1>1, DeactivatePrompt
  <1>2. CASE Reactivate
    <2>1. Stays /\ prompt' = PromptStack
      BY <1>2 DEF Reactivate, Reactivated, Stays
    <2> QED
      BY <2>1, StayingShown
  <1>3. CASE shlvl' > shlvl
    <2>1. shlvl \in Nat
      BY ActivationAssumption DEF IInv, ShellInv
    <2>2. ASSUME NEW e \in Envs, NEW stack \in BOOLEAN, ActivateFirst(e, stack)
          PROVE  prompt' = PromptStack'
      <3>1. Enters(e, FALSE) /\ shlvl = 0 /\ prompt' = PromptActivating(e, stack)
        BY <2>2, ActivationAssumption
           DEF ActivateFirst, Entered, Enters, Reactivates, StepsBack, IInv, ShellInv
      <3> QED
        BY <3>1, EnteringShown DEF PromptActivating
    <2>3. ASSUME NEW e \in Envs, ActivateStacked(e) PROVE prompt' = PromptStack'
      <3>1. Enters(e, TRUE) /\ prompt' = PromptActivating(e, TRUE)
        BY <2>3, ActivationAssumption DEF ActivateStacked, Entered, Enters, IInv, ShellInv
      <3> QED
        BY <3>1, EnteringShown DEF PromptActivating
    <2>4. ASSUME NEW e \in Envs, ActivateInstead(e) PROVE prompt' = PromptStack'
      <3>1. Enters(e, FALSE) /\ prompt' = PromptActivating(e, FALSE)
        BY <2>4, ActivationAssumption DEF ActivateInstead, Entered, Enters, IInv, ShellInv
      <3> QED
        BY <3>1, EnteringShown DEF PromptActivating
    <2>5. \A e \in Envs, stack \in BOOLEAN : ~ActivateAgain(e, stack) /\ ~ActivateBelow(e, stack)
      BY <1>3, <2>1 DEF ActivateAgain, Reactivated, conda, ActivateBelow, LeftAbove
    <2>6. shlvl' # shlvl
      BY <1>3, <2>1
    <2> QED
      BY <1>1, <1>2, <2>2, <2>3, <2>4, <2>5, <2>6 DEF Next, Activate, vars, conda
  <1> QED
    BY <1>1, <1>2, <1>3

(* {stacked_env} names the environments PATH shows after every command     *)
(* that enters, leaves or reactivates one.                                 *)
THEOREM PromptTellsShown == Spec => PromptFollows
  <1>1. IInv /\ IInv' /\ [Next]_vars
          => [shlvl' > shlvl \/ Deactivate \/ Reactivate => prompt' = PromptStack']_vars
    BY PromptStep
  <1> QED
    BY <1>1, Invariance, PTL DEF Spec, PromptFollows

-----------------------------------------------------------------------------
(* PATH and the round trip.                                                *)

LEMMA PathIs ==
    /\ OwnDirs = Kept(path, {i \in 1..Len(path) : path[i] # Condabin})
    /\ \A old : WithoutPrefix(old) = Kept(path, {i \in 1..Len(path) : path[i] # old})
  BY DEF OwnDirs, WithoutPrefix

(* Two shown levels of one environment are what twice tells.               *)
NoneTwice ==
    \A i, j \in 1..shlvl : IsShown(i) /\ IsShown(j) /\ PrefixOf(i) = PrefixOf(j) => i = j
LEMMA DistinctShown == ShellInv /\ LevelsInv /\ NoneTwice => Distinct(PromptStack)
  <1> SUFFICES ASSUME ShellInv, LevelsInv, NoneTwice,
                      NEW a \in 1..Len(PromptStack), NEW b \in 1..Len(PromptStack),
                      PromptStack[a] = PromptStack[b]
               PROVE  a = b
    BY DEF Distinct
  <1> DEFINE envs == [i \in 1..shlvl |-> PrefixOf(i)]
  <1>1. shlvl \in Nat
    BY ActivationAssumption DEF ShellInv
  <1>2. ShownLevels \subseteq 1..shlvl /\ \A i \in ShownLevels : IsShown(i)
    BY DEF ShownLevels
  <1>3. Positions(ShownLevels)
    BY <1>1, <1>2, RowPositions
  <1>4. PromptStack = Kept(envs, ShownLevels)
    BY DEF PromptStack
  <1>5. \A i \in ShownLevels : envs[i] = PrefixOf(i)
    BY <1>2
  <1>6. Len(PromptStack) = Cardinality(ShownLevels)
    <2>1. EnvsAt(Shell, shlvl)
      BY EnvsInShell
    <2>2. \A i \in 1..shlvl : PrefixOf(i) \in Envs
      BY <2>1, ShellFields DEF EnvsAt, EnvOf, PrefixOf
    <2>3. Within(envs, ShownLevels, Envs)
      BY <1>2, <1>5, <2>2 DEF Within
    <2> QED
      BY <1>3, <1>4, <2>3, KeptType
  <1> HIDE DEF envs
  <1>7. /\ PromptStack[a] = envs[Kth(ShownLevels, a)]
        /\ PromptStack[b] = envs[Kth(ShownLevels, b)]
    BY <1>3, <1>4, <1>6, KeptElement
  <1>8. /\ Kth(ShownLevels, a) \in ShownLevels /\ Kth(ShownLevels, b) \in ShownLevels
        /\ Cardinality(UpTo(ShownLevels, Kth(ShownLevels, a))) = a
        /\ Cardinality(UpTo(ShownLevels, Kth(ShownLevels, b))) = b
    BY <1>3, <1>6, KthInSet
  <1>9. Kth(ShownLevels, a) = Kth(ShownLevels, b)
    BY <1>2, <1>5, <1>7, <1>8 DEF NoneTwice
  <1> QED
    BY <1>8, <1>9

(* A shell whose PATH shows its prompt fits its level.                     *)
LEMMA FitsNow == ShellInv /\ LevelsInv /\ PathShown /\ Distinct(PromptStack) => Fits(Shell, shlvl)
  <1> SUFFICES ASSUME ShellInv, LevelsInv, PathShown, Distinct(PromptStack)
               PROVE  Fits(Shell, shlvl)
    OBVIOUS
  <1>1. EnvsAt(Shell, shlvl) /\ shlvl \in Nat
    BY EnvsInShell, ActivationAssumption DEF ShellInv
  <1>2. PromptStack \in Seq(Envs) /\ PromptStack = PromptOf(Shell, shlvl)
    BY <1>1, PromptIs, PromptType
  <1>3. PICK users \in {1, 2} : Shows(path, PromptStack, users)
    BY DEF PathShown
  <1>4. Shows(OwnDirs, PromptStack, 1)
    BY <1>2, <1>3, OwnShows, PathIs
  <1>5. OwnDirs \in Seq(Envs \cup {System})
    <2>1. /\ Len(PromptStack) \in Nat /\ Len(OwnDirs) = Len(PromptStack) + 1
          /\ \A k \in 1..Len(PromptStack) : OwnDirs[k] \in Envs
          /\ OwnDirs[Len(OwnDirs)] = System /\ OwnDirs \in Seq(Dirs)
      BY <1>2, <1>4, ShowsTypes
    <2>2. \A k \in 1..Len(OwnDirs) : OwnDirs[k] \in Envs \cup {System}
      BY <2>1
    <2>3. OwnDirs \in [1..Len(OwnDirs) -> Envs \cup {System}]
      BY <2>1, <2>2, LenProperties
    <2> QED
      BY <2>1, <2>3, SeqDef
  <1>6. Shell \in Shells
    BY <1>5 DEF Shell, Shells, ShellInv
  <1> QED
    BY <1>1, <1>2, <1>4, <1>6, ShellFields DEF Fits, EnvsAt

(* The edits of PATH, when it shows a prompt.                              *)
LEMMA AddedShown ==
    ASSUME PathShown, PromptStack \in Seq(Envs), shlvl = 0 => PromptStack = <<>>,
           NEW e \in Envs, Distinct(Append(PromptStack, e))
    PROVE  \E users \in {1, 2} : Shows(AddPrefixToPath(e), Append(PromptStack, e), users)
  <1>1. PICK users \in {1, 2} : Shows(path, PromptStack, users)
    BY DEF PathShown
  <1>2. /\ path \in Seq(Dirs) /\ <<e>> \in Seq(Dirs) /\ <<Condabin>> \in Seq(Dirs)
        /\ Append(PromptStack, e) \in Seq(Envs)
    BY <1>1, AppendProperties DEF Shows, Dirs
  <1>3. ASSUME NEW dirs, NEW u, Shows(dirs, PromptStack, u)
        PROVE  /\ Shows(Unique(<<e>> \o dirs), Append(PromptStack, e), u) /\ u \in {1, 2}
    <2>1. Shows(<<e>> \o dirs, Append(PromptStack, e), u) /\ u \in {1, 2}
      <3>1. Shows(<<e>> \o dirs, Append(PromptStack, e), u)
        BY <1>3, PutShows
      <3>2. u \in {1, 2}
        BY <1>3 DEF Shows
      <3> QED
        BY <3>1, <3>2
    <2> QED
      BY <1>2, <2>1, UniqueShows
  <1>4. CASE shlvl = 0 /\ ~HasCondabin
    <2>1. PromptStack = <<>> /\ Len(PromptStack) = 0 /\ path[Len(path)] = System
      BY <1>1, <1>4 DEF Shows
    <2>2. users = 1
      <3> SUFFICES ASSUME users = 2 PROVE HasCondabin
        BY <1>1, <1>4
      <3>1. Len(path) = 2 /\ path[1] = Condabin
        <4>1. Len(path) = Len(PromptStack) + users /\ (users = 2 => path[Len(path) - 1] = Condabin)
          BY <1>1 DEF Shows
        <4>2. Len(path) = 2
          BY <2>1, <4>1
        <4> QED
          BY <4>1, <4>2
      <3> QED
        BY <3>1 DEF HasCondabin
    <2>3. Len(path) = 1
      BY <1>1, <2>1, <2>2 DEF Shows
    <2>4. /\ <<Condabin>> \o path \in Seq(Dirs) /\ Len(<<Condabin>> \o path) = 2
          /\ (<<Condabin>> \o path)[1] = Condabin /\ (<<Condabin>> \o path)[2] = path[1]
      <3>1. Len(<<Condabin>>) = 1 /\ <<Condabin>>[1] = Condabin
        OBVIOUS
      <3>2. /\ <<Condabin>> \o path \in Seq(Dirs)
            /\ Len(<<Condabin>> \o path) = Len(<<Condabin>>) + Len(path)
            /\ \A i \in 1..(Len(<<Condabin>>) + Len(path)) :
                 (<<Condabin>> \o path)[i] = IF i <= Len(<<Condabin>>) THEN <<Condabin>>[i]
                                             ELSE path[i - Len(<<Condabin>>)]
        BY <1>2, ConcatProperties
      <3>3. \A i \in 1..2 : (<<Condabin>> \o path)[i] = IF i <= 1 THEN <<Condabin>>[i] ELSE path[i - 1]
        BY <2>3, <3>1, <3>2
      <3> QED
        BY <2>3, <3>1, <3>2, <3>3
    <2>5. Shows(<<Condabin>> \o path, PromptStack, 2)
      BY <2>1, <2>3, <2>4 DEF Shows
    <2>6. AddPrefixToPath(e) = Unique(<<e>> \o (<<Condabin>> \o path))
      <3>1. AddPrefixToPath(e) = Unique((<<e>> \o <<Condabin>>) \o path)
        BY <1>4 DEF AddPrefixToPath
      <3>2. (<<e>> \o <<Condabin>>) \o path = <<e>> \o (<<Condabin>> \o path)
        BY <1>2, ConcatAssociative
      <3> QED
        BY <3>1, <3>2
    <2> QED
      BY <1>3, <2>5, <2>6
  <1>5. CASE ~(shlvl = 0 /\ ~HasCondabin)
    <2>1. <<e>> \o <<>> = <<e>>
      BY <1>2, ConcatEmptySeq
    <2>2. AddPrefixToPath(e) = Unique(<<e>> \o path)
      BY <1>5, <2>1 DEF AddPrefixToPath
    <2> QED
      BY <1>1, <1>3, <2>2
  <1> QED
    BY <1>4, <1>5

LEMMA RemovedShown ==
    ASSUME PathShown, NEW q \in Seq(Envs), NEW e \in Envs, PromptStack = Append(q, e),
           Distinct(PromptStack)
    PROVE  \E users \in {1, 2} : Shows(WithoutPrefix(e), q, users)
  <1>1. PICK users \in {1, 2} : Shows(path, PromptStack, users)
    BY DEF PathShown
  <1>2. Shows(Kept(path, {i \in 1..Len(path) : path[i] # e}), q, users)
    BY <1>1, WithoutShows
  <1> QED
    BY <1>2, PathIs

LEMMA ReplacedShown ==
    ASSUME PathShown, NEW q \in Seq(Envs), NEW old \in Envs, PromptStack = Append(q, old),
           Distinct(PromptStack), NEW new \in Envs, Distinct(Append(q, new))
    PROVE  \E users \in {1, 2} : Shows(ReplacePrefixInPath(old, new), Append(q, new), users)
  <1>1. PICK users \in {1, 2} : Shows(WithoutPrefix(old), q, users)
    BY RemovedShown
  <1>2. Shows(<<new>> \o WithoutPrefix(old), Append(q, new), users)
    BY <1>1, PutShows
  <1>3. Append(q, new) \in Seq(Envs)
    BY AppendProperties
  <1>4. Unique(<<new>> \o WithoutPrefix(old)) = <<new>> \o WithoutPrefix(old)
    BY <1>2, <1>3, UniqueShows
  <1> QED
    BY <1>2, <1>4 DEF ReplacePrefixInPath

-----------------------------------------------------------------------------
(* A step that enters, leaves or stays keeps what a return relies on.      *)

(* Entering an environment can be undone: what it overwrites is saved, and *)
(* what it takes from the environment it replaces is its own.              *)
LEMMA EnteringUndone ==
    ASSUME IInv, BookInv, NEW e \in Envs, NEW stacked \in BOOLEAN, Enters(e, stacked)
    PROVE  /\ UndoesLevels(Shell', Shell, shlvl + 1)
           /\ NothingMarked => UndoesValues(envVars, Shell', Shell, shlvl + 1)
  <1> DEFINE l == shlvl
  <1>1. /\ l \in Nat /\ l \in 0..MaxDepth /\ l < MaxDepth /\ l + 1 \in Levels /\ (l + 1) - 1 = l
        /\ (l > 0 => l \in Levels /\ prefix \in Envs) /\ (stacked => l > 0) /\ (l + 1 = 1 <=> l = 0)
        /\ (l + 1 > 1 <=> l > 0)
    BY ActivationAssumption DEF IInv, ShellInv, Enters, Levels
  <1>2. /\ prefixAt \in [Levels -> Envs \cup {None}] /\ stackedAt \in [Levels -> BOOLEAN]
        /\ value \in [Vars -> Values] /\ saved \in [0..MaxDepth -> [Vars -> Values]]
        /\ (l = 0 => prefix = None)
    BY DEF IInv, ShellInv, BookInv
  <1>3. /\ prefix' = e /\ saved' = SavedBelow(e)
        /\ prefixAt' = IF l = 0 THEN prefixAt ELSE [prefixAt EXCEPT ![l] = prefix]
        /\ stackedAt' = IF stacked THEN [stackedAt EXCEPT ![l + 1] = TRUE] ELSE stackedAt
        /\ value' = [v \in Vars |-> IF Exports(e, v) THEN e
                                    ELSE IF l = 0 \/ stacked THEN value[v] ELSE Restored(prefix, v)]
    BY DEF Enters
  <1>4. \A v \in Vars : saved[l][v] = None
    BY <1>1 DEF IInv, SavedInv
  <1>5. \A v \in Vars : saved'[l][v] = IF Exports(e, v) /\ value[v] # None THEN value[v] ELSE None
    BY <1>1, <1>2, <1>3, <1>4 DEF SavedBelow
  <1>6. NothingMarked => \A f \in Envs, v \in Vars :
                           (Exports(f, v) <=> Defines(f, v)) /\ (Defines(f, v) => envVars[f][v] = f)
    BY ActivationAssumption DEF NothingMarked, Exports, Defines
  <1>7. prefix = IF l + 1 = 1 THEN None ELSE prefixAt'[(l + 1) - 1]
    BY <1>1, <1>2, <1>3
  <1>8. prefixAt = IF l + 1 = 1 THEN prefixAt' ELSE [prefixAt' EXCEPT ![(l + 1) - 1] = None]
    <2>1. CASE l = 0
      BY <1>1, <1>3, <2>1
    <2>2. CASE l > 0
      <3>1. prefixAt[l] = None /\ l + 1 # 1
        BY <1>1, <2>2 DEF IInv, LevelsInv
      <3>2. prefixAt' = [prefixAt EXCEPT ![l] = prefix]
        BY <1>3, <2>2
      <3>3. [prefixAt' EXCEPT ![l] = None] = prefixAt
        BY <1>1, <1>2, <2>2, <3>1, <3>2
      <3> QED
        BY <1>1, <3>1, <3>3
    <2> QED
      BY <1>1, <2>1, <2>2
  <1>9. stackedAt = IF l + 1 = 1 THEN stackedAt' ELSE [stackedAt' EXCEPT ![l + 1] = FALSE]
    <2>1. CASE l = 0
      BY <1>1, <1>3, <2>1
    <2>2. CASE l > 0
      <3>1. stackedAt[l + 1] = FALSE /\ l + 1 # 1
        BY <1>1, <1>2, <2>2 DEF IInv, LevelsInv
      <3>2. stackedAt' = [stackedAt EXCEPT ![l + 1] = TRUE] \/ stackedAt' = stackedAt
        BY <1>3
      <3>3. [stackedAt' EXCEPT ![l + 1] = FALSE] = stackedAt
        BY <1>1, <1>2, <3>1, <3>2
      <3> QED
        BY <3>1, <3>3
    <2> QED
      BY <1>1, <2>1, <2>2
  <1>10. ASSUME NothingMarked, NEW v \in Vars PROVE value[v] = ReturnedTo(envVars, Shell', l + 1, v)
    <2>1. /\ Shell'.prefix = e /\ Shell'.prefixAt = prefixAt' /\ Shell'.saved = saved'
          /\ Shell'.value = value'
      BY <1>3, NextShellFields
    <2>2. ReturnedTo(envVars, Shell', l + 1, v) =
            IF Defines(e, v) /\ saved'[l][v] # None THEN saved'[l][v]
            ELSE IF l > 0 /\ Defines(prefixAt'[l], v) THEN envVars[prefixAt'[l]][v]
            ELSE IF Defines(e, v) THEN None ELSE value'[v]
      BY <1>1, <2>1 DEF ReturnedTo, Defines
    <2>3. l > 0 => prefixAt'[l] = prefix
      BY <1>1, <1>2, <1>3
    <2>4. l > 0 /\ Defines(prefix, v) => value[v] = prefix /\ envVars[prefix][v] = prefix
      BY <1>1, <1>6, <1>10 DEF IInv, OwnValues
    <2>5. CASE Defines(e, v) /\ value[v] # None
      BY <1>5, <1>6, <1>10, <2>2, <2>5
    <2>6. CASE Defines(e, v) /\ value[v] = None
      <3>1. saved'[l][v] = None
        BY <1>5, <2>6
      <3> QED
        BY <2>2, <2>3, <2>4, <2>6, <3>1
    <2>7. CASE ~Defines(e, v)
      <3>1. value'[v] = IF l = 0 \/ stacked THEN value[v] ELSE Restored(prefix, v)
        BY <1>3, <1>6, <1>10, <2>7
      <3>2. ~(l > 0 /\ Defines(prefix, v)) => value'[v] = value[v]
        BY <1>1, <3>1 DEF Restored
      <3> QED
        BY <2>2, <2>3, <2>4, <2>7, <3>2
    <2> QED
      BY <2>5, <2>6, <2>7
  <1>11. NothingMarked => value = [v \in Vars |-> ReturnedTo(envVars, Shell', l + 1, v)]
    BY <1>2, <1>10
  <1>12. saved = [saved' EXCEPT ![(l + 1) - 1] =
                   [v \in Vars |-> IF envVars[e][v] # None THEN None ELSE @[v]]]
    <2>1. saved' \in [0..MaxDepth -> [Vars -> Values]] /\ \A k \in 0..MaxDepth : k # l => saved'[k] = saved[k]
      BY <1>1, <1>2, <1>3 DEF SavedBelow
    <2>2. saved[l] = [v \in Vars |-> IF envVars[e][v] # None THEN None ELSE saved'[l][v]]
      <3>1. \A v \in Vars : envVars[e][v] = None => saved'[l][v] = None
        BY <1>5 DEF Exports
      <3> QED
        BY <1>1, <1>2, <1>4, <3>1
    <2> QED
      BY <1>1, <1>2, <2>1, <2>2
  <1> QED
    <2>1. Shell.prefix = IF l + 1 = 1 THEN None ELSE Shell'.prefixAt[(l + 1) - 1]
      BY <1>7, ShellFields, NextShellFields
    <2>2. Shell.prefixAt = IF l + 1 = 1 THEN Shell'.prefixAt ELSE [Shell'.prefixAt EXCEPT ![(l + 1) - 1] = None]
      BY <1>8, ShellFields, NextShellFields
    <2>3. Shell.stackedAt = IF l + 1 = 1 THEN Shell'.stackedAt ELSE [Shell'.stackedAt EXCEPT ![l + 1] = FALSE]
      BY <1>9, ShellFields, NextShellFields, Zenon
    <2>4. NothingMarked => Shell.value = [v \in Vars |-> ReturnedTo(envVars, Shell', l + 1, v)]
      BY <1>11, ShellFields
    <2>5. Shell.saved = [Shell'.saved EXCEPT ![(l + 1) - 1] =
                           [v \in Vars |-> IF envVars[Shell'.prefix][v] # None THEN None ELSE @[v]]]
      BY <1>3, <1>12, ShellFields, NextShellFields
    <2> HIDE DEF l
    <2>6. UndoesLevels(Shell', Shell, l + 1)
      BY <2>1, <2>2, <2>3, Zenon DEF UndoesLevels
    <2>7. NothingMarked => UndoesValues(envVars, Shell', Shell, l + 1)
      BY <2>4, <2>5, Zenon DEF UndoesValues
    <2> QED
      BY <2>6, <2>7 DEF l

(* Leaving does undo the level.                                            *)
LEMMA LeavingUndoes ==
    ASSUME IInv, Leaves
    PROVE  UndoesLevels(Shell, Shell', shlvl) /\ UndoesValues(envVars, Shell, Shell', shlvl)
  <1>1. shlvl \in Nat /\ shlvl > 0 /\ (LeftFirst \/ \E shown : LeftAbove(shown)) /\ Left
    BY ActivationAssumption DEF Leaves, IInv, ShellInv
  <1>2. prefix' = IF shlvl = 1 THEN None ELSE prefixAt[shlvl - 1]
    BY <1>1 DEF LeftFirst, LeftAbove
  <1>3. prefixAt' = IF shlvl = 1 THEN prefixAt ELSE [prefixAt EXCEPT ![shlvl - 1] = None]
    BY <1>1 DEF LeftFirst, LeftAbove
  <1>4. stackedAt' = IF shlvl = 1 THEN stackedAt ELSE [stackedAt EXCEPT ![shlvl] = FALSE]
    BY <1>1 DEF LeftFirst, LeftAbove
  <1>5. value' = [v \in Vars |-> ReturnedTo(envVars, Shell, shlvl, v)]
    <2>1. \A v \in Vars : Returned(v) = ReturnedTo(envVars, Shell, shlvl, v)
      BY ShellFields DEF Returned, ReturnedTo, Defines
    <2>2. value' = [v \in Vars |-> Returned(v)]
      BY <1>1 DEF Left
    <2> QED
      BY <2>1, <2>2
  <1>6. saved' = [saved EXCEPT ![shlvl - 1] = [v \in Vars |-> IF envVars[prefix][v] # None THEN None ELSE @[v]]]
    BY <1>1 DEF Left, SavedLeft, Defines
  <1> QED
    <2>1. Shell'.prefix = IF shlvl = 1 THEN None ELSE Shell.prefixAt[shlvl - 1]
      BY <1>2, ShellFields, NextShellFields
    <2>2. Shell'.prefixAt = IF shlvl = 1 THEN Shell.prefixAt ELSE [Shell.prefixAt EXCEPT ![shlvl - 1] = None]
      BY <1>3, ShellFields, NextShellFields
    <2>3. Shell'.stackedAt = IF shlvl = 1 THEN Shell.stackedAt ELSE [Shell.stackedAt EXCEPT ![shlvl] = FALSE]
      BY <1>4, ShellFields, NextShellFields, Zenon
    <2>4. Shell'.value = [v \in Vars |-> ReturnedTo(envVars, Shell, shlvl, v)]
      BY <1>5, NextShellFields
    <2>5. Shell'.saved = [Shell.saved EXCEPT ![shlvl - 1] =
                            [v \in Vars |-> IF envVars[Shell.prefix][v] # None THEN None ELSE @[v]]]
      BY <1>6, ShellFields, NextShellFields
    <2> QED
      BY <2>1, <2>2, <2>3, <2>4, <2>5, Zenon DEF UndoesLevels, UndoesValues

LEMMA NextFits ==
    ASSUME IInv', PathShown', Distinct(PromptStack') PROVE Fits(Shell', shlvl')
  <1>1. (ShellInv /\ LevelsInv /\ PathShown /\ Distinct(PromptStack) => Fits(Shell, shlvl))'
    BY FitsNow, PTL
  <1> QED
    BY <1>1 DEF IInv

LEMMA NextDistinct == ASSUME IInv', NoneTwice' PROVE Distinct(PromptStack')
  <1>1. (ShellInv /\ LevelsInv /\ NoneTwice => Distinct(PromptStack))'
    BY DistinctShown, PTL
  <1> QED
    BY <1>1 DEF IInv

(* The shell of the level that is entered is the only one to be added.     *)
LEMMA RoundEntered ==
    ASSUME IInv, IInv', BookInv, RoundInv,
           NEW e \in Envs, NEW stacked \in BOOLEAN, Enters(e, stacked)
    PROVE  RoundInv'
  <1> SUFFICES ASSUME ~twice'
               PROVE  /\ PathShown'
                      /\ (\A l \in 0..shlvl : Fits(ShellAt(l), l))'
                      /\ (\A l \in 1..shlvl : UndoesLevels(ShellAt(l), ShellAt(l - 1), l))'
                      /\ (NothingMarked =>
                            \A l \in 1..shlvl : UndoesValues(envVars, ShellAt(l), ShellAt(l - 1), l))'
    BY DEF RoundInv
  <1>1. /\ twice' = (twice \/ \E i, j \in 1..shlvl' : i # j /\ IsShown(i)' /\ IsShown(j)'
                                                        /\ PrefixOf(i)' = PrefixOf(j)')
        /\ path' = IF shlvl = 0 \/ stacked THEN AddPrefixToPath(e) ELSE ReplacePrefixInPath(prefix, e)
        /\ before' = [before EXCEPT ![shlvl] = Shell] /\ envVars' = envVars
        /\ shlvl \in Nat /\ shlvl \in 0..MaxDepth /\ shlvl' = shlvl + 1 /\ (shlvl > 0 => prefix \in Envs)
    BY ActivationAssumption DEF Enters, IInv, ShellInv
  <1>2. ~twice /\ NoneTwice'
    BY <1>1 DEF NoneTwice
  <1>3. /\ PathShown
        /\ \A l \in 0..shlvl : Fits(ShellAt(l), l)
        /\ \A l \in 1..shlvl : UndoesLevels(ShellAt(l), ShellAt(l - 1), l)
        /\ NothingMarked =>
             \A l \in 1..shlvl : UndoesValues(envVars, ShellAt(l), ShellAt(l - 1), l)
    BY <1>2 DEF RoundInv
  <1>4. /\ PromptStack \in Seq(Envs) /\ Popped(PromptStack) \in Seq(Envs)
        /\ shlvl > 0 => PromptStack = Append(Popped(PromptStack), prefix)
        /\ shlvl = 0 => PromptStack = <<>> /\ Popped(PromptStack) = <<>>
        /\ PromptStack' = Append(IF stacked THEN PromptStack ELSE Popped(PromptStack), e)
    BY EnteringShown
  <1>5. Distinct(PromptStack')
    BY <1>2, NextDistinct
  <1>6. Distinct(PromptStack)
    <2>1. Fits(Shell, shlvl)
      BY <1>1, <1>3 DEF ShellAt
    <2> QED
      BY <2>1, PromptIs DEF Fits
  <1>7. \E users \in {1, 2} : Shows(path', PromptStack', users)
    <2>1. CASE shlvl = 0 \/ stacked
      <3>1. PromptStack' = Append(PromptStack, e) /\ path' = AddPrefixToPath(e)
        BY <1>1, <1>4, <2>1
      <3> QED
        BY <1>3, <1>4, <1>5, <3>1, AddedShown
    <2>2. CASE shlvl > 0 /\ ~stacked
      <3>1. PromptStack' = Append(Popped(PromptStack), e) /\ path' = ReplacePrefixInPath(prefix, e)
        BY <1>1, <1>4, <2>2
      <3>2. PromptStack = Append(Popped(PromptStack), prefix) /\ prefix \in Envs
        BY <1>1, <1>4, <2>2
      <3> QED
        BY <1>3, <1>4, <1>5, <1>6, <3>1, <3>2, ReplacedShown
    <2> QED
      BY <1>1, <2>1, <2>2
  <1>8. PathShown'
    BY <1>7 DEF PathShown
  <1>9. Fits(Shell', shlvl')
    BY <1>5, <1>8, NextFits
  <1>10. /\ UndoesLevels(Shell', Shell, shlvl + 1)
         /\ NothingMarked => UndoesValues(envVars, Shell', Shell, shlvl + 1)
    BY EnteringUndone
  <1>11. \A l \in 0..shlvl : ShellAt(l)' = ShellAt(l)
    <2> SUFFICES ASSUME NEW l \in 0..shlvl PROVE ShellAt(l)' = ShellAt(l)
      OBVIOUS
    <2>1. l # shlvl' /\ l \in 0..MaxDepth
      BY <1>1, ActivationAssumption
    <2>2. before'[l] = IF l = shlvl THEN Shell ELSE before[l]
      BY <1>1, <2>1 DEF BookInv
    <2> QED
      BY <2>1, <2>2 DEF ShellAt
  <1>12. (\A l : l = shlvl' => ShellAt(l)' = Shell') /\ ShellAt(shlvl) = Shell
    BY DEF ShellAt
  <1>13. \A l \in 0..shlvl' : Fits(ShellAt(l)', l)
    <2> SUFFICES ASSUME NEW l \in 0..shlvl' PROVE Fits(ShellAt(l)', l)
      OBVIOUS
    <2>1. l \in 0..shlvl \/ l = shlvl'
      BY <1>1
    <2> QED
      BY <1>3, <1>9, <1>11, <1>12, <2>1
  <1>14. ASSUME NEW l \in 1..shlvl'
         PROVE  \/ l \in 1..shlvl /\ ShellAt(l)' = ShellAt(l) /\ ShellAt(l - 1)' = ShellAt(l - 1)
                \/ l = shlvl + 1 /\ ShellAt(l)' = Shell' /\ ShellAt(l - 1)' = Shell
    <2>1. l - 1 \in 0..shlvl /\ (l \in 1..shlvl \/ (l = shlvl' /\ l = shlvl + 1 /\ l - 1 = shlvl))
      BY <1>1
    <2>2. l \in 1..shlvl => l \in 0..shlvl
      BY <1>1
    <2> QED
      BY <1>11, <1>12, <2>1, <2>2
  <1>15. \A l \in 1..shlvl' : UndoesLevels(ShellAt(l)', ShellAt(l - 1)', l)
    BY <1>3, <1>10, <1>14
  <1>16. NothingMarked' => \A l \in 1..shlvl' : UndoesValues(envVars', ShellAt(l)', ShellAt(l - 1)', l)
    <2>1. NothingMarked' => NothingMarked
      BY <1>1 DEF NothingMarked
    <2> QED
      BY <1>1, <1>3, <1>10, <1>14, <2>1
  <1> QED
    BY <1>8, <1>13, <1>15, <1>16

(* Shells of one level that are left from the same one are the same.       *)
LEMMA SameShell ==
    ASSUME NEW sh, NEW other, NEW l, Fits(sh, l), Fits(other, l), PromptOf(sh, l) \in Seq(Envs),
           sh.prefix = other.prefix, sh.prefixAt = other.prefixAt, sh.stackedAt = other.stackedAt,
           sh.value = other.value, sh.saved = other.saved
    PROVE  sh = other
  <1>1. PromptOf(sh, l) = PromptOf(other, l)
    BY SamePrompt
  <1>2. sh.path = other.path
    BY <1>1, SameShows DEF Fits
  <1>3. sh \in Shells /\ other \in Shells
    BY DEF Fits
  <1> QED
    BY <1>2, <1>3 DEF Shells

(* Leaving a level returns to the shell from before it was entered.        *)
LEMMA RoundLeft ==
    ASSUME IInv, IInv', BookInv, RoundInv, Leaves, ~twice
    PROVE  /\ PathShown' /\ Fits(Shell', shlvl')
           /\ UndoesLevels(Shell, before[shlvl'], shlvl) /\ UndoesLevels(Shell, Shell', shlvl)
           /\ NothingMarked => Shell' = before[shlvl']
  <1>1. /\ PathShown
        /\ \A l \in 0..shlvl : Fits(ShellAt(l), l)
        /\ \A l \in 1..shlvl : UndoesLevels(ShellAt(l), ShellAt(l - 1), l)
        /\ NothingMarked =>
             \A l \in 1..shlvl : UndoesValues(envVars, ShellAt(l), ShellAt(l - 1), l)
    BY DEF RoundInv
  <1>2. /\ PromptStack' \in Seq(Envs) /\ Popped(PromptStack') \in Seq(Envs)
        /\ shlvl' > 0 => PromptStack' = Append(Popped(PromptStack'), prefix')
        /\ shlvl' = 0 => PromptStack' = <<>>
        /\ PromptStack = Append(IF stackedAt[shlvl] THEN PromptStack' ELSE Popped(PromptStack'), prefix)
        /\ shlvl' \in Nat /\ shlvl = shlvl' + 1 /\ prefix \in Envs
        /\ shlvl' = 0 => ~stackedAt[shlvl]
    BY LeavingShown
  <1>3. PICK low : low = before[shlvl']
    OBVIOUS
  <1>4. PICK l \in Nat : l = shlvl' /\ shlvl - 1 = l /\ shlvl \in Nat \ {0}
    <2>1. shlvl' = shlvl - 1 /\ shlvl \in Nat \ {0} /\ shlvl - 1 \in Nat
      <3>1. shlvl' = shlvl - 1
        BY LeftLevels DEF LevelLeft, IInv
      <3>2. shlvl \in Nat \ {0}
        BY ActivationAssumption DEF Leaves, IInv, ShellInv
      <3> QED
        BY <3>1, <3>2
    <2> QED
      BY <2>1
  <1>5. /\ Fits(low, l) /\ UndoesLevels(Shell, low, shlvl) /\ Fits(Shell, shlvl)
        /\ NothingMarked => UndoesValues(envVars, Shell, low, shlvl)
    <2>1. ShellAt(l) = low /\ ShellAt(shlvl) = Shell
      <3>1. l # shlvl
        BY <1>4
      <3> QED
        BY <1>3, <1>4, <3>1 DEF ShellAt
    <2>2. shlvl \in 1..shlvl /\ shlvl \in 0..shlvl /\ l \in 0..shlvl /\ shlvl - 1 = l
      BY <1>4
    <2> QED
      BY <1>1, <2>1, <2>2
  <1>6. UndoesLevels(Shell, Shell', shlvl) /\ UndoesValues(envVars, Shell, Shell', shlvl)
    BY LeavingUndoes
  <1>7. /\ Shell'.prefix = low.prefix /\ Shell'.prefixAt = low.prefixAt
        /\ Shell'.stackedAt = low.stackedAt
        /\ NothingMarked => Shell'.value = low.value /\ Shell'.saved = low.saved
    BY <1>5, <1>6, Zenon DEF UndoesLevels, UndoesValues
  <1>8. Distinct(PromptStack') /\ Distinct(PromptStack)
    <2>1. PromptOf(Shell', l) = PromptOf(low, l)
      BY <1>7, SamePrompt
    <2> QED
      BY <1>4, <1>5, <2>1, PromptIs, NextPromptIs DEF Fits
  <1>9. PathShown'
    <2>1. \E users \in {1, 2} : Shows(path', PromptStack', users)
      <3>1. CASE shlvl' = 0 \/ stackedAt[shlvl]
        <4>1. path' = Unique(WithoutPrefix(prefix))
          <5>1. LeftFirst \/ \E shown : LeftAbove(shown)
            BY DEF Leaves
          <5>2. CASE LeftFirst
            BY <5>2 DEF LeftFirst, RemovePrefixFromPath
          <5>3. ASSUME NEW shown, LeftAbove(shown) PROVE path' = Unique(WithoutPrefix(prefix))
            <6>1. shlvl > 1 /\ path' = IF stackedAt[shlvl] THEN RemovePrefixFromPath(prefix)
                                        ELSE ReplacePrefixInPath(prefix, prefixAt[shlvl - 1])
              BY <5>3 DEF LeftAbove
            <6>2. stackedAt[shlvl]
              <7>1. shlvl' # 0
                BY <1>4, <6>1
              <7> QED
                BY <3>1, <7>1
            <6> QED
              BY <6>1, <6>2 DEF RemovePrefixFromPath
          <5> QED
            BY <5>1, <5>2, <5>3
        <4>2. PromptStack = Append(PromptStack', prefix)
          BY <1>2, <3>1 DEF Popped
        <4>3. PICK users \in {1, 2} : Shows(WithoutPrefix(prefix), PromptStack', users)
          BY <1>1, <1>2, <1>8, <4>2, RemovedShown
        <4>4. Unique(WithoutPrefix(prefix)) = WithoutPrefix(prefix)
          BY <1>2, <1>8, <4>3, UniqueShows
        <4> QED
          BY <4>1, <4>3, <4>4
      <3>2. CASE shlvl' > 0 /\ ~stackedAt[shlvl]
        <4>1. path' = ReplacePrefixInPath(prefix, prefix')
          <5>1. shlvl # 1 /\ (LeftFirst \/ \E shown : LeftAbove(shown))
            <6>1. shlvl # 1
              BY <1>4, <3>2
            <6> QED
              BY <6>1 DEF Leaves
          <5>2. PICK shown : LeftAbove(shown)
            BY <5>1 DEF LeftFirst
          <5>3. /\ path' = IF stackedAt[shlvl] THEN RemovePrefixFromPath(prefix)
                           ELSE ReplacePrefixInPath(prefix, prefixAt[shlvl - 1])
                /\ prefix' = prefixAt[shlvl - 1]
            BY <5>2 DEF LeftAbove
          <5> QED
            BY <3>2, <5>3
        <4>2. PromptStack = Append(Popped(PromptStack'), prefix) /\ PromptStack' = Append(Popped(PromptStack'), prefix')
          BY <1>2, <3>2
        <4>3. prefix' \in Envs
          BY <3>2 DEF IInv, ShellInv
        <4> QED
          BY <1>1, <1>2, <1>8, <4>1, <4>2, <4>3, ReplacedShown
      <3> QED
        BY <1>2, <3>1, <3>2
    <2> QED
      BY <2>1 DEF PathShown
  <1>10. Fits(Shell', shlvl')
    BY <1>8, <1>9, NextFits
  <1>11. NothingMarked => Shell' = low
    <2>1. PromptOf(Shell', l) \in Seq(Envs)
      BY <1>2, <1>4, NextPromptIs
    <2> QED
      BY <1>4, <1>5, <1>7, <1>10, <2>1, SameShell
  <1> QED
    BY <1>3, <1>5, <1>6, <1>9, <1>10, <1>11

(* The shell of the level below is the one that was there before.          *)
LEMMA RoundReturned ==
    ASSUME IInv, IInv', BookInv, RoundInv, Leaves
    PROVE  RoundInv'
  <1> SUFFICES ASSUME ~twice'
               PROVE  /\ PathShown'
                      /\ (\A l \in 0..shlvl : Fits(ShellAt(l), l))'
                      /\ (\A l \in 1..shlvl : UndoesLevels(ShellAt(l), ShellAt(l - 1), l))'
                      /\ (NothingMarked =>
                            \A l \in 1..shlvl : UndoesValues(envVars, ShellAt(l), ShellAt(l - 1), l))'
    BY DEF RoundInv
  <1>1. ~twice /\ envVars' = envVars /\ before' = [before EXCEPT ![shlvl - 1] = None]
    BY DEF Leaves, Left
  <1>2. PICK l \in Nat : l = shlvl' /\ shlvl - 1 = l /\ l \in 0..MaxDepth
    <2>1. shlvl' = shlvl - 1 /\ shlvl' \in 0..MaxDepth
      BY LeftLevels DEF LevelLeft, IInv
    <2> QED
      BY <2>1, ActivationAssumption
  <1>3. PICK top \in Nat : top = shlvl /\ top = l + 1
    <2>1. PICK n \in Nat : n = shlvl
      BY ActivationAssumption DEF IInv, ShellInv
    <2>2. n - 1 = l
      BY <1>2, <2>1
    <2>3. n = l + 1
      BY <2>2
    <2> QED
      BY <2>1, <2>3
  <1>4. PICK low : low = before[l]
    OBVIOUS
  <1>5. /\ PathShown' /\ Fits(Shell', l)
        /\ UndoesLevels(Shell, low, shlvl) /\ UndoesLevels(Shell, Shell', shlvl)
        /\ NothingMarked => Shell' = low
    BY <1>1, <1>2, <1>4, RoundLeft
  <1>6. /\ Shell'.prefix = low.prefix /\ Shell'.prefixAt = low.prefixAt
        /\ Shell'.stackedAt = low.stackedAt
    BY <1>5, Zenon DEF UndoesLevels
  <1>7. /\ \A k \in 0..top : Fits(ShellAt(k), k)
        /\ \A k \in 1..top : UndoesLevels(ShellAt(k), ShellAt(k - 1), k)
        /\ NothingMarked =>
             \A k \in 1..top : UndoesValues(envVars, ShellAt(k), ShellAt(k - 1), k)
    BY <1>1, <1>3 DEF RoundInv
  <1>8. ShellAt(l) = low
    <2>1. l # shlvl
      BY <1>3
    <2> QED
      BY <1>4, <2>1 DEF ShellAt
  <1>9. \A k \in 0..l : k # l => ShellAt(k)' = ShellAt(k)
    <2> SUFFICES ASSUME NEW k \in 0..l, k # l PROVE ShellAt(k)' = ShellAt(k)
      OBVIOUS
    <2>1. k # shlvl /\ k # shlvl' /\ k # shlvl - 1 /\ k \in 0..MaxDepth
      <3>1. k # top
        <4>1. top = l + 1
          BY <1>3
        <4> QED
          BY <4>1
      <3>2. k \in 0..MaxDepth
        <4>1. l \in 0..MaxDepth
          BY <1>2
        <4> QED
          BY <4>1, ActivationAssumption
      <3> QED
        BY <1>2, <1>3, <3>1, <3>2, Zenon
    <2>2. before'[k] = before[k]
      BY <1>1, <2>1 DEF BookInv
    <2> QED
      BY <2>1, <2>2 DEF ShellAt
  <1>10. ShellAt(l)' = Shell'
    BY <1>2 DEF ShellAt
  <1>11. \A k \in 0..l : Fits(ShellAt(k)', k)
    <2> SUFFICES ASSUME NEW k \in 0..l PROVE Fits(ShellAt(k)', k)
      OBVIOUS
    <2>1. k \in 0..top
      BY <1>3
    <2> QED
      BY <1>5, <1>7, <1>9, <1>10, <2>1
  <1>12. ASSUME NEW k \in 1..l
         PROVE  /\ k \in 1..top /\ ShellAt(k - 1)' = ShellAt(k - 1)
                /\ k # l => ShellAt(k)' = ShellAt(k)
    <2>1. k \in 1..top /\ k - 1 \in 0..l /\ k - 1 # l /\ k \in 0..l
      BY <1>3
    <2> QED
      BY <1>9, <2>1
  <1>13. \A k \in 1..l : UndoesLevels(ShellAt(k)', ShellAt(k - 1)', k)
    <2> SUFFICES ASSUME NEW k \in 1..l PROVE UndoesLevels(ShellAt(k)', ShellAt(k - 1)', k)
      OBVIOUS
    <2>1. UndoesLevels(ShellAt(k), ShellAt(k - 1), k)
      BY <1>7, <1>12
    <2>2. CASE k # l
      BY <1>12, <2>1, <2>2
    <2>3. CASE k = l
      <3>1. PICK down : down = ShellAt(k - 1) /\ down = ShellAt(k - 1)'
        BY <1>12
      <3>2. UndoesLevels(low, down, k)
        BY <1>8, <2>1, <2>3, <3>1
      <3>3. UndoesLevels(Shell', down, k)
        BY <1>6, <3>2, Zenon DEF UndoesLevels
      <3> QED
        BY <1>10, <2>3, <3>1, <3>3
    <2> QED
      BY <2>2, <2>3
  <1>14. NothingMarked' => \A k \in 1..l : UndoesValues(envVars', ShellAt(k)', ShellAt(k - 1)', k)
    <2> SUFFICES ASSUME NothingMarked', NEW k \in 1..l
                 PROVE  UndoesValues(envVars', ShellAt(k)', ShellAt(k - 1)', k)
      OBVIOUS
    <2>1. NothingMarked
      BY <1>1 DEF NothingMarked
    <2>2. UndoesValues(envVars, ShellAt(k), ShellAt(k - 1), k)
      BY <1>7, <1>12, <2>1
    <2>3. ShellAt(k)' = ShellAt(k)
      BY <1>5, <1>8, <1>10, <1>12, <2>1
    <2> QED
      BY <1>1, <1>12, <2>2, <2>3
  <1> QED
    BY <1>2, <1>5, <1>11, <1>13, <1>14

(* A reactivation leaves PATH as it is.                                    *)
LEMMA SamePath ==
    ASSUME IInv, PathShown, Distinct(PromptStack), shlvl > 0
    PROVE  ReplacePrefixInPath(prefix, prefix) = path
  <1>1. shlvl \in Nat \ {0} /\ EnvsAt(Shell, shlvl)
    BY EnvsInShell, ActivationAssumption DEF IInv, ShellInv
  <1>2. PICK q : q = Kept(EnvsOf(Shell, shlvl), Under(Shell, shlvl))
    OBVIOUS
  <1>3. q \in Seq(Envs) /\ prefix \in Envs /\ PromptStack = Append(q, prefix)
    BY <1>1, <1>2, PromptTop, PromptIs, ShellFields
  <1>4. PICK users \in {1, 2} : Shows(path, PromptStack, users)
    BY DEF PathShown
  <1>5. Shows(WithoutPrefix(prefix), q, users)
    <2>1. Shows(Kept(path, {i \in 1..Len(path) : path[i] # prefix}), q, users)
      BY <1>3, <1>4, WithoutShows
    <2> QED
      BY <2>1, PathIs
  <1>6. Shows(<<prefix>> \o WithoutPrefix(prefix), PromptStack, users)
    BY <1>3, <1>5, PutShows
  <1>7. PromptStack \in Seq(Envs)
    BY <1>3, AppendProperties
  <1>8. Unique(<<prefix>> \o WithoutPrefix(prefix)) = <<prefix>> \o WithoutPrefix(prefix)
    BY <1>6, <1>7, UniqueShows
  <1>9. <<prefix>> \o WithoutPrefix(prefix) = path
    BY <1>4, <1>6, <1>7, SameShows
  <1> QED
    BY <1>8, <1>9 DEF ReplacePrefixInPath

LEMMA RoundStays == ASSUME IInv, BookInv, RoundInv, Stays PROVE RoundInv'
  <1>1. CASE twice
    BY <1>1 DEF Stays, RoundInv
  <1>2. CASE ~twice
    <2>1. PathShown /\ Fits(Shell, shlvl)
      <3>1. shlvl \in 0..shlvl
        BY ActivationAssumption DEF IInv, ShellInv
      <3> QED
        BY <1>2, <3>1 DEF RoundInv, ShellAt
    <2>2. Distinct(PromptStack)
      BY <2>1, PromptIs DEF Fits
    <2>3. path' = path
      BY <2>1, <2>2, SamePath DEF Stays
    <2>4. /\ envVars' = envVars /\ prefix' = prefix /\ shlvl' = shlvl /\ prefixAt' = prefixAt
          /\ stackedAt' = stackedAt /\ value' = value /\ saved' = saved /\ before' = before
          /\ twice' = twice
      BY DEF Stays, conda
    <2>5. Shell' = Shell
      BY <2>3, <2>4 DEF Shell, OwnDirs
    <2>6. \A l : ShellAt(l)' = ShellAt(l)
      BY <2>4, <2>5 DEF ShellAt
    <2>7. PathShown' /\ (NothingMarked' <=> NothingMarked)
      BY <2>1, <2>3, <2>4, StayingShown DEF PathShown, NothingMarked
    <2> QED
      BY <1>2, <2>4, <2>6, <2>7 DEF RoundInv
  <1> QED
    BY <1>1, <1>2

(* The history of the shell is kept for levels that exist.                 *)
LEMMA BookKept == ASSUME IInv, IInv', BookInv, [Next]_vars PROVE BookInv'
  <1>1. ASSUME NEW e \in Envs, NEW stacked \in BOOLEAN, Enters(e, stacked) PROVE BookInv'
    <2>1. shlvl' # 0
      <3>1. shlvl' \in 1..MaxDepth
        BY <1>1, EnteredLevels, Zenon DEF IInv
      <3> QED
        BY <3>1, ActivationAssumption
    <2>2. before' = [before EXCEPT ![shlvl] = Shell] /\ DOMAIN before = 0..MaxDepth
      BY <1>1 DEF Enters, BookInv
    <2>3. twice' \in BOOLEAN
      <3>1. twice' = (twice \/ \E i, j \in 1..shlvl' : i # j /\ IsShown(i)' /\ IsShown(j)'
                                                    /\ PrefixOf(i)' = PrefixOf(j)')
        BY <1>1 DEF Enters
      <3> QED
        BY <3>1, Zenon
    <2> QED
      BY <2>1, <2>2, <2>3 DEF BookInv
  <1>2. CASE Leaves
    <2>1. (shlvl' = 0 => prefix' = None)
      BY <1>2, LeftLevels DEF LevelLeft, IInv
    <2>2. before' = [before EXCEPT ![shlvl - 1] = None] /\ twice' = twice
      BY <1>2 DEF Leaves, Left
    <2> QED
      BY <2>1, <2>2 DEF BookInv
  <1>3. CASE Stays
    BY <1>3 DEF Stays, conda, BookInv
  <1> QED
    BY <1>1, <1>2, <1>3, Steps DEF IInv

LEMMA RoundInitially == Init => RoundInv /\ BookInv
  <1> SUFFICES ASSUME Init PROVE RoundInv /\ BookInv
    OBVIOUS
  <1>1. shlvl = 0 /\ prefix = None /\ twice = FALSE /\ before = [i \in 0..MaxDepth |-> None]
        /\ path \in {<<System>>, <<Condabin, System>>}
    BY DEF Init
  <1>2. IInv
    BY Initially
  <1>3. PromptStack = <<>> /\ <<>> \in Seq(Envs) /\ Len(<<>>) = 0
    BY <1>1, PromptIs, NothingShown, EmptySeq
  <1>4. PathShown
    <2>1. System \in Dirs /\ Condabin \in Dirs
      BY DEF Dirs
    <2>2. CASE path = <<System>>
      <3>1. path \in Seq(Dirs) /\ Len(path) = 1 /\ path[1] = System
        BY <2>1, <2>2
      <3>2. Shows(path, <<>>, 1)
        BY <1>3, <3>1 DEF Shows
      <3> QED
        BY <1>3, <3>2 DEF PathShown
    <2>3. CASE path = <<Condabin, System>>
      <3>1. path \in Seq(Dirs) /\ Len(path) = 2 /\ path[1] = Condabin /\ path[2] = System
        BY <2>1, <2>3
      <3>2. Shows(path, <<>>, 2)
        BY <1>3, <3>1 DEF Shows
      <3> QED
        BY <1>3, <3>2 DEF PathShown
    <2> QED
      BY <1>1, <2>2, <2>3
  <1>5. Distinct(PromptStack)
    BY <1>3 DEF Distinct
  <1>6. Fits(Shell, shlvl)
    BY <1>2, <1>4, <1>5, FitsNow DEF IInv
  <1>7. RoundInv
    <2>1. \A l \in 0..shlvl : Fits(ShellAt(l), l)
      BY <1>1, <1>6 DEF ShellAt
    <2>2. 1..shlvl = {}
      BY <1>1
    <2> QED
      BY <1>4, <2>1, <2>2 DEF RoundInv
  <1>8. BookInv
    BY <1>1 DEF BookInv
  <1> QED
    BY <1>7, <1>8

LEMMA RoundInvariance == Spec => [](IInv /\ RoundInv /\ BookInv)
  <1>1. Init => RoundInv /\ BookInv
    BY RoundInitially
  <1>2. IInv /\ IInv' /\ RoundInv /\ BookInv /\ [Next]_vars => (RoundInv /\ BookInv)'
    <2> SUFFICES ASSUME IInv, IInv', RoundInv, BookInv, [Next]_vars PROVE RoundInv' /\ BookInv'
      OBVIOUS
    <2>1. BookInv'
      BY BookKept
    <2>2. RoundInv'
      BY Steps, RoundEntered, RoundReturned, RoundStays DEF IInv
    <2> QED
      BY <2>1, <2>2
  <1> QED
    BY <1>1, <1>2, Invariance, PTL DEF Spec

(* The environments in PATH are those that were not replaced, the latest   *)
(* first, unless one was stacked upon itself: each edit of PATH finds the  *)
(* directories of the levels as the edits before it left them.             *)
THEOREM PathIsStack == Spec => []PathShowsStack
  <1>1. IInv /\ RoundInv => PathShowsStack
    <2> SUFFICES ASSUME IInv, RoundInv, ~twice
                 PROVE  Kept(path, {i \in 1..Len(path) : path[i] \in Envs})
                          = [k \in 1..Len(PromptStack) |-> PromptStack[Len(PromptStack) + 1 - k]]
      BY DEF PathShowsStack
    <2>1. PICK users \in {1, 2} : Shows(path, PromptStack, users)
      BY DEF RoundInv, PathShown
    <2>2. PromptStack \in Seq(Envs)
      <3>1. shlvl \in Nat /\ EnvsAt(Shell, shlvl)
        BY EnvsInShell, ActivationAssumption DEF IInv, ShellInv
      <3> QED
        BY <3>1, PromptIs, PromptType
    <2> QED
      BY <2>1, <2>2, EnvsShow
  <1> QED
    BY <1>1, RoundInvariance, PTL

(* Deactivation returns to the PATH and to all the variables from before   *)
(* the activation, however many commands came between, when environments   *)
(* mark no variable as unset and none was stacked upon itself.             *)
THEOREM DeactivationReturns == ASSUME ~Marked PROVE Spec => RoundTrip
  <1>1. Init => NothingMarked
    BY DEF Init, NothingMarked
  <1>2. NothingMarked /\ IInv /\ [Next]_vars => NothingMarked'
    <2> SUFFICES ASSUME NothingMarked, IInv, [Next]_vars PROVE NothingMarked'
      OBVIOUS
    <2>1. envVars' = envVars
      BY Steps DEF IInv, Enters, Leaves, Left, Stays
    <2> QED
      BY <2>1 DEF NothingMarked
  <1>3. IInv /\ IInv' /\ RoundInv /\ BookInv /\ NothingMarked /\ [Next]_vars
          => [shlvl' < shlvl /\ ~twice => Shell' = before[shlvl']]_vars
    <2> SUFFICES ASSUME IInv, IInv', RoundInv, BookInv, NothingMarked, [Next]_vars,
                        shlvl' < shlvl, ~twice
                 PROVE  Shell' = before[shlvl']
      OBVIOUS
    <2>1. shlvl \in Nat
      BY ActivationAssumption DEF IInv, ShellInv
    <2>2. \A e \in Envs, stacked \in BOOLEAN : ~Enters(e, stacked)
      BY <2>1 DEF Enters
    <2>3. ~Stays
      BY <2>1 DEF Stays, conda
    <2>4. Leaves
      BY <2>2, <2>3, Steps DEF IInv
    <2> QED
      BY <2>4, RoundLeft
  <1> QED
    BY <1>1, <1>2, <1>3, RoundInvariance, PTL DEF Spec, RoundTrip

-----------------------------------------------------------------------------
(* Types.                                                                  *)

(* What is kept of a list of directories is one.                           *)
LEMMA DirsKept ==
    ASSUME NEW T, NEW dirs \in Seq(T), NEW S, S \subseteq 1..Len(dirs), \A i \in S : dirs[i] \in T
    PROVE  Kept(dirs, S) \in Seq(T)
  <1>1. PICK n \in Nat : n = Len(dirs)
    BY LenProperties
  <1>2. Positions(S)
    BY <1>1, RowPositions
  <1> QED
    BY <1>2, KeptType DEF Within

LEMMA DirsUnique == ASSUME NEW dirs \in Seq(Dirs) PROVE Unique(dirs) \in Seq(Dirs)
  <1> DEFINE S == {i \in 1..Len(dirs) : i = 1 \/ dirs[i] # dirs[i - 1]}
  <1>1. S \subseteq 1..Len(dirs) /\ \A i \in S : dirs[i] \in Dirs
    BY ElementOfSeq
  <1>2. Kept(dirs, S) \in Seq(Dirs)
    <2> HIDE DEF S
    <2> QED
      BY <1>1, DirsKept
  <1> QED
    BY <1>2 DEF Unique

LEMMA PathEdits ==
    ASSUME path \in Seq(Dirs)
    PROVE  /\ \A e \in Envs : AddPrefixToPath(e) \in Seq(Dirs)
           /\ \A old : RemovePrefixFromPath(old) \in Seq(Dirs)
           /\ \A old : \A e \in Envs : ReplacePrefixInPath(old, e) \in Seq(Dirs)
           /\ OwnDirs \in Seq(Envs \cup {System})
  <1>1. \A e \in Envs : <<e>> \in Seq(Dirs)
    BY DEF Dirs
  <1>2. <<Condabin>> \in Seq(Dirs) /\ <<>> \in Seq(Dirs)
    BY EmptySeq DEF Dirs
  <1>3. \A i \in 1..Len(path) : path[i] \in Dirs
    BY ElementOfSeq
  <1>4. ASSUME NEW old PROVE WithoutPrefix(old) \in Seq(Dirs)
    <2>1. PICK S : S = {i \in 1..Len(path) : path[i] # old}
      OBVIOUS
    <2>2. Kept(path, S) \in Seq(Dirs)
      BY <1>3, <2>1, DirsKept
    <2> QED
      BY <2>1, <2>2 DEF WithoutPrefix
  <1>5. ASSUME NEW e \in Envs PROVE AddPrefixToPath(e) \in Seq(Dirs)
    <2>1. ASSUME NEW own \in Seq(Dirs) PROVE Unique(<<e>> \o own \o path) \in Seq(Dirs)
      <3>1. (<<e>> \o own) \in Seq(Dirs)
        BY <1>1, ConcatProperties
      <3>2. (<<e>> \o own) \o path \in Seq(Dirs)
        BY <3>1, ConcatProperties
      <3> QED
        BY <3>2, DirsUnique
    <2> QED
      BY <1>2, <2>1 DEF AddPrefixToPath
  <1>6. ASSUME NEW old, NEW e \in Envs PROVE ReplacePrefixInPath(old, e) \in Seq(Dirs)
    <2>1. <<e>> \o WithoutPrefix(old) \in Seq(Dirs)
      BY <1>1, <1>4, ConcatProperties
    <2> QED
      BY <2>1, DirsUnique DEF ReplacePrefixInPath
  <1>7. \A old : RemovePrefixFromPath(old) \in Seq(Dirs)
    BY <1>4, DirsUnique DEF RemovePrefixFromPath
  <1>8. OwnDirs \in Seq(Envs \cup {System})
    <2>1. PICK S : S = {i \in 1..Len(path) : path[i] # Condabin}
      OBVIOUS
    <2>2. PICK n \in Nat : n = Len(path)
      BY LenProperties
    <2>3. Positions(S) /\ Within(path, S, Envs \cup {System})
      <3>1. S \subseteq 1..n
        BY <2>1, <2>2
      <3>2. \A i \in S : path[i] \in Envs \cup {System}
        BY <1>3, <2>1 DEF Dirs
      <3> QED
        BY <3>1, <3>2, RowPositions DEF Within
    <2>4. Kept(path, S) \in Seq(Envs \cup {System})
      BY <2>3, KeptType
    <2> QED
      BY <2>1, <2>4 DEF OwnDirs
  <1> QED
    BY <1>5, <1>6, <1>7, <1>8

LEMMA PoppedType == ASSUME NEW q \in Seq(Envs) PROVE Popped(q) \in Seq(Envs)
  <1>1. CASE q = <<>>
    BY <1>1, EmptySeq DEF Popped
  <1>2. CASE q # <<>>
    <2>1. PICK n \in Nat : n = Len(q) /\ n # 0
      BY <1>2, LenProperties, EmptySeq
    <2>2. \A i \in 1..(n - 1) : q[i] \in Envs
      BY <2>1, ElementOfSeq
    <2>3. SubSeq(q, 1, n - 1) \in Seq(Envs)
      BY <2>1, <2>2, SubSeqProperties
    <2> QED
      BY <1>2, <2>1, <2>3 DEF Popped
  <1> QED
    BY <1>1, <1>2

LEMMA PromptEdits ==
    ASSUME IInv
    PROVE  /\ PromptStack \in Seq(Envs)
           /\ \A e \in Envs, stack \in BOOLEAN : PromptActivating(e, stack) \in Seq(Envs)
           /\ shlvl > 0 => PromptDeactivating \in Seq(Envs)
  <1>1. shlvl \in Nat /\ EnvsAt(Shell, shlvl)
    BY EnvsInShell, ActivationAssumption DEF IInv, ShellInv
  <1>2. PromptStack \in Seq(Envs)
    BY <1>1, PromptIs, PromptType
  <1>3. Popped(PromptStack) \in Seq(Envs)
    BY <1>2, PoppedType
  <1>4. ASSUME NEW e \in Envs, NEW stack \in BOOLEAN PROVE PromptActivating(e, stack) \in Seq(Envs)
    <2>1. Append(PromptStack, e) \in Seq(Envs) /\ Append(Popped(PromptStack), e) \in Seq(Envs)
      BY <1>2, <1>3, AppendProperties
    <2> QED
      BY <2>1 DEF PromptActivating
  <1>5. ASSUME shlvl > 0 PROVE PromptDeactivating \in Seq(Envs)
    <2>1. ASSUME NEW back \in Seq(Envs) PROVE Popped(PromptStack) \o back \in Seq(Envs)
      BY <1>3, ConcatProperties
    <2>2. shlvl # 1 => <<prefixAt[shlvl - 1]>> \in Seq(Envs)
      <3> SUFFICES ASSUME shlvl # 1 PROVE prefixAt[shlvl - 1] \in Envs
        OBVIOUS
      <3>1. shlvl - 1 \in Levels /\ shlvl - 1 < shlvl
        BY <1>5, ActivationAssumption DEF IInv, ShellInv, Levels
      <3> QED
        BY <3>1 DEF IInv, LevelsInv
    <2>3. <<>> \in Seq(Envs)
      BY EmptySeq
    <2> QED
      BY <2>1, <2>2, <2>3 DEF PromptDeactivating
  <1> QED
    BY <1>2, <1>4, <1>5

ListInv ==
    /\ path \in Seq(Dirs) /\ prompt \in Seq(Envs)
    /\ before \in [0..MaxDepth -> Shells \cup {None}]

LEMMA ListsKept == ASSUME IInv, ListInv, [Next]_vars PROVE ListInv'
  <1>1. /\ \A e \in Envs : AddPrefixToPath(e) \in Seq(Dirs)
        /\ \A old : RemovePrefixFromPath(old) \in Seq(Dirs)
        /\ \A old : \A e \in Envs : ReplacePrefixInPath(old, e) \in Seq(Dirs)
        /\ OwnDirs \in Seq(Envs \cup {System})
    BY PathEdits DEF ListInv
  <1>2. /\ PromptStack \in Seq(Envs) /\ <<>> \in Seq(Envs)
        /\ \A e \in Envs, stack \in BOOLEAN : PromptActivating(e, stack) \in Seq(Envs)
        /\ shlvl > 0 => PromptDeactivating \in Seq(Envs)
    BY PromptEdits, EmptySeq
  <1>3. path' \in Seq(Dirs)
    <2>1. ASSUME NEW e \in Envs, NEW stacked \in BOOLEAN, Enters(e, stacked) PROVE path' \in Seq(Dirs)
      BY <1>1, <2>1 DEF Enters
    <2>2. CASE Leaves
      <3>1. CASE LeftFirst
        BY <1>1, <3>1 DEF LeftFirst
      <3>2. ASSUME NEW shown, LeftAbove(shown) PROVE path' \in Seq(Dirs)
        <4>1. prefixAt[shlvl - 1] \in Envs
          <5>1. shlvl - 1 \in Levels /\ shlvl - 1 < shlvl
            BY <3>2, ActivationAssumption DEF LeftAbove, IInv, ShellInv, Levels
          <5> QED
            BY <5>1 DEF IInv, LevelsInv
        <4> QED
          BY <1>1, <3>2, <4>1 DEF LeftAbove
      <3> QED
        BY <2>2, <3>1, <3>2 DEF Leaves
    <2>3. CASE Stays
      BY <1>1, <2>3 DEF Stays, ListInv, IInv, ShellInv
    <2> QED
      BY <2>1, <2>2, <2>3, Steps DEF IInv
  <1>4. before' \in [0..MaxDepth -> Shells \cup {None}]
    <2>1. Shell \in Shells
      BY <1>1 DEF Shell, Shells, IInv, ShellInv
    <2>2. \E k, sh : sh \in Shells \cup {None} /\ before' \in {before, [before EXCEPT ![k] = sh]}
      BY <2>1, Steps DEF IInv, Enters, Leaves, Left, Stays
    <2> QED
      BY <2>2 DEF ListInv
  <1>5. prompt' \in Seq(Envs)
    <2>1. \A e \in Envs, stack \in BOOLEAN : ActivateFirst(e, stack) => prompt' \in Seq(Envs)
      BY <1>2 DEF ActivateFirst
    <2>2. \A e \in Envs, stack \in BOOLEAN : ActivateAgain(e, stack) => prompt' \in Seq(Envs)
      BY <1>2 DEF ActivateAgain, Reactivated
    <2>3. \A e \in Envs, stack \in BOOLEAN : ActivateBelow(e, stack) => prompt' \in Seq(Envs)
      BY <1>2 DEF ActivateBelow, LeftAbove
    <2>4. \A e \in Envs : ActivateStacked(e) \/ ActivateInstead(e) => prompt' \in Seq(Envs)
      BY <1>2 DEF ActivateStacked, ActivateInstead
    <2>5. Deactivate => prompt' \in Seq(Envs)
      <3>1. LeftFirst => prompt' \in Seq(Envs)
        BY <1>2 DEF LeftFirst
      <3>2. LeftAbove(PromptDeactivating) => prompt' \in Seq(Envs)
        <4>1. shlvl > 1 => shlvl > 0
          BY ActivationAssumption DEF IInv, ShellInv
        <4> QED
          BY <1>2, <4>1 DEF LeftAbove
      <3> QED
        BY <3>1, <3>2 DEF Deactivate
    <2>6. Reactivate \/ UNCHANGED vars => prompt' \in Seq(Envs)
      BY <1>2 DEF Reactivate, Reactivated, vars, ListInv
    <2> QED
      BY <2>1, <2>2, <2>3, <2>4, <2>5, <2>6 DEF Next, Activate
  <1> QED
    BY <1>3, <1>4, <1>5 DEF ListInv

(* Every variable of the shell keeps its type.                             *)
THEOREM TypeCorrect == Spec => []TypeOK
  <1>1. Init => ListInv
    <2> SUFFICES ASSUME Init PROVE ListInv
      OBVIOUS
    <2>1. path \in Seq(Dirs)
      <3>1. <<System>> \in Seq(Dirs) /\ <<Condabin, System>> \in Seq(Dirs)
        BY DEF Dirs
      <3> QED
        BY <3>1 DEF Init
    <2>2. prompt \in Seq(Envs)
      BY EmptySeq DEF Init
    <2>3. before \in [0..MaxDepth -> Shells \cup {None}]
      BY DEF Init
    <2> QED
      BY <2>1, <2>2, <2>3 DEF ListInv
  <1>2. IInv /\ ListInv /\ [Next]_vars => ListInv'
    BY ListsKept
  <1>3. IInv /\ ListInv /\ BookInv => TypeOK
    <2>1. Dirs = Envs \cup {System, Condabin}
      BY DEF Dirs
    <2> QED
      BY <2>1 DEF IInv, ShellInv, ListInv, BookInv, TypeOK
  <1> QED
    BY <1>1, <1>2, <1>3, Invariance, RoundInvariance, PTL DEF Spec
===============================================================================
