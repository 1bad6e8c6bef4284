--------------------------- MODULE SourceTrackProofs ---------------------------
(* What is said about missing targets, patched processes, diffs and the code that    *)
(* runs holds of every library.                                                      *)
EXTENDS SourceTrack, LockCheckProofs

\* A non-empty set of numbers up to N has a greatest one: N minus the least difference.
LEMMA LatestOfSet ==
    ASSUME NEW N \in Nat, NEW S \in SUBSET (0 .. N), S # {}
    PROVE  Latest(S) \in S /\ \A j \in S : j <= Latest(S)
<1> DEFINE D == {N - i : i \in S}
<1>1. \A i \in S : i \in Nat /\ N - i \in Nat
  OBVIOUS
<1>2. D \in SUBSET Nat /\ D # {}
  BY <1>1
<1>3. First(D) \in D /\ \A d \in D : First(D) <= d
  BY <1>2, FirstOfSet
<1>4. PICK i \in S : First(D) = N - i
  BY <1>3 DEF D
<1>5. \A j \in S : j <= i
  <2> SUFFICES ASSUME NEW j \in S PROVE j <= i
    OBVIOUS
  <2>1. N - i <= N - j
    BY <1>3, <1>4 DEF D
  <2> QED
    BY <1>1, <2>1
<1> QED
  BY <1>5 DEF Latest

--------------------------------------------------------------------------------
(* Refinement, and the invariant of the releases.                                     *)

\* A release installs what LockCheck lets an upgrade install.
LEMMA InstalledIsUpstream ==
    ASSUME NEW r \in Releases
    PROVE  /\ DOMAIN Installed[r] \subseteq Targets
           /\ Installed[r] \in [DOMAIN Installed[r] -> SomeObject]
           /\ \A t \in DOMAIN Installed[r] : Installed[r][t] \in Objects[t]
<1> DEFINE surface == Installed[r]
<1>1. surface = [t \in {u \in Targets : Resolution(Library[r], u) = "found"} |-> Reading(Library[r], t)]
  BY DEF Installed, Surface
<1>2. DOMAIN surface \subseteq Targets /\ surface = [t \in DOMAIN surface |-> surface[t]]
  BY <1>1
<1>3. \A t \in DOMAIN surface : surface[t] \in Objects[t]
  BY ReadingAssumption
<1> HIDE DEF surface
<1>4. surface \in [DOMAIN surface -> SomeObject]
  BY <1>2, <1>3 DEF SomeObject
<1> QED
  BY <1>2, <1>3, <1>4 DEF surface

LEMMA SourceInitImplements == SourceInit => Init
BY DEF SourceInit

LEMMA SourceNextImplements == [SourceNext]_sourceVars => [Next]_vars
<1> SUFFICES ASSUME [SourceNext]_sourceVars PROVE [Next]_vars
  OBVIOUS
<1>1. CASE SourceLock
  BY <1>1 DEF SourceLock, Next
<1>2. CASE Install
  <2>1. UNCHANGED <<project, lock, today, audited>>
    BY <1>2 DEF Install
  <2>2. DOMAIN upstream' \in SUBSET Targets /\ upstream' \in [DOMAIN upstream' -> SomeObject]
    BY <1>2, InstalledIsUpstream DEF Install
  <2>3. \A t \in DOMAIN upstream' : upstream'[t] \in Objects[t]
    BY <1>2, InstalledIsUpstream DEF Install
  <2>4. Upgrade
    BY <2>1, <2>2, <2>3 DEF Upgrade
  <2> QED
    BY <2>4 DEF Next
<1>3. CASE Edit
  BY <1>3 DEF Next
<1>4. CASE DayPasses
  BY <1>4 DEF Next
<1>5. CASE UNCHANGED sourceVars
  BY <1>5 DEF sourceVars, vars
<1> QED
  BY <1>1, <1>2, <1>3, <1>4, <1>5 DEF SourceNext

\* What LockCheckProofs shows of a lock of any objects is so of those that are read off files.
LEMMA SourceSpecIsSpec == SourceSpec => Spec
BY SourceInitImplements, SourceNextImplements, PTL DEF SourceSpec, Spec

\* The installed objects are those of the installed release, and the lock was made of the
\* objects of the locked one.
SourceInv ==
    /\ release \in Releases
    /\ upstream = Installed[release]
    /\ lockedRelease \in Releases \cup {None}
    /\ lockedRelease = None => lock = LockOf(<<>>, <<>>)
    /\ lockedRelease # None => audited.upstream = Installed[lockedRelease]

LEMMA AlwaysSourceInv == SourceSpec => []SourceInv
<1>1. SourceInit => SourceInv
  BY DEF SourceInit, SourceInv, Init
<1>2. SourceInv /\ [SourceNext]_sourceVars => SourceInv'
  <2> SUFFICES ASSUME SourceInv, [SourceNext]_sourceVars PROVE SourceInv'
    OBVIOUS
  <2> USE DEF SourceInv
  <2>1. CASE SourceLock
    <3>1. /\ audited' = [project |-> project, upstream |-> upstream] /\ upstream' = upstream
          /\ lockedRelease' = release /\ release' = release
      BY <2>1 DEF SourceLock, Lock
    <3>2. release # None
      BY ReleaseAssumption
    <3> QED
      BY <3>1, <3>2
  <2>2. CASE Install
    BY <2>2 DEF Install
  <2>3. CASE Edit /\ UNCHANGED <<release, lockedRelease>>
    BY <2>3 DEF Edit
  <2>4. CASE DayPasses /\ UNCHANGED <<release, lockedRelease>>
    BY <2>4 DEF DayPasses
  <2>5. CASE UNCHANGED sourceVars
    BY <2>5 DEF sourceVars, vars
  <2> QED
    BY <2>1, <2>2, <2>3, <2>4, <2>5 DEF SourceNext
<1> QED
  BY <1>1, <1>2, PTL DEF SourceSpec

LEMMA AlwaysLockInv == SourceSpec => []CheckInv
<1>1. SourceInit => CheckInv
  BY SourceInitImplements, InitCheckInv
<1>2. CheckInv /\ [SourceNext]_sourceVars => CheckInv'
  BY SourceNextImplements, NextCheckInv
<1> QED
  BY <1>1, <1>2, PTL DEF SourceSpec

--------------------------------------------------------------------------------
(* What is missing.                                                                   *)

LEMMA PartsOfTarget ==
    ASSUME NEW t \in Targets
    PROVE  LET parts == Parts(t)
           IN  /\ parts \in Seq(STRING)
               /\ Len(Module) \in Nat /\ Len(Module) >= 1 /\ Len(parts) > Len(Module)
               /\ \A i \in 1 .. Len(Module) : parts[i] = Module[i]
<1>1. Module \in Seq(STRING) /\ Module # <<>> /\ Path[t] \in Seq(STRING) /\ Path[t] # <<>>
  BY ReleaseAssumption
<1> QED
  BY <1>1 DEF Parts

\* What is not found below the module is part of every longer prefix.
LEMMA BelowTheModule ==
    ASSUME NEW s, s.fails = None, NEW t \in Targets, NEW n \in DOMAIN Parts(t)
    PROVE  GoesOn(s, t, n) <=> n > Len(Module)
<1> DEFINE parts == Parts(t)
           missing == SubSeq(parts, 1, Len(Module) + 1)
<1>1. /\ parts \in Seq(STRING) /\ n \in 1 .. Len(parts)
      /\ Len(Module) \in Nat /\ Len(Module) >= 1 /\ Len(parts) > Len(Module)
  BY PartsOfTarget
<1>2. Imports(s, n) <=> n <= Len(Module)
  BY DEF Imports
<1>3. CASE n > Len(Module)
  <2> DEFINE name == SubSeq(parts, 1, n)
  <2> HIDE DEF parts
  <2>1. /\ missing \in Seq(STRING) /\ Len(missing) = Len(Module) + 1
        /\ \A i \in 1 .. Len(Module) + 1 : missing[i] = parts[i]
    BY <1>1
  <2>2. Len(name) = n /\ \A i \in 1 .. n : name[i] = parts[i]
    BY <1>1
  <2>3. missing # None
    BY <2>1, ReleaseAssumption
  <2> HIDE DEF missing, name
  <2>4. NamesPrefix(missing, name)
    <3>1. Len(missing) <= Len(name)
      BY <1>1, <1>3, <2>1, <2>2
    <3>2. \A i \in 1 .. Len(missing) : missing[i] = name[i]
      BY <1>1, <2>1, <2>2, <3>1
    <3>3. Len(missing) \in Nat /\ Len(missing) >= 1
      BY <1>1, <2>1
    <3> QED
      BY <3>1, <3>2, <3>3 DEF NamesPrefix
  <2>5. NotFound(s, t, n) = missing
    BY DEF NotFound, missing, parts
  <2> QED
    BY <1>1, <1>2, <1>3, <2>3, <2>4, <2>5 DEF GoesOn, name, parts
<1>4. CASE ~ (n > Len(Module))
  BY <1>1, <1>2, <1>4 DEF GoesOn
<1> QED
  BY <1>3, <1>4

\* A prefix part by part is one for the code, and of names that begin with no other the only
\* one.
LEMMA WholePrefix ==
    ASSUME NEW missing \in Seq(STRING), missing # <<>>, NEW t \in Targets,
           NEW n \in DOMAIN Parts(t)
    PROVE  LET whole == Len(missing) <= n /\ \A i \in DOMAIN missing : missing[i] = Parts(t)[i]
               named == NamesPrefix(missing, SubSeq(Parts(t), 1, n))
           IN  /\ whole => named
               /\ (\A i \in DOMAIN missing \cap DOMAIN Parts(t) :
                      <<Parts(t)[i], missing[i]>> \notin Begins) => (named => whole)
<1> DEFINE parts == Parts(t)
           name == SubSeq(parts, 1, n)
           m == Len(missing)
<1>1. parts \in Seq(STRING) /\ n \in 1 .. Len(parts) /\ m \in Nat /\ m >= 1 /\ DOMAIN missing = 1 .. m
  BY PartsOfTarget
<1> HIDE DEF parts
<1>2. Len(name) = n /\ \A i \in 1 .. n : name[i] = parts[i]
  BY <1>1
<1> DEFINE apart == \A i \in DOMAIN missing \cap DOMAIN parts : <<parts[i], missing[i]>> \notin Begins
<1>3. apart /\ m <= n => <<name[m], missing[m]>> \notin Begins
  BY <1>1, <1>2
<1> HIDE DEF name, apart
<1>4. NamesPrefix(missing, name) <=>
        /\ m <= n /\ \A i \in 1 .. m - 1 : missing[i] = name[i]
        /\ name[m] = missing[m] \/ <<name[m], missing[m]>> \in Begins
  BY <1>2 DEF NamesPrefix
<1>5. /\ m <= n /\ (\A i \in 1 .. m : missing[i] = parts[i]) => NamesPrefix(missing, name)
      /\ apart /\ NamesPrefix(missing, name) => m <= n /\ \A i \in 1 .. m : missing[i] = parts[i]
  BY <1>1, <1>2, <1>3, <1>4
<1> QED
  BY <1>1, <1>5 DEF parts, name, apart

\* A failed import is passed over where the target's own module or package is not found.
LEMMA PassedOver ==
    ASSUME NEW s \in Release, s.fails # None, NEW t \in Targets, NEW n \in DOMAIN Parts(t)
    PROVE  LET whole == /\ n >= s.fails.at
                        /\ s.fails.missing # None
                        /\ Len(s.fails.missing) <= n
                        /\ \A i \in DOMAIN s.fails.missing : s.fails.missing[i] = Parts(t)[i]
           IN  /\ whole => GoesOn(s, t, n)
               /\ WholeNames(s, t) /\ GoesOn(s, t, n) => whole
<1> DEFINE at == s.fails.at
           missing == s.fails.missing
<1>1. at \in DOMAIN Module /\ missing \in (Seq(STRING) \ {<<>>}) \cup {None}
  BY DEF Release, Failure
<1>2. n \in Nat /\ Len(Module) \in Nat /\ at \in 1 .. Len(Module)
  BY <1>1, PartsOfTarget, ReleaseAssumption
<1>3. Imports(s, n) <=> n < at
  BY <1>2 DEF Imports
<1>4. n >= at => NotFound(s, t, n) = missing
  BY DEF NotFound
<1>5. missing # None /\ WholeNames(s, t) =>
        \A i \in DOMAIN missing \cap DOMAIN Parts(t) : <<Parts(t)[i], missing[i]>> \notin Begins
  BY DEF WholeNames
<1> HIDE DEF at, missing
<1> DEFINE part == Len(missing) <= n /\ \A i \in DOMAIN missing : missing[i] = Parts(t)[i]
           named == NamesPrefix(missing, SubSeq(Parts(t), 1, n))
<1>6. missing # None => (part => named) /\ (WholeNames(s, t) /\ named => part)
  BY <1>1, <1>5, WholePrefix
<1> QED
  BY <1>2, <1>3, <1>4, <1>6 DEF GoesOn, at, missing

\* Of a module that fails to import, the target is gone if what is not found is the module
\* or one of its packages.
LEMMA GoneAtFailure ==
    ASSUME NEW s \in Release, s.fails # None, NEW t \in Targets
    PROVE  Gone(s, t) <=>
              /\ s.fails.missing # None
              /\ Len(s.fails.missing) <= s.fails.at
              /\ \A i \in DOMAIN s.fails.missing : s.fails.missing[i] = Parts(t)[i]
<1> DEFINE at == s.fails.at
           missing == s.fails.missing
<1>1. at \in DOMAIN Module /\ missing \in (Seq(STRING) \ {<<>>}) \cup {None}
  BY DEF Release, Failure
<1>2. Module \in Seq(STRING) /\ at \in 1 .. Len(Module)
  BY <1>1, ReleaseAssumption
<1>3. \A i \in 1 .. Len(Module) : Parts(t)[i] = Module[i]
  BY PartsOfTarget
<1>4. Gone(s, t) <=> \E n \in 1 .. at : missing = SubSeq(Module, 1, n)
  BY DEF Gone
<1> HIDE DEF at, missing
<1>5. \A n \in 1 .. at : /\ SubSeq(Module, 1, n) \in Seq(STRING) /\ SubSeq(Module, 1, n) # None
                         /\ Len(SubSeq(Module, 1, n)) = n
                         /\ \A i \in 1 .. n : SubSeq(Module, 1, n)[i] = Module[i]
  BY <1>2, ReleaseAssumption
<1>6. ASSUME NEW n \in 1 .. at, missing = SubSeq(Module, 1, n)
      PROVE  missing # None /\ Len(missing) <= at /\ \A i \in DOMAIN missing : missing[i] = Parts(t)[i]
  <2>1. DOMAIN missing = 1 .. n
    BY <1>5, <1>6
  <2> QED
    BY <1>2, <1>3, <1>5, <1>6, <2>1
<1>7. ASSUME missing # None, Len(missing) <= at, \A i \in DOMAIN missing : missing[i] = Parts(t)[i]
      PROVE  missing = SubSeq(Module, 1, Len(missing)) /\ Len(missing) \in 1 .. at
  <2>1. missing \in Seq(STRING) /\ Len(missing) \in 1 .. at
    BY <1>1, <1>2, <1>7
  <2>2. \A i \in 1 .. Len(missing) : missing[i] = Module[i]
    BY <1>2, <1>3, <1>7, <2>1
  <2> QED
    BY <1>5, <2>1, <2>2
<1> QED
  BY <1>4, <1>6, <1>7 DEF at, missing

LEMMA MissingIsGone ==
    ASSUME NEW s \in Release, NEW t \in Targets
    PROVE  /\ Gone(s, t) => Resolution(s, t) = "not_found"
           /\ Resolution(s, t) = "not_found" => Gone(s, t) \/ ~ WholeNames(s, t)
<1> DEFINE stops == {n \in DOMAIN Parts(t) : ~ GoesOn(s, t, n)}
<1>1. /\ Len(Module) \in Nat /\ Len(Module) >= 1 /\ Len(Parts(t)) > Len(Module)
      /\ Len(Parts(t)) \in Nat /\ DOMAIN Parts(t) = 1 .. Len(Parts(t))
  BY PartsOfTarget
<1>2. stops \in SUBSET (0 .. Len(Parts(t))) /\ stops \subseteq DOMAIN Parts(t)
  BY <1>1
<1>3. stops # {} => Latest(stops) \in stops /\ \A n \in stops : n <= Latest(stops)
  BY <1>1, <1>2, LatestOfSet
<1>4. Resolution(s, t) =
        IF stops = {} THEN "not_found"
        ELSE IF ~ Imports(s, Latest(stops)) THEN "import_error"
        ELSE IF Latest(stops) < Len(Module) \/ Bound(s, Path[t]) = None THEN "not_found"
        ELSE "found"
  BY DEF Resolution
<1>5. CASE s.fails = None
  <2>1. \A n \in DOMAIN Parts(t) : n \in stops <=> n <= Len(Module)
    BY <1>1, <1>5, BelowTheModule
  <2> HIDE DEF stops
  <2>2. Len(Module) \in stops /\ Latest(stops) = Len(Module)
    <3>1. Len(Module) \in stops
      BY <1>1, <2>1
    <3>2. Latest(stops) \in stops /\ Len(Module) <= Latest(stops)
      BY <1>3, <3>1
    <3>3. Latest(stops) \in DOMAIN Parts(t) /\ Latest(stops) <= Len(Module)
      BY <1>2, <2>1, <3>2
    <3> QED
      BY <1>1, <3>1, <3>2, <3>3
  <2>3. Imports(s, Latest(stops))
    BY <1>1, <1>5, <2>2 DEF Imports
  <2>4. Gone(s, t) <=> Bound(s, Path[t]) = None
    BY <1>5 DEF Gone
  <2> QED
    BY <1>1, <1>4, <2>2, <2>3, <2>4
<1>6. CASE s.fails # None
  <2> DEFINE at == s.fails.at
             missing == s.fails.missing
  <2>1. at \in 1 .. Len(Module) /\ (missing # None => Len(missing) \in Nat)
    <3>1. at \in DOMAIN Module /\ missing \in (Seq(STRING) \ {<<>>}) \cup {None}
      BY <1>6 DEF Release, Failure
    <3> HIDE DEF at, missing
    <3> QED
      BY <1>1, <3>1, ReleaseAssumption
  <2>2. \A n \in DOMAIN Parts(t) : Imports(s, n) <=> n < at
    BY <1>1, <1>6, <2>1 DEF Imports
  <2> DEFINE whole(n) == /\ n >= at /\ missing # None /\ Len(missing) <= n
                         /\ \A i \in DOMAIN missing : missing[i] = Parts(t)[i]
  <2>3. \A n \in DOMAIN Parts(t) : /\ n \in stops => ~ whole(n)
                                   /\ WholeNames(s, t) /\ ~ whole(n) => n \in stops
    BY <1>6, PassedOver
  <2>4. Gone(s, t) <=> /\ missing # None /\ Len(missing) <= at
                       /\ \A i \in DOMAIN missing : missing[i] = Parts(t)[i]
    BY <1>6, GoneAtFailure
  <2> HIDE DEF stops, at, missing
  <2>5. CASE Gone(s, t)
    <3>1. ASSUME NEW n \in stops PROVE n < at
      <4>1. n \in DOMAIN Parts(t) /\ n \in Nat
        BY <1>1, <1>2, <3>1
      <4>2. ~ whole(n)
        BY <2>3, <3>1, <4>1
      <4>3. n >= at => Len(missing) <= n
        BY <2>1, <2>4, <2>5, <4>1
      <4> QED
        BY <2>1, <2>4, <2>5, <4>1, <4>2, <4>3
    <3>2. ASSUME stops # {} PROVE Imports(s, Latest(stops)) /\ Latest(stops) < Len(Module)
      <4>1. Latest(stops) \in DOMAIN Parts(t) /\ Latest(stops) < at
        BY <1>2, <1>3, <3>1, <3>2
      <4> QED
        BY <1>1, <2>1, <2>2, <4>1
    <3> QED
      BY <1>4, <2>5, <3>2
  <2>6. CASE ~ Gone(s, t) /\ WholeNames(s, t)
    <3>1. at \in stops
      BY <1>1, <2>1, <2>3, <2>4, <2>6
    <3>2. Latest(stops) \in DOMAIN Parts(t) /\ at <= Latest(stops)
      BY <1>3, <3>1 DEF stops
    <3>3. ~ Imports(s, Latest(stops))
      BY <1>1, <2>1, <2>2, <3>2
    <3> QED
      BY <1>4, <2>6, <3>1, <3>3
  <2>7. CASE ~ Gone(s, t) /\ ~ WholeNames(s, t)
    BY <2>7
  <2> QED
    BY <2>5, <2>6, <2>7
<1> QED
  BY <1>5, <1>6

\* A target that is gone, because its module or a package of it is not there or the module
\* imports and does not bind the name, is reported missing.  A target whose module fails to
\* import for another reason is not, unless a name on the way to it begins with the name of the
\* dependency that was not found.
THEOREM MissingTargetsAreGone == SourceSpec => []MissingMeansGone
<1>1. SourceInv => MissingMeansGone
  <2>1. SourceInv => Library[release] \in Release
    BY ReleaseAssumption DEF SourceInv
  <2> QED
    BY <2>1, MissingIsGone DEF MissingMeansGone
<1> QED
  BY <1>1, AlwaysSourceInv, PTL

--------------------------------------------------------------------------------
(* Patched processes.                                                                 *)

\* What a resolved target is read off.
LEMMA InstalledReading ==
    ASSUME NEW r \in Releases, NEW t \in DOMAIN Installed[r]
    PROVE  LET s == Library[r]
               i == Bound(s, Path[t])
           IN  /\ t \in Targets /\ s \in Release
               /\ Installed[r][t] = ReadingOf(s, t, Function(s, t))
               /\ i \in Nat /\ i # None /\ s.statements[i] \in Statement
<1> DEFINE s == Library[r]
           path == Path[t]
           ran == Ran(s, LiveClass(s, path), path[Len(path)])
<1>1. Installed[r] = [u \in {v \in Targets : Resolution(s, v) = "found"} |-> Reading(s, u)]
  BY DEF Installed, Surface
<1>2. t \in Targets /\ Resolution(s, t) = "found" /\ Installed[r][t] = Reading(s, t)
  BY <1>1
<1>3. s \in Release /\ s.statements \in Seq(Statement)
  BY ReleaseAssumption DEF Release
<1>4. Bound(s, path) # None
  BY <1>2 DEF Resolution
<1>5. ran # {} /\ Bound(s, path) = Latest(ran)
  BY <1>4 DEF Bound
<1>6. ran \subseteq DOMAIN s.statements
  BY DEF Ran
<1> HIDE DEF s, ran
<1>7. /\ DOMAIN s.statements = 1 .. Len(s.statements) /\ Len(s.statements) \in Nat
      /\ \A i \in DOMAIN s.statements : s.statements[i] \in Statement
  BY <1>3
<1>8. Latest(ran) \in ran
  <2>1. ran \in SUBSET (0 .. Len(s.statements))
    BY <1>6, <1>7
  <2> QED
    BY <1>5, <1>7, <2>1, LatestOfSet
<1>9. Latest(ran) \in DOMAIN s.statements
  BY <1>6, <1>8
<1> QED
  BY <1>2, <1>3, <1>4, <1>5, <1>7, <1>9 DEF s, Reading

\* A function is at most one wrapper and what it wraps, and ends at the def of the target
\* or at a local function.
LEMMA FunctionEnds ==
    ASSUME NEW s, NEW t, s.statements[Bound(s, Path[t])] \in Statement
    PROVE  LET f == Function(s, t)
               def == Qualified(s, Path[t])
               lines == {None, Bound(s, Path[t])}
           IN  /\ f \in Seq([name : {def, Elsewhere}, line : lines]) /\ f # <<>>
               /\ \/ f[Len(f)] = [name |-> Elsewhere, line |-> None]
                  \/ \E line \in lines : f[Len(f)] = [name |-> def, line |-> line]
<1> DEFINE f == Function(s, t)
           d == s.statements[Bound(s, Path[t])]
           def == Qualified(s, Path[t])
           lines == {None, Bound(s, Path[t])}
           line == IF d.kind = "class" THEN None ELSE Bound(s, Path[t])
           object == [name |-> def, line |-> line]
           wrapper == [object EXCEPT !.line = None]
           local == [name |-> Elsewhere, line |-> None]
           Any == [name : {def, Elsewhere}, line : lines]
<1>1. d.decorator \in {"none", "wraps", "opaque"}
  BY DEF Statement
<1>2. f = CASE d.decorator = "none" -> <<object>>
            [] d.decorator = "wraps" -> <<wrapper, object>>
            [] d.decorator = "opaque" -> <<local>>
  BY DEF Function
<1>3. line \in lines /\ object \in Any /\ wrapper \in Any /\ local \in Any
  OBVIOUS
<1> HIDE DEF f, d, object, wrapper, local, Any, line
<1>4. f = <<object>> \/ f = <<wrapper, object>> \/ f = <<local>>
  BY <1>1, <1>2
<1>5. f \in Seq(Any) /\ f # <<>> /\ (f[Len(f)] = object \/ f[Len(f)] = local)
  <2>1. CASE f = <<object>>
    BY <1>3, <2>1
  <2>2. CASE f = <<wrapper, object>>
    BY <1>3, <2>2
  <2>3. CASE f = <<local>>
    BY <1>3, <2>3
  <2> QED
    BY <1>4, <2>1, <2>2, <2>3
<1> QED
  BY <1>3, <1>5 DEF f, object, local, Any, line

\* fingerprint() reads no more of a function than the name of the first object and what
\* the last one is.
LEMMA SameEndsSameReading ==
    ASSUME NEW s, NEW t, NEW f, NEW g,
           Head(f).name = Head(g).name, f[Len(f)] = g[Len(g)]
    PROVE  ReadingOf(s, t, f) = ReadingOf(s, t, g)
<1>1. Hashed(s, t, f) = Hashed(s, t, g)
  BY DEF Hashed
<1> QED
  BY <1>1 DEF ReadingOf

LEMMA ReadingFields ==
    ASSUME NEW s, NEW t, NEW f
    PROVE  LET d == s.statements[Bound(s, Path[t])]
               node == Hashed(s, t, f)
           IN  /\ ReadingOf(s, t, f).file =
                     IF d.kind = "constant" \/ s.text = "not installed" THEN None
                     ELSE f[Len(f)].name.file
               /\ ReadingOf(s, t, f).source = IF node = None THEN None ELSE Text(s, node, TRUE)
BY DEF ReadingOf

LEMMA PatchedEnds ==
    ASSUME NEW S, NEW f \in Seq(S), f # <<>>, NEW n, NEW l, Head(f) = [name |-> n, line |-> l]
    PROVE  Head(Patched(f)).name = Head(f).name /\ Patched(f)[Len(Patched(f))] = f[Len(f)]
<1> DEFINE w == [Head(f) EXCEPT !.line = None]
           T == S \cup {w}
<1>1. w.name = Head(f).name
  OBVIOUS
<1> HIDE DEF w
<1>2. <<w>> \in Seq(T) /\ f \in Seq(T) /\ Len(f) >= 1
  OBVIOUS
<1> HIDE DEF T
<1>3. Patched(f) = <<w>> \o f
  BY DEF Patched, w
<1>4. Len(<<w>> \o f) = 1 + Len(f) /\ (<<w>> \o f)[1] = w /\ (<<w>> \o f)[1 + Len(f)] = f[Len(f)]
  BY <1>2
<1> QED
  BY <1>1, <1>2, <1>3, <1>4

\* However the original is decorated, the wrapper that a patch puts in its place has the
\* fingerprint of the original.
THEOREM PatchesAreInvisible == SourceSpec => []PatchingIsInvisible
<1>1. SourceInv => PatchingIsInvisible
  <2> SUFFICES ASSUME SourceInv, NEW t \in DOMAIN upstream
               PROVE  LET s == Library[release]
                      IN  ReadingOf(s, t, Patched(Function(s, t))) = upstream[t]
    BY DEF PatchingIsInvisible
  <2> DEFINE s == Library[release]
             f == Function(s, t)
  <2>1. /\ upstream[t] = ReadingOf(s, t, f)
        /\ s.statements[Bound(s, Path[t])] \in Statement
    BY InstalledReading DEF SourceInv
  <2>2. Head(Patched(f)).name = Head(f).name /\ Patched(f)[Len(Patched(f))] = f[Len(f)]
    <3> DEFINE Any == [name : {Qualified(s, Path[t]), Elsewhere}, line : {None, Bound(s, Path[t])}]
    <3>1. f \in Seq(Any) /\ f # <<>>
      BY <2>1, FunctionEnds
    <3> HIDE DEF f, s
    <3>2. Head(f) \in Any
      <4> HIDE DEF Any
      <4> QED
        BY <3>1
    <3>3. Head(f) = [name |-> Head(f).name, line |-> Head(f).line]
      BY <3>2
    <3> QED
      BY <3>1, <3>3, PatchedEnds
  <2> HIDE DEF s, f
  <2>3. ReadingOf(s, t, Patched(f)) = ReadingOf(s, t, f)
    BY <2>2, SameEndsSameReading
  <2> QED
    BY <2>1, <2>3 DEF s, f
<1> QED
  BY <1>1, AlwaysSourceInv, PTL

--------------------------------------------------------------------------------
(* What LockCheck assumes of objects.                                                  *)

\* Statement i and, if it is a class, what is in it.
Part(s, i) == {i} \cup {k \in DOMAIN s.statements : s.statements[k].inside = i}

\* What a text has of statement k, and what it has if docstrings are removed.
Whole(s, i, k) == <<k - i, s.statements[k].name,
    <<s.statements[k].kind, s.statements[k].signature, s.statements[k].code,
      s.statements[k].decorator, s.statements[k].doc>>>>
Bare(s, i, k) == <<k - i, s.statements[k].name,
    <<s.statements[k].kind, s.statements[k].signature, s.statements[k].code,
      s.statements[k].decorator, None>>>>

LEMMA TextOfParts ==
    ASSUME NEW s, NEW i
    PROVE  /\ \A k \in Part(s, i) : /\ Whole(s, i, k) \in Text(s, i, TRUE)
                                   /\ Bare(s, i, k) \in Text(s, i, FALSE)
           /\ \A z \in Text(s, i, TRUE) : \E k \in Part(s, i) : z = Whole(s, i, k)
           /\ \A z \in Text(s, i, FALSE) : \E k \in Part(s, i) : z = Bare(s, i, k)
<1>1. /\ Text(s, i, TRUE) = {Whole(s, i, k) : k \in Part(s, i)}
      /\ Text(s, i, FALSE) = {Bare(s, i, k) : k \in Part(s, i)}
  BY DEF Text, Part, Whole, Bare
<1> QED
  BY <1>1

LEMMA BareOfWhole ==
    ASSUME NEW q, NEW i, NEW k, NEW r, NEW j, NEW l, Whole(q, i, k) = Whole(r, j, l)
    PROVE  Bare(q, i, k) = Bare(r, j, l)
BY DEF Whole, Bare

\* Texts that agree with docstrings agree without them.
LEMMA CodeOfText ==
    ASSUME NEW q, NEW i, NEW r, NEW j, Text(q, i, TRUE) = Text(r, j, TRUE)
    PROVE  Text(q, i, FALSE) \subseteq Text(r, j, FALSE)
<1>1. ASSUME NEW k \in Part(q, i) PROVE Bare(q, i, k) \in Text(r, j, FALSE)
  <2>1. Whole(q, i, k) \in Text(r, j, TRUE)
    BY TextOfParts
  <2>2. PICK l \in Part(r, j) : Whole(q, i, k) = Whole(r, j, l)
    <3>1. \A z \in Text(r, j, TRUE) : \E l \in Part(r, j) : z = Whole(r, j, l)
      BY TextOfParts, Zenon
    <3> QED
      BY <2>1, <3>1, Zenon
  <2>3. Bare(q, i, k) = Bare(r, j, l)
    BY <2>2, BareOfWhole
  <2> QED
    BY <2>3, TextOfParts
<1>2. \A z \in Text(q, i, FALSE) : \E k \in Part(q, i) : z = Bare(q, i, k)
  BY TextOfParts, Zenon
<1> QED
  BY <1>1, <1>2, Zenon

\* Both hashes are of one node.
LEMMA BothHashed ==
    ASSUME NEW s, NEW t, NEW f
    PROVE  LET node == Hashed(s, t, f)
           IN  /\ ReadingOf(s, t, f) = [key \in Read |-> ReadingOf(s, t, f)[key]]
               /\ ReadingOf(s, t, f).source = IF node = None THEN None ELSE Text(s, node, TRUE)
               /\ ReadingOf(s, t, f).code = IF node = None THEN None ELSE Text(s, node, FALSE)
<1>1. ReadingOf(s, t, f) = [key \in Read |-> ReadingOf(s, t, f)[key]]
  BY DEF ReadingOf, Read
<1> QED
  BY <1>1 DEF ReadingOf

LEMMA HashedIsStatement ==
    ASSUME NEW r \in Releases, NEW t \in DOMAIN Installed[r], NEW f, Hashed(Library[r], t, f) # None
    PROVE  Hashed(Library[r], t, f) \in DOMAIN Library[r].statements
<1> DEFINE s == Library[r]
           path == f[Len(f)].name.path
           line == f[Len(f)].line
           candidates == Named(s, FirstClass(s, path), path[Len(path)])
<1>1. s.statements \in Seq(Statement)
  BY ReleaseAssumption DEF Release
<1>2. candidates \subseteq DOMAIN s.statements /\ candidates \in SUBSET Nat
  BY <1>1 DEF Named
<1>3. Hashed(s, t, f) = StatementOf(s, path, line)
  BY DEF Hashed
<1>4. candidates # {} => First(candidates) \in candidates
  BY <1>2, FirstOfSet
<1> HIDE DEF path, line
<1>5. StatementOf(s, path, line) \in candidates
  BY <1>3, <1>4 DEF StatementOf
<1> QED
  BY <1>2, <1>3, <1>5

\* What fingerprint() reads off any two releases is what LockCheck assumes of the objects of a
\* target (ObjectsAssumption): all of the fields that are compared and no others, and of
\* two equal sources the code without docstrings is equal, so that compare() need not look
\* at the second hash when the first agrees.
THEOREM ReadingsAreObjects ==
    ASSUME NEW q \in Releases, NEW r \in Releases,
           NEW t \in DOMAIN Installed[q] \cap DOMAIN Installed[r]
    PROVE  LET o == Installed[q][t]
               p == Installed[r][t]
           IN  o = [key \in Read |-> o[key]] /\ (o.source = p.source => o.code = p.code)
<1> DEFINE Node(x) == Hashed(Library[x], t, Function(Library[x], t))
<1>1. ASSUME NEW x \in {q, r}
      PROVE  /\ Installed[x][t] = [key \in Read |-> Installed[x][t][key]]
             /\ Installed[x][t].source = IF Node(x) = None THEN None ELSE Text(Library[x], Node(x), TRUE)
             /\ Installed[x][t].code = IF Node(x) = None THEN None ELSE Text(Library[x], Node(x), FALSE)
             /\ Node(x) # None => Text(Library[x], Node(x), TRUE) # None
  <2>1. Installed[x][t] = ReadingOf(Library[x], t, Function(Library[x], t))
    BY InstalledReading
  <2>2. Node(x) # None => Node(x) \in DOMAIN Library[x].statements
    BY HashedIsStatement
  <2>3. Node(x) # None => Text(Library[x], Node(x), TRUE) # None
    <3> HIDE DEF Node
    <3> QED
      BY <2>2, ReadingAssumption
  <2>4. /\ Installed[x][t] = [key \in Read |-> Installed[x][t][key]]
        /\ Installed[x][t].source = IF Node(x) = None THEN None ELSE Text(Library[x], Node(x), TRUE)
        /\ Installed[x][t].code = IF Node(x) = None THEN None ELSE Text(Library[x], Node(x), FALSE)
    <3> DEFINE s == Library[x]
               f == Function(s, t)
    <3>1. Node(x) = Hashed(s, t, f)
      OBVIOUS
    <3> HIDE DEF Node, s, f
    <3>2. Installed[x][t] = ReadingOf(s, t, f)
      BY <2>1 DEF s, f
    <3>3. /\ Installed[x][t] = [key \in Read |-> Installed[x][t][key]]
          /\ Installed[x][t].source = IF Node(x) = None THEN None ELSE Text(s, Node(x), TRUE)
          /\ Installed[x][t].code = IF Node(x) = None THEN None ELSE Text(s, Node(x), FALSE)
      <4> DEFINE node == Hashed(s, t, f)
                 o == ReadingOf(s, t, f)
      <4>1. /\ o = [key \in Read |-> o[key]]
            /\ o.source = IF node = None THEN None ELSE Text(s, node, TRUE)
            /\ o.code = IF node = None THEN None ELSE Text(s, node, FALSE)
        BY BothHashed, Zenon
      <4> HIDE DEF node, o
      <4> QED
        BY <3>1, <3>2, <4>1 DEF node, o
    <3> QED
      BY <3>3 DEF s
  <2> HIDE DEF Node
  <2> QED
    BY <2>3, <2>4
<1>2. ASSUME Installed[q][t].source = Installed[r][t].source
      PROVE  Installed[q][t].code = Installed[r][t].code
  <2> HIDE DEF Node
  <2>1. CASE Node(q) = None
    BY <1>1, <1>2, <2>1
  <2>2. CASE Node(q) # None
    <3>1. Node(r) # None /\ Text(Library[q], Node(q), TRUE) = Text(Library[r], Node(r), TRUE)
      BY <1>1, <1>2, <2>2
    <3>2. Text(Library[q], Node(q), FALSE) \subseteq Text(Library[r], Node(r), FALSE)
      BY <3>1, CodeOfText
    <3>3. Text(Library[r], Node(r), FALSE) \subseteq Text(Library[q], Node(q), FALSE)
      BY <3>1, CodeOfText
    <3>4. Text(Library[q], Node(q), FALSE) = Text(Library[r], Node(r), FALSE)
      BY <3>2, <3>3
    <3> QED
      BY <1>1, <2>2, <3>1, <3>4
  <2> QED
    BY <2>1, <2>2
<1> QED
  BY <1>1, <1>2

--------------------------------------------------------------------------------
(* mpat diff.                                                                         *)

\* The archive of the locked release holds the source that was hashed, if no other statement
\* is found without its line.
LEMMA ArchiveHoldsSource ==
    ASSUME NEW r \in Releases, NEW t \in DOMAIN Installed[r], ~ FoundElsewhere(Library[r], t),
           NEW entry, entry.file = Installed[r][t].file
    PROVE  LET s == Library[r]
               node == StatementOf(s, Path[t], None)
           IN  Installed[r][t].source =
                  IF entry.file # s.file \/ s.text # "parses" \/ node = None THEN None
                  ELSE Text(s, node, TRUE)
<1> DEFINE s == Library[r]
           f == Function(s, t)
           inner == f[Len(f)]
           i == Bound(s, Path[t])
           d == s.statements[i]
           node == StatementOf(s, Path[t], None)
<1>1. /\ s \in Release /\ Installed[r][t] = ReadingOf(s, t, f)
      /\ s.statements[Bound(s, Path[t])] \in Statement
  BY InstalledReading
<1>2. s.file # None /\ s.file # Decorators
  <2>1. s.file \in Seq(STRING) \ {Decorators}
    BY <1>1 DEF Release
  <2> QED
    BY <2>1, ReleaseAssumption
<1>3. inner = [name |-> Elsewhere, line |-> None] \/
      \E line \in {None, i} : inner = [name |-> Qualified(s, Path[t]), line |-> line]
  BY <1>1, FunctionEnds
<1>4. /\ Elsewhere.file = Decorators /\ Qualified(s, Path[t]).file = s.file
      /\ Qualified(s, Path[t]).path = Path[t] /\ Qualified(s, Path[t]) # Elsewhere
  BY <1>2 DEF Elsewhere, Qualified
<1>5. \A line \in {None, i} : StatementOf(s, Path[t], line) = node
  BY DEF FoundElsewhere
<1>6. \/ inner.name = Elsewhere
      \/ inner.name = Qualified(s, Path[t]) /\ StatementOf(s, inner.name.path, inner.line) = node
  <2> HIDE DEF s, f, inner, i, d, node
  <2>1. CASE inner = [name |-> Elsewhere, line |-> None]
    BY <2>1
  <2>2. ASSUME NEW line \in {None, i}, inner = [name |-> Qualified(s, Path[t]), line |-> line]
        PROVE  inner.name = Qualified(s, Path[t]) /\ StatementOf(s, inner.name.path, inner.line) = node
    BY <1>4, <1>5, <2>2
  <2> QED
    BY <1>3, <2>1, <2>2
<1>7. Hashed(s, t, f) =
        IF d.kind = "constant" \/ s.text # "parses" \/ inner.name = Elsewhere THEN None
        ELSE StatementOf(s, inner.name.path, inner.line)
  BY DEF Hashed
<1>8. /\ Installed[r][t].file =
           IF d.kind = "constant" \/ s.text = "not installed" THEN None ELSE inner.name.file
      /\ Installed[r][t].source =
           IF Hashed(s, t, f) = None THEN None ELSE Text(s, Hashed(s, t, f), TRUE)
  <2> HIDE DEF s, f
  <2> QED
    BY <1>1, ReadingFields
<1> HIDE DEF s, f, inner, i, d, node
<1>9. CASE d.kind = "constant" \/ s.text # "parses" \/ inner.name = Elsewhere
  <2>1. Installed[r][t].source = None
    BY <1>7, <1>8, <1>9
  <2>2. entry.file # s.file \/ s.text # "parses"
    BY <1>2, <1>4, <1>8, <1>9
  <2> QED
    BY <2>1, <2>2 DEF s
<1>10. CASE ~ (d.kind = "constant" \/ s.text # "parses" \/ inner.name = Elsewhere)
  <2>1. Hashed(s, t, f) = node /\ Installed[r][t].file = s.file /\ s.text = "parses"
    BY <1>4, <1>6, <1>7, <1>8, <1>10
  <2> QED
    BY <1>8, <2>1 DEF s, node
<1> QED
  BY <1>9, <1>10

\* A statement is found without its line where it is found with it.
LEMMA FoundAnyway ==
    ASSUME NEW r \in Releases, NEW t \in Targets, NEW line,
           StatementOf(Library[r], Path[t], line) # None
    PROVE  StatementOf(Library[r], Path[t], None) \in DOMAIN Library[r].statements
<1> DEFINE s == Library[r]
           candidates == Named(s, FirstClass(s, Path[t]), Path[t][Len(Path[t])])
<1>1. s.statements \in Seq(Statement)
  BY ReleaseAssumption DEF Release
<1>2. candidates \subseteq DOMAIN s.statements /\ candidates \in SUBSET Nat
  BY <1>1 DEF Named
<1>3. candidates # {}
  BY DEF StatementOf
<1> HIDE DEF candidates
<1>4. First(candidates) \in candidates /\ None \notin candidates
  BY <1>2, <1>3, FirstOfSet, ReleaseAssumption
<1>5. StatementOf(s, Path[t], None) = First(candidates)
  BY <1>3, <1>4 DEF StatementOf, candidates
<1> QED
  BY <1>2, <1>4, <1>5

\* The archive holds some source where one was hashed, and another than that only where
\* another statement is found.
LEMMA ArchiveOfSource ==
    ASSUME NEW r \in Releases, NEW t \in DOMAIN Installed[r],
           NEW entry, entry.file = Installed[r][t].file
    PROVE  LET s == Library[r]
               node == StatementOf(s, Path[t], None)
               side == IF entry.file # s.file \/ s.text # "parses" \/ node = None THEN None
                       ELSE Text(s, node, TRUE)
           IN  /\ Installed[r][t].source # None => side # None
               /\ side \notin {None, Installed[r][t].source} => FoundElsewhere(s, t)
<1> DEFINE s == Library[r]
           f == Function(s, t)
           inner == f[Len(f)]
           i == Bound(s, Path[t])
           d == s.statements[i]
           node == StatementOf(s, Path[t], None)
           side == IF entry.file # s.file \/ s.text # "parses" \/ node = None THEN None
                   ELSE Text(s, node, TRUE)
<1>1. ASSUME ~ FoundElsewhere(s, t) PROVE Installed[r][t].source = side
  BY <1>1, ArchiveHoldsSource
<1>2. ASSUME Installed[r][t].source # None PROVE side # None
  <2>1. /\ t \in Targets /\ Installed[r][t] = ReadingOf(s, t, f)
        /\ s.statements[Bound(s, Path[t])] \in Statement
    BY InstalledReading
  <2>2. inner = [name |-> Elsewhere, line |-> None] \/
        \E line \in {None, i} : inner = [name |-> Qualified(s, Path[t]), line |-> line]
    BY <2>1, FunctionEnds
  <2>3. /\ Installed[r][t].file =
             IF d.kind = "constant" \/ s.text = "not installed" THEN None ELSE inner.name.file
        /\ Installed[r][t].source =
             IF Hashed(s, t, f) = None THEN None ELSE Text(s, Hashed(s, t, f), TRUE)
    <3> HIDE DEF s, f
    <3> QED
      BY <2>1, ReadingFields
  <2>4. Hashed(s, t, f) # None
    BY <1>2, <2>3
  <2>5. /\ d.kind # "constant" /\ s.text = "parses" /\ inner.name # Elsewhere
        /\ StatementOf(s, inner.name.path, inner.line) # None
    <3> HIDE DEF s, f
    <3> QED
      BY <2>4 DEF Hashed
  <2>6. inner.name = Qualified(s, Path[t])
    <3> HIDE DEF s, f, inner, i
    <3> QED
      BY <2>2, <2>5
  <2>7. inner.name.path = Path[t] /\ inner.name.file = s.file
    BY <2>6 DEF Qualified
  <2>8. node \in DOMAIN s.statements
    <3> HIDE DEF f, inner
    <3> QED
      BY <2>1, <2>5, <2>7, FoundAnyway
  <2>9. node # None /\ Text(s, node, TRUE) # None
    <3>1. s.statements \in Seq(Statement)
      BY ReleaseAssumption DEF Release
    <3>2. node \in Nat
      BY <2>8, <3>1
    <3>3. Text(s, node, TRUE) # None
      <4> HIDE DEF node
      <4> QED
        BY <2>8, ReadingAssumption
    <3> HIDE DEF node
    <3> QED
      BY <3>2, <3>3, ReleaseAssumption
  <2>10. entry.file = s.file
    <3> HIDE DEF f, inner, s, d
    <3> QED
      BY <2>3, <2>5, <2>7
  <2> HIDE DEF node, s
  <2> QED
    BY <2>5, <2>9, <2>10
<1> HIDE DEF side
<1>3. /\ Installed[r][t].source # None => side # None
      /\ side \notin {None, Installed[r][t].source} => FoundElsewhere(s, t)
  BY <1>1, <1>2
<1> QED
  BY <1>3 DEF side

\* The source of an entry is that of the object, and "body" and "docstring" are said of a
\* source that is there and is another.
LEMMA DriftedSource ==
    ASSUME NEW e, NEW o, Compare(e, o) \in {"body", "docstring"}
    PROVE  o.source # None /\ o.source # e.source
BY DEF Compare

LEMMA SourceIsFingerprinted ==
    ASSUME NEW t \in Targets, NEW o \in Objects[t], NEW track
    PROVE  LET fp == Fingerprint(o, track)
           IN  fp.source = o.source /\ fp.code = o.code /\ fp.file = o.file
<1>1. o = [key \in Read |-> o[key]]
  BY ObjectsAssumption
<1> QED
  BY <1>1 DEF Fingerprint, Read

\* Of a target whose body or docstring drifted, however often its name is bound, `mpat diff`
\* shows two sides that differ, or warns that the downloaded one is not what was hashed;
\* and it warns only if another statement of the name is found without its line.
THEOREM DriftsAreShown == SourceSpec => []DriftIsShown
<1>1. SourceInv /\ CheckInv => DriftIsShown
  <2> SUFFICES ASSUME SourceInv, CheckInv, NEW t \in Wanted(project) \cap DOMAIN lock,
                      Check(project)[t] \in {"body", "docstring"}
               PROVE  /\ InstalledSide(t) # None
                      /\ Parsed(lock[t]).source # None => LockedSide(t) # None
                      /\ Warned(t) \/ LockedSide(t) # InstalledSide(t)
                      /\ Warned(t) => FoundElsewhere(Library[lockedRelease], t)
    BY DEF DriftIsShown
  <2> DEFINE w == Expand(project)[t]
             then == Expand(audited.project)[t]
             old == audited.upstream[t]
             entry == Parsed(lock[t])
             now == Fingerprint(upstream[t], w.track)
  <2>1. t \in Targets /\ t \in DOMAIN upstream /\ Compare(entry, now) \in {"body", "docstring"}
    <3>1. Check(project)[t] = Status(t, w)
      BY DEF Check
    <3>2. t \in Targets
      BY DEF CheckInv, TypeOK
    <3> HIDE DEF w
    <3> QED
      BY <3>1, <3>2 DEF Status, Compared, w
  <2>2. t \in DOMAIN audited.upstream /\ entry = Entry(then, old)
    BY LockedEntry
  <2>3. lockedRelease \in Releases /\ audited.upstream = Installed[lockedRelease]
    <3>1. lockedRelease # None
      <4> SUFFICES ASSUME lockedRelease = None PROVE FALSE
        OBVIOUS
      <4>1. DOMAIN lock = Wanted(<<>>)
        BY DEF SourceInv, LockOf
      <4> QED
        BY <4>1, EmptyProject
    <3> QED
      BY <3>1 DEF SourceInv
  <2>4. upstream[t] \in Objects[t] /\ old \in Objects[t]
    BY <2>1, <2>2 DEF CheckInv, TypeOK
  <2>5. entry.source = old.source /\ entry.file = old.file
    BY <2>1, <2>2, <2>4, EntryFields, SourceIsFingerprinted DEF Read
  <2>6. now.source = upstream[t].source
    BY <2>1, <2>4, SourceIsFingerprinted
  <2>7. upstream[t].source # None /\ upstream[t].source # entry.source
    <3> HIDE DEF entry, now
    <3> QED
      BY <2>1, <2>6, DriftedSource
  <2>8. /\ entry.source # None => LockedSide(t) # None
        /\ LockedSide(t) \notin {None, entry.source} => FoundElsewhere(Library[lockedRelease], t)
    <3>1. entry.source = Installed[lockedRelease][t].source
      BY <2>3, <2>5
    <3> HIDE DEF old
    <3>2. /\ Installed[lockedRelease][t].source # None => LockedSide(t) # None
          /\ LockedSide(t) \notin {None, Installed[lockedRelease][t].source} =>
                FoundElsewhere(Library[lockedRelease], t)
      BY <2>2, <2>3, <2>5, ArchiveOfSource DEF LockedSide, InArchive, old
    <3> QED
      BY <3>1, <3>2
  <2>9. InstalledSide(t) = upstream[t].source
    BY <2>1 DEF SourceInv, InstalledSide
  <2> QED
    BY <2>7, <2>8, <2>9 DEF Warned
<1> QED
  BY <1>1, AlwaysSourceInv, AlwaysLockInv, PTL

--------------------------------------------------------------------------------
(* The code that runs.                                                                *)

\* A walk of k steps through V.
Walk(g, k, V, start, Step) ==
    /\ g \in [0 .. k -> V] /\ g[0] = start
    /\ \A n \in 1 .. k : g[n] = Step[<<g[n - 1], n>>]

\* Each place is reached from the one before.
LEMMA WalkExists ==
    ASSUME NEW K \in Nat, NEW V, NEW start \in V, NEW Step \in [V \X (1 .. K) -> V]
    PROVE  \E g : Walk(g, K, V, start, Step)
<1> DEFINE IsWalk(g, k) == Walk(g, k, V, start, Step)
           bad == {k \in 0 .. K : ~ \E g : IsWalk(g, k)}
<1>1. \E g : IsWalk(g, 0)
  <2>1. IsWalk([n \in 0 .. 0 |-> start], 0)
    BY DEF Walk
  <2> QED
    BY <2>1
<1>2. ASSUME NEW k \in 1 .. K, NEW g, IsWalk(g, k - 1)
      PROVE  \E h : IsWalk(h, k)
  <2> DEFINE h == [n \in 0 .. k |-> IF n = k THEN Step[<<g[k - 1], k>>] ELSE g[n]]
  <2>1. g[k - 1] \in V /\ g[0] = start /\ g \in [0 .. k - 1 -> V]
    BY <1>2 DEF Walk
  <2>2. Step[<<g[k - 1], k>>] \in V
    BY <2>1
  <2>3. \A n \in 0 .. k : n # k => n \in 0 .. k - 1
    OBVIOUS
  <2>4. h \in [0 .. k -> V] /\ h[0] = start
    BY <2>1, <2>2, <2>3
  <2>5. \A n \in 1 .. k : h[n] = Step[<<h[n - 1], n>>]
    <3> SUFFICES ASSUME NEW n \in 1 .. k PROVE h[n] = Step[<<h[n - 1], n>>]
      OBVIOUS
    <3>1. n - 1 \in 0 .. k /\ n - 1 # k /\ h[n - 1] = g[n - 1]
      OBVIOUS
    <3>2. CASE n = k
      BY <3>1, <3>2
    <3>3. CASE n # k
      <4>1. n \in 1 .. k - 1 /\ h[n] = g[n]
        BY <3>3
      <4>2. g[n] = Step[<<g[n - 1], n>>]
        BY <1>2, <4>1 DEF Walk
      <4> QED
        BY <3>1, <4>1, <4>2
    <3> QED
      BY <3>2, <3>3
  <2>6. IsWalk(h, k)
    <3> HIDE DEF h
    <3> QED
      BY <2>4, <2>5 DEF Walk
  <2> QED
    BY <2>6
<1> HIDE DEF IsWalk
<1>3. bad = {}
  <2> SUFFICES ASSUME bad # {} PROVE FALSE
    OBVIOUS
  <2>1. bad \in SUBSET Nat
    OBVIOUS
  <2>2. First(bad) \in bad /\ \A k \in bad : First(bad) <= k
    BY <2>1, FirstOfSet
  <2> DEFINE k == First(bad)
  <2>3. k \in 0 .. K /\ ~ \E g : IsWalk(g, k)
    BY <2>2
  <2> HIDE DEF k
  <2>4. k \in 1 .. K
    BY <1>1, <2>3
  <2>5. k - 1 \in 0 .. K /\ k - 1 \notin bad
    <3>1. \A j \in bad : k <= j
      BY <2>2 DEF k
    <3> HIDE DEF bad
    <3> QED
      BY <2>4, <3>1
  <2>6. \E g : IsWalk(g, k - 1)
    BY <2>5
  <2> QED
    BY <1>2, <2>3, <2>4, <2>6
<1>4. \E g : IsWalk(g, K)
  BY <1>3
<1> QED
  BY <1>4 DEF IsWalk

\* Where the walk along a path can be.
Places(s) == DOMAIN s.statements \cup {0, None}

LEMMA StatementsOf ==
    ASSUME NEW s \in Release
    PROVE  /\ Len(s.statements) \in Nat /\ DOMAIN s.statements = 1 .. Len(s.statements)
           /\ \A i \in DOMAIN s.statements : s.statements[i] \in Statement
<1>1. s.statements \in Seq(Statement)
  BY DEF Release
<1> QED
  BY <1>1

\* What runs and what _iter_defs() finds are statements of the file.
LEMMA RanIsPlace ==
    ASSUME NEW s \in Release, NEW where, NEW name, Ran(s, where, name) # {}
    PROVE  /\ Latest(Ran(s, where, name)) \in Ran(s, where, name)
           /\ Latest(Ran(s, where, name)) \in Places(s)
<1>1. Ran(s, where, name) \in SUBSET (0 .. Len(s.statements))
  BY StatementsOf DEF Ran
<1>2. Latest(Ran(s, where, name)) \in Ran(s, where, name)
  BY <1>1, StatementsOf, LatestOfSet
<1> QED
  BY <1>2 DEF Ran, Places

LEMMA NamedIsPlace ==
    ASSUME NEW s \in Release, NEW where, NEW name, Named(s, where, name) # {}
    PROVE  /\ First(Named(s, where, name)) \in Named(s, where, name)
           /\ First(Named(s, where, name)) \in Places(s)
<1>1. Named(s, where, name) \in SUBSET Nat
  BY StatementsOf DEF Named
<1>2. First(Named(s, where, name)) \in Named(s, where, name)
  BY <1>1, FirstOfSet
<1> QED
  BY <1>2 DEF Named, Places

\* The classes importing the module passes on the way to the target.
LEMMA LiveWalk ==
    ASSUME NEW s \in Release, NEW path \in Seq(STRING), path # <<>>
    PROVE  \E at \in [0 .. Len(path) - 1 -> Places(s)] :
              /\ at[0] = 0
              /\ \A n \in 1 .. Len(path) - 1 :
                    at[n] = IF Ran(s, at[n - 1], path[n]) = {} THEN None
                            ELSE Latest(Ran(s, at[n - 1], path[n]))
              /\ LiveClass(s, path) = at[Len(path) - 1]
<1> DEFINE K == Len(path) - 1
           V == Places(s)
           Step == [p \in V \X (1 .. K) |-> IF Ran(s, p[1], path[p[2]]) = {} THEN None
                                           ELSE Latest(Ran(s, p[1], path[p[2]]))]
           Defined(at) == at = [n \in 0 .. Len(path) - 1 |->
                                   IF n = 0 THEN 0
                                   ELSE IF Ran(s, at[n - 1], path[n]) = {} THEN None
                                   ELSE Latest(Ran(s, at[n - 1], path[n]))]
           at == CHOOSE g : Defined(g)
<1>1. K \in Nat
  OBVIOUS
<1>2. 0 \in V /\ None \in V
  BY DEF Places
<1>3. Step \in [V \X (1 .. K) -> V]
  BY <1>2, RanIsPlace
<1>4. PICK g : g \in [0 .. K -> V] /\ g[0] = 0 /\ \A n \in 1 .. K : g[n] = Step[<<g[n - 1], n>>]
  <2> HIDE DEF K, V, Step
  <2>1. \E g : Walk(g, K, V, 0, Step)
    BY <1>1, <1>2, <1>3, WalkExists
  <2> QED
    BY <2>1 DEF Walk
<1>5. \A n \in 1 .. K : g[n] = IF Ran(s, g[n - 1], path[n]) = {} THEN None
                              ELSE Latest(Ran(s, g[n - 1], path[n]))
  <2> SUFFICES ASSUME NEW n \in 1 .. K
               PROVE  g[n] = IF Ran(s, g[n - 1], path[n]) = {} THEN None
                             ELSE Latest(Ran(s, g[n - 1], path[n]))
    OBVIOUS
  <2>1. n - 1 \in 0 .. K
    BY <1>1
  <2>2. <<g[n - 1], n>> \in V \X (1 .. K)
    <3> HIDE DEF K, V
    <3> QED
      BY <1>4, <2>1
  <2>3. g[n] = Step[<<g[n - 1], n>>]
    BY <1>4
  <2> QED
    BY <2>2, <2>3
<1>6. Defined(g)
  <2>1. \A n \in 0 .. K : n # 0 => n \in 1 .. K
    BY <1>1
  <2>2. g = [n \in 0 .. K |-> g[n]]
    BY <1>4
  <2> QED
    BY <1>4, <1>5, <2>1, <2>2
<1>7. Defined(at)
  <2> HIDE DEF Defined
  <2> QED
    BY <1>6
<1>8. LiveClass(s, path) = at[Len(path) - 1]
  BY DEF LiveClass
<1> HIDE DEF at
<1>9. /\ at[0] = 0
      /\ \A n \in 1 .. Len(path) - 1 :
            at[n] = IF Ran(s, at[n - 1], path[n]) = {} THEN None
                    ELSE Latest(Ran(s, at[n - 1], path[n]))
  <2>1. at[0] = 0
    BY <1>1, <1>7
  <2>2. ASSUME NEW n \in 1 .. K
        PROVE  at[n] = IF Ran(s, at[n - 1], path[n]) = {} THEN None
                       ELSE Latest(Ran(s, at[n - 1], path[n]))
    <3>1. n \in 0 .. K /\ n # 0
      BY <1>1
    <3> QED
      BY <1>7, <3>1
  <2> HIDE DEF Defined
  <2> QED
    BY <2>1, <2>2
<1>10. at \in [0 .. Len(path) - 1 -> Places(s)]
  <2>1. \A n \in 1 .. Len(path) - 1 : at[n] \in Places(s)
    BY <1>2, <1>9, RanIsPlace
  <2>2. \A n \in 0 .. Len(path) - 1 : at[n] \in Places(s)
    BY <1>1, <1>2, <1>9, <2>1
  <2>3. at = [n \in 0 .. Len(path) - 1 |-> at[n]]
    BY <1>7
  <2> HIDE DEF Defined
  <2> QED
    BY <2>2, <2>3
<1> QED
  BY <1>8, <1>9, <1>10

\* The statements definition_node() passes on the way to the target.
LEMMA FirstWalk ==
    ASSUME NEW s \in Release, NEW path \in Seq(STRING), path # <<>>
    PROVE  \E body \in [0 .. Len(path) - 1 -> Places(s)] :
              /\ body[0] = 0
              /\ \A n \in 1 .. Len(path) - 1 :
                    body[n] = IF Named(s, body[n - 1], path[n]) = {} THEN None
                            ELSE First(Named(s, body[n - 1], path[n]))
              /\ FirstClass(s, path) = body[Len(path) - 1]
<1> DEFINE K == Len(path) - 1
           V == Places(s)
           Step == [p \in V \X (1 .. K) |-> IF Named(s, p[1], path[p[2]]) = {} THEN None
                                           ELSE First(Named(s, p[1], path[p[2]]))]
           Defined(body) == body = [n \in 0 .. Len(path) - 1 |->
                                   IF n = 0 THEN 0
                                   ELSE IF Named(s, body[n - 1], path[n]) = {} THEN None
                                   ELSE First(Named(s, body[n - 1], path[n]))]
           body == CHOOSE g : Defined(g)
<1>1. K \in Nat
  OBVIOUS
<1>2. 0 \in V /\ None \in V
  BY DEF Places
<1>3. Step \in [V \X (1 .. K) -> V]
  BY <1>2, NamedIsPlace
<1>4. PICK g : g \in [0 .. K -> V] /\ g[0] = 0 /\ \A n \in 1 .. K : g[n] = Step[<<g[n - 1], n>>]
  <2> HIDE DEF K, V, Step
  <2>1. \E g : Walk(g, K, V, 0, Step)
    BY <1>1, <1>2, <1>3, WalkExists
  <2> QED
    BY <2>1 DEF Walk
<1>5. \A n \in 1 .. K : g[n] = IF Named(s, g[n - 1], path[n]) = {} THEN None
                              ELSE First(Named(s, g[n - 1], path[n]))
  <2> SUFFICES ASSUME NEW n \in 1 .. K
               PROVE  g[n] = IF Named(s, g[n - 1], path[n]) = {} THEN None
                             ELSE First(Named(s, g[n - 1], path[n]))
    OBVIOUS
  <2>1. n - 1 \in 0 .. K
    BY <1>1
  <2>2. <<g[n - 1], n>> \in V \X (1 .. K)
    <3> HIDE DEF K, V
    <3> QED
      BY <1>4, <2>1
  <2>3. g[n] = Step[<<g[n - 1], n>>]
    BY <1>4
  <2> QED
    BY <2>2, <2>3
<1>6. Defined(g)
  <2>1. \A n \in 0 .. K : n # 0 => n \in 1 .. K
    BY <1>1
  <2>2. g = [n \in 0 .. K |-> g[n]]
    BY <1>4
  <2> QED
    BY <1>4, <1>5, <2>1, <2>2
<1>7. Defined(body)
  <2> HIDE DEF Defined
  <2> QED
    BY <1>6
<1>8. FirstClass(s, path) = body[Len(path) - 1]
  BY DEF FirstClass
<1> HIDE DEF body
<1>9. /\ body[0] = 0
      /\ \A n \in 1 .. Len(path) - 1 :
            body[n] = IF Named(s, body[n - 1], path[n]) = {} THEN None
                    ELSE First(Named(s, body[n - 1], path[n]))
  <2>1. body[0] = 0
    BY <1>1, <1>7
  <2>2. ASSUME NEW n \in 1 .. K
        PROVE  body[n] = IF Named(s, body[n - 1], path[n]) = {} THEN None
                       ELSE First(Named(s, body[n - 1], path[n]))
    <3>1. n \in 0 .. K /\ n # 0
      BY <1>1
    <3> QED
      BY <1>7, <3>1
  <2> HIDE DEF Defined
  <2> QED
    BY <2>1, <2>2
<1>10. body \in [0 .. Len(path) - 1 -> Places(s)]
  <2>1. \A n \in 1 .. Len(path) - 1 : body[n] \in Places(s)
    BY <1>2, <1>9, NamedIsPlace
  <2>2. \A n \in 0 .. Len(path) - 1 : body[n] \in Places(s)
    BY <1>1, <1>2, <1>9, <2>1
  <2>3. body = [n \in 0 .. Len(path) - 1 |-> body[n]]
    BY <1>7
  <2> HIDE DEF Defined
  <2> QED
    BY <2>2, <2>3
<1> QED
  BY <1>8, <1>9, <1>10

\* A class statement that is the only one of its name is where importing the module goes
\* and where definition_node() goes.
LEMMA SameClass ==
    ASSUME NEW r \in Releases, NEW path \in Seq(STRING), path # <<>>,
           Unambiguous(Library[r], path), Bound(Library[r], path) # None
    PROVE  FirstClass(Library[r], path) = LiveClass(Library[r], path)
<1> DEFINE s == Library[r]
           K == Len(path) - 1
<1>1. s \in Release
  BY ReleaseAssumption
<1>2. \A i \in DOMAIN s.statements : s.statements[i].inside # 0 =>
        s.statements[s.statements[i].inside].kind = "class"
  BY ReleaseAssumption
<1>3. /\ K \in Nat /\ Len(path) = K + 1 /\ DOMAIN path = 1 .. Len(path)
      /\ \A i \in DOMAIN s.statements : i \in Nat /\ i # 0 /\ s.statements[i].inside \in Nat
  BY <1>1, StatementsOf DEF Statement
<1>4. PICK at \in [0 .. K -> Places(s)] :
        /\ at[0] = 0
        /\ \A n \in 1 .. K : at[n] = IF Ran(s, at[n - 1], path[n]) = {} THEN None
                                     ELSE Latest(Ran(s, at[n - 1], path[n]))
        /\ LiveClass(s, path) = at[K]
  BY <1>1, LiveWalk
<1>5. PICK body \in [0 .. K -> Places(s)] :
        /\ body[0] = 0
        /\ \A n \in 1 .. K : body[n] = IF Named(s, body[n - 1], path[n]) = {} THEN None
                                       ELSE First(Named(s, body[n - 1], path[n]))
        /\ FirstClass(s, path) = body[K]
  BY <1>1, FirstWalk
<1>6. Ran(s, at[K], path[K + 1]) # {}
  BY <1>3, <1>4 DEF Bound
<1> HIDE DEF s, K
<1>7. \A name : Ran(s, None, name) = {}
  BY <1>3, ReleaseAssumption DEF Ran
<1>8. \A n \in 0 .. K : Ran(s, at[n], path[n + 1]) # {}
  <2> DEFINE gone == {n \in 0 .. K : Ran(s, at[n], path[n + 1]) = {}}
  <2> SUFFICES ASSUME gone # {} PROVE FALSE
    OBVIOUS
  <2>1. gone \in SUBSET (0 .. K)
    OBVIOUS
  <2>2. Latest(gone) \in gone /\ \A j \in gone : j <= Latest(gone)
    BY <1>3, <2>1, LatestOfSet
  <2> DEFINE n == Latest(gone)
  <2>3. n \in 0 .. K /\ Ran(s, at[n], path[n + 1]) = {} /\ n + 1 \notin gone
    <3>1. \A j \in gone : j <= n
      BY <2>2
    <3>2. n \in 0 .. K /\ Ran(s, at[n], path[n + 1]) = {}
      BY <2>2
    <3> HIDE DEF n, gone
    <3> QED
      BY <3>1, <3>2
  <2> HIDE DEF n
  <2>4. n \in 0 .. K - 1
    BY <1>3, <1>6, <2>3
  <2>5. n + 1 \in 1 .. K /\ (n + 1) - 1 = n
    BY <1>3, <2>4
  <2>6. at[n + 1] = None
    BY <1>4, <2>3, <2>5
  <2>7. n + 1 \in gone
    BY <1>7, <2>5, <2>6
  <2> QED
    BY <2>3, <2>7
<1>9. ASSUME NEW n \in 1 .. K
      PROVE  at[n] \in Ran(s, at[n - 1], path[n]) /\ s.statements[at[n]].kind = "class"
  <2>1. n - 1 \in 0 .. K /\ n \in 0 .. K /\ (n - 1) + 1 = n
    BY <1>3
  <2>2. Ran(s, at[n - 1], path[n]) # {} /\ Ran(s, at[n], path[n + 1]) # {}
    BY <1>8, <2>1
  <2>3. at[n] \in Ran(s, at[n - 1], path[n])
    <3>1. at[n] = Latest(Ran(s, at[n - 1], path[n]))
      BY <1>4, <2>2
    <3>2. Latest(Ran(s, at[n - 1], path[n])) \in Ran(s, at[n - 1], path[n])
      BY <1>1, <2>2, RanIsPlace, Zenon
    <3> QED
      BY <3>1, <3>2
  <2>4. PICK i \in DOMAIN s.statements : s.statements[i].inside = at[n]
    BY <2>2 DEF Ran
  <2>5. at[n] # 0
    BY <1>3, <2>3 DEF Ran
  <2> QED
    BY <1>2, <2>3, <2>4, <2>5 DEF s
<1>10. ASSUME NEW n \in 1 .. K, at[n - 1] = body[n - 1]
       PROVE  at[n] = body[n]
  <2>1. /\ at[n] \in DOMAIN s.statements /\ s.statements[at[n]].inside = body[n - 1]
        /\ s.statements[at[n]].name = path[n] /\ s.statements[at[n]].kind = "class"
    BY <1>9, <1>10 DEF Ran
  <2>2. at[n] \in Named(s, body[n - 1], path[n])
    BY <2>1 DEF Named
  <2>3. body[n] \in Named(s, body[n - 1], path[n])
    <3>1. Named(s, body[n - 1], path[n]) # {}
      BY <2>2
    <3>2. body[n] = First(Named(s, body[n - 1], path[n]))
      BY <1>5, <3>1
    <3>3. First(Named(s, body[n - 1], path[n])) \in Named(s, body[n - 1], path[n])
      BY <1>1, <3>1, NamedIsPlace, Zenon
    <3> QED
      BY <3>2, <3>3
  <2>4. n \in DOMAIN path /\ n < Len(path)
    BY <1>3
  <2>5. \A i, j \in {k \in DOMAIN s.statements : /\ s.statements[k].name = path[n]
                                                 /\ s.statements[k].kind # "constant"} : i = j
    BY <2>4 DEF Unambiguous, s
  <2> QED
    BY <2>2, <2>3, <2>5 DEF Named
<1>11. at[K] = body[K]
  <2> DEFINE bad == {n \in 0 .. K : at[n] # body[n]}
  <2> SUFFICES ASSUME bad # {} PROVE FALSE
    BY <1>3
  <2>1. bad \in SUBSET Nat
    BY <1>3
  <2>2. First(bad) \in bad /\ \A j \in bad : First(bad) <= j
    BY <2>1, FirstOfSet
  <2> DEFINE n == First(bad)
  <2>3. n \in 0 .. K /\ at[n] # body[n] /\ n - 1 \notin bad
    <3>1. \A j \in bad : n <= j
      BY <2>2
    <3>2. n \in 0 .. K /\ at[n] # body[n]
      BY <2>2
    <3> HIDE DEF n, bad
    <3> QED
      BY <3>1, <3>2
  <2> HIDE DEF n
  <2>4. n \in 1 .. K
    BY <1>3, <1>4, <1>5, <2>3
  <2>5. at[n - 1] = body[n - 1]
    BY <1>3, <2>3, <2>4
  <2> QED
    BY <1>10, <2>3, <2>4, <2>5
<1> QED
  BY <1>4, <1>5, <1>11 DEF s

\* Of an unambiguous target that has a source, the statement that runs is hashed.
LEMMA HashedIsLive ==
    ASSUME NEW t \in Targets, NEW r \in UnambiguouslyReadable[t]
    PROVE  LET s == Library[r]
               i == Bound(s, Path[t])
           IN  /\ r \in Releases /\ t \in DOMAIN Installed[r] /\ r \in Readable[t]
               /\ Installed[r][t].source = Text(s, i, TRUE) /\ Installed[r][t].source # None
               /\ Installed[r][t].code = Text(s, i, FALSE) /\ Installed[r][t].code # None
<1> DEFINE s == Library[r]
           path == Path[t]
           f == Function(s, t)
           i == Bound(s, path)
           d == s.statements[i]
           node == Hashed(s, t, f)
           inner == f[Len(f)]
<1>1. /\ r \in Releases /\ t \in DOMAIN Installed[r] /\ r \in Readable[t]
      /\ Installed[r][t].source # None /\ Unambiguous(s, path)
  BY DEF UnambiguouslyReadable, Readable
<1>2. /\ Installed[r][t] = ReadingOf(s, t, f) /\ s \in Release
      /\ i \in Nat /\ i # None /\ d \in Statement
  BY <1>1, InstalledReading
<1>3. /\ Installed[r][t].source = IF node = None THEN None ELSE Text(s, node, TRUE)
      /\ Installed[r][t].code = IF node = None THEN None ELSE Text(s, node, FALSE)
  <2>1. /\ ReadingOf(s, t, f).source = IF node = None THEN None ELSE Text(s, node, TRUE)
        /\ ReadingOf(s, t, f).code = IF node = None THEN None ELSE Text(s, node, FALSE)
    BY DEF ReadingOf
  <2> QED
    BY <1>2, <2>1
<1>4. node # None
  BY <1>1, <1>3
<1>5. node = IF d.kind = "constant" \/ s.text # "parses" \/ inner.name = Elsewhere THEN None
             ELSE StatementOf(s, inner.name.path, inner.line)
  BY DEF Hashed
<1>6. path \in Seq(STRING) /\ path # <<>> /\ Len(path) \in DOMAIN path
  <2>1. path \in Seq(STRING) /\ path # <<>>
    BY ReleaseAssumption
  <2> QED
    BY <2>1
<1>7. FirstClass(s, path) = LiveClass(s, path)
  BY <1>1, <1>2, <1>6, SameClass
<1>8. /\ d.kind # "constant" /\ inner.name # Elsewhere
      /\ node = StatementOf(s, inner.name.path, inner.line)
  BY <1>4, <1>5
<1>9. inner = [name |-> Qualified(s, path), line |-> IF d.kind = "class" THEN None ELSE i]
  <2> DEFINE line == IF d.kind = "class" THEN None ELSE i
             def == [name |-> Qualified(s, path), line |-> line]
             local == [name |-> Elsewhere, line |-> None]
             wrapper == [def EXCEPT !.line = None]
  <2>1. f = CASE d.decorator = "none" -> <<def>>
              [] d.decorator = "wraps" -> <<wrapper, def>>
              [] d.decorator = "opaque" -> <<local>>
    BY DEF Function
  <2>2. d.decorator \in {"none", "wraps", "opaque"}
    BY <1>2 DEF Statement
  <2>3. local.name = Elsewhere
    OBVIOUS
  <2> HIDE DEF f, d, def, local, wrapper
  <2>4. f = <<def>> \/ f = <<wrapper, def>> \/ f = <<local>>
    BY <2>1, <2>2
  <2>5. inner = def \/ inner = local
    BY <2>4
  <2>6. inner = def
    BY <1>8, <2>3, <2>5
  <2> QED
    BY <2>6 DEF def
<1>10. node = StatementOf(s, path, IF d.kind = "class" THEN None ELSE i)
  <2>1. inner.name.path = path /\ inner.line = IF d.kind = "class" THEN None ELSE i
    BY <1>9 DEF Qualified
  <2> QED
    BY <1>8, <2>1
<1> DEFINE ran == Ran(s, LiveClass(s, path), path[Len(path)])
           candidates == Named(s, FirstClass(s, path), path[Len(path)])
<1>11. i \in ran
  <2>1. ran # {} /\ i = Latest(ran)
    BY <1>2 DEF Bound
  <2> QED
    BY <1>2, <2>1, RanIsPlace
<1>12. i \in candidates
  BY <1>7, <1>8, <1>11 DEF Ran, Named
<1>13. node = i
  <2>1. StatementOf(s, path, IF d.kind = "class" THEN None ELSE i) =
          IF candidates = {} THEN None
          ELSE IF (IF d.kind = "class" THEN None ELSE i) \in candidates
               THEN IF d.kind = "class" THEN None ELSE i
               ELSE First(candidates)
    BY DEF StatementOf
  <2>2. CASE d.kind # "class"
    <3> HIDE DEF candidates, s, d, node
    <3> QED
      BY <1>10, <1>12, <2>1, <2>2
  <2>3. CASE d.kind = "class"
    <3>1. None \notin candidates
      BY <1>2, StatementsOf, ReleaseAssumption DEF Named
    <3>2. First(candidates) \in candidates
      BY <1>2, <1>12, NamedIsPlace
    <3>3. node = First(candidates)
      <4> HIDE DEF candidates, s, d, node
      <4> QED
        BY <1>10, <1>12, <2>1, <2>3, <3>1
    <3> DEFINE same == {k \in DOMAIN s.statements : /\ s.statements[k].name = path[Len(path)]
                                                    /\ s.statements[k].kind # "constant"}
    <3>4. candidates \subseteq same
      BY DEF Named
    <3>5. i \in same /\ s.statements[i].kind = "class"
      BY <1>12, <2>3, <3>4
    <3>6. \A j, k \in same : j = k
      BY <1>1, <1>6, <3>5 DEF Unambiguous
    <3> HIDE DEF candidates, same, node
    <3> QED
      BY <1>12, <3>2, <3>3, <3>4, <3>6
  <2> QED
    BY <2>2, <2>3
<1>14. i \in DOMAIN s.statements
  BY <1>11 DEF Ran
<1>15. Text(s, i, FALSE) # None
  BY <1>1, <1>14, ReadingAssumption
<1> HIDE DEF node, f
<1> QED
  BY <1>1, <1>3, <1>4, <1>13, <1>15


\* What compare() says of two sources that were both read.
LEMMA SourcesCompared ==
    ASSUME NEW e, NEW o, e.source # None, o.source # None, e.code # None
    PROVE  /\ Compare(e, o) = "ok" => e.source = o.source
           /\ Compare(e, o) = "docstring" => e.code = o.code
           /\ Compare(e, o) = "body" => e.code # o.code
BY DEF Compare

\* The status of a target that has a source is about the statement that runs, however often
\* its name is bound in the file, if no other def or class has the name of a class on the
\* way: "ok" means that it is the locked one, "docstring" that it is but for docstrings,
\* "body" that it is not.
THEOREM StatusTellsOfLiveCode == SourceSpec => []StatusIsOfLiveCode
<1>1. SourceInv /\ CheckInv => StatusIsOfLiveCode
  <2> SUFFICES ASSUME SourceInv, CheckInv, NEW t \in Wanted(project) \cap DOMAIN lock,
                      {release, lockedRelease} \subseteq UnambiguouslyReadable[t]
               PROVE  TellsTheChange(t, Check(project)[t])
    BY DEF StatusIsOfLiveCode, StatusIsOfCodeIn
  <2> DEFINE w == Expand(project)[t]
             then == Expand(audited.project)[t]
             new == Installed[release][t]
             old == Installed[lockedRelease][t]
             entry == Parsed(lock[t])
             now == Fingerprint(upstream[t], w.track)
             Locked(docs) == Text(Library[lockedRelease], Bound(Library[lockedRelease], Path[t]), docs)
             Present(docs) == Text(Library[release], Bound(Library[release], Path[t]), docs)
  <2>1. t \in Targets
    BY DEF CheckInv, TypeOK
  <2>2. /\ lockedRelease \in Releases /\ lockedRelease \in Readable[t]
        /\ old.source = Locked(TRUE) /\ old.source # None
        /\ old.code = Locked(FALSE) /\ old.code # None
    BY <2>1, HashedIsLive
  <2>3. /\ t \in DOMAIN Installed[release] /\ release \in Readable[t]
        /\ new.source = Present(TRUE) /\ new.source # None
        /\ new.code = Present(FALSE)
    BY <2>1, HashedIsLive
  <2>4. audited.upstream = Installed[lockedRelease] /\ upstream = Installed[release]
    BY <2>2, ReleaseAssumption DEF SourceInv
  <2>5. t \in DOMAIN audited.upstream /\ entry = Entry(then, audited.upstream[t])
    BY LockedEntry
  <2>6. audited.upstream[t] \in Objects[t] /\ upstream[t] \in Objects[t]
    BY <2>3, <2>4, <2>5 DEF CheckInv, TypeOK
  <2>7. entry.source = old.source /\ entry.code = old.code
    <3> HIDE DEF old, entry
    <3>1. audited.upstream[t] = old
      BY <2>4 DEF old
    <3> QED
      BY <2>1, <2>5, <2>6, <3>1, EntryFields, SourceIsFingerprinted DEF Read
  <2>8. now.source = new.source /\ now.code = new.code
    BY <2>1, <2>4, <2>6, SourceIsFingerprinted
  <2>9. \A docs \in BOOLEAN : /\ Runs[docs][t][lockedRelease] = Locked(docs)
                              /\ Runs[docs][t][release] = Present(docs)
    BY <2>1, <2>2, <2>3 DEF Runs
  <2>10. /\ Check(project)[t] \in {"ok", "review"} => Compare(entry, now) = "ok"
         /\ Check(project)[t] \in {"body", "docstring"} => Compare(entry, now) = Check(project)[t]
    <3>1. Check(project)[t] = Status(t, w)
      BY DEF Check
    <3>2. Compared(t, w) = Compare(entry, now)
      BY DEF Compared
    <3>3. Compare(entry, now) \notin {"review"}
      BY DEF Compare
    <3> HIDE DEF w, entry, now
    <3> QED
      BY <3>1, <3>2, <3>3 DEF Status
  <2> HIDE DEF entry, now, old, new, Locked, Present
  <2>11. /\ Compare(entry, now) = "ok" => Locked(TRUE) = Present(TRUE)
         /\ Compare(entry, now) = "docstring" => Locked(FALSE) = Present(FALSE)
         /\ Compare(entry, now) = "body" => Locked(FALSE) # Present(FALSE)
    <3>1. entry.source # None /\ now.source # None /\ entry.code # None
      BY <2>2, <2>3, <2>7, <2>8
    <3>2. /\ Compare(entry, now) = "ok" => entry.source = now.source
          /\ Compare(entry, now) = "docstring" => entry.code = now.code
          /\ Compare(entry, now) = "body" => entry.code # now.code
      BY <3>1, SourcesCompared
    <3>3. /\ entry.source = Locked(TRUE) /\ now.source = Present(TRUE)
          /\ entry.code = Locked(FALSE) /\ now.code = Present(FALSE)
      BY <2>2, <2>3, <2>7, <2>8
    <3> QED
      BY <3>2, <3>3
  <2>12. /\ Check(project)[t] \in {"ok", "review"} => Locked(TRUE) = Present(TRUE)
         /\ Check(project)[t] = "docstring" => Locked(FALSE) = Present(FALSE)
         /\ Check(project)[t] = "body" => Locked(FALSE) # Present(FALSE)
    BY <2>10, <2>11
  <2> QED
    BY <2>9, <2>12 DEF TellsTheChange
<1> QED
  BY <1>1, AlwaysSourceInv, AlwaysLockInv, PTL

================================================================================
