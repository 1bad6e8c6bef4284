------------------------------ MODULE SourceTrack ------------------------------
(***************************************************************************)
(* Where the fingerprints of LockCheck come from: how a dotted target is   *)
(* resolved (_targets.py), which statement of the source file fingerprint()*)
(* hashes (_fingerprint.py), and which one `mpat diff` shows of the locked *)
(* release and of the installed one (_upstream.py, _cli.py).               *)
(*                                                                         *)
(* The library is one module.  A release of it is its file as _iter_defs() *)
(* walks it: the statements that bind a name, in order, with the class     *)
(* statement each one is in.  A name may be bound by several statements    *)
(* (branches of an `if`, overloads, a property and its setter); importing  *)
(* the module runs some of them, and the last one counts.  The position of *)
(* a statement stands for its first line.  Texts, docstrings, signatures   *)
(* and values are opaque; comments and line numbers are no part of a hash. *)
(* A source file has the dotted name of the module that it is.             *)
(***************************************************************************)
EXTENDS LockCheck

CONSTANTS
    Module,         \* the dotted name of the library's module
    Path,           \* what follows it in each target
    Releases,       \* the releases of the library
    Library,        \* what each of them installs
    Begins          \* pairs of names of which the first begins with the second

\* What an assignment, a def or a class statement is.  A "wraps" decorator uses
\* functools.wraps, "opaque" is one that returns an inner function of its own.
Statement == [name : STRING, inside : Nat, taken : BOOLEAN,
              kind : {"function", "property", "setter", "class", "constant"},
              signature : STRING, code : STRING, doc : STRING,
              decorator : {"none", "wraps", "opaque"}]

\* The depth of the module whose import raises, and which module was not found; any other
\* ImportError has no name.
Failure == [at : DOMAIN Module, missing : (Seq(STRING) \ {<<>>}) \cup {None}]

\* Where the decorators are that return functions of their own.
Decorators == <<"decorators">>

Release == [file : Seq(STRING) \ {Decorators}, text : {"parses", "unparsable", "not installed"},
            statements : Seq(Statement), fails : Failure \cup {None}]

ASSUME ReleaseAssumption ==
    /\ Module \in Seq(STRING) /\ Module # <<>>
    /\ Path \in [Targets -> Seq(STRING)]
    /\ \A t \in Targets : Path[t] # <<>>
    /\ Library \in [Releases -> Release]
    /\ \A r \in Releases : LET ds == Library[r].statements
                          IN  \A i \in DOMAIN ds : ds[i].inside # 0 =>
                                ds[i].inside < i /\ ds[ds[i].inside].kind = "class"
    /\ None \notin Releases \cup Seq(STRING) \cup Nat

VARIABLES
    release,        \* the installed release
    lockedRelease   \* the one mpat.lock was made of

sourceVars == <<vars, release, lockedRelease>>

Latest(S) == CHOOSE i \in S : \A j \in S : j <= i

--------------------------------------------------------------------------------
(* Resolving a target: _import_prefix(), _resolve_attribute().             *)

Parts(t) == Module \o Path[t]

\* Mutant: any module that is not found counts as a part of the target.
NamesPrefixAny(missing, name) == TRUE

\* `name.startswith(exc.name)`, on strings: the last part of the missing module's name
\* need only be how the name's part begins.
NamesPrefix(missing, name) ==
    /\ Len(missing) <= Len(name)
    /\ \A i \in 1 .. Len(missing) - 1 : missing[i] = name[i]
    /\ LET n == Len(missing)
       IN  name[n] = missing[n] \/ <<name[n], missing[n]>> \in Begins

\* The first n parts of target t can be imported.  What lies below the module is no module.
Imports(s, n) == n <= Len(Module) /\ (s.fails = None \/ n < s.fails.at)

\* Otherwise, what is not found.
NotFound(s, t, n) ==
    IF s.fails # None /\ n >= s.fails.at THEN s.fails.missing
    ELSE SubSeq(Parts(t), 1, Len(Module) + 1)

\* A shorter prefix is tried.
GoesOn(s, t, n) ==
    /\ ~Imports(s, n)
    /\ NotFound(s, t, n) # None
    /\ NamesPrefix(NotFound(s, t, n), SubSeq(Parts(t), 1, n))

\* The statements that bound the name when statement `where` ran; a setter keeps the getter.
Ran(s, where, name) ==
    {i \in DOMAIN s.statements : /\ s.statements[i].inside = where
                                 /\ s.statements[i].name = name
                                 /\ s.statements[i].taken
                                 /\ s.statements[i].kind # "setter"}

\* The class that holds the last name of `path`, 0 for the module.
LiveClass(s, path) ==
    LET at[n \in 0 .. Len(path) - 1] ==
            IF n = 0 THEN 0
            ELSE IF Ran(s, at[n - 1], path[n]) = {} THEN None
            ELSE Latest(Ran(s, at[n - 1], path[n]))
    IN  at[Len(path) - 1]

\* The statement that name is bound to once the module is imported.
Bound(s, path) ==
    LET ran == Ran(s, LiveClass(s, path), path[Len(path)])
    IN  IF ran = {} THEN None ELSE Latest(ran)

\* resolve(): longer prefixes first, until one can be imported.
Resolution(s, t) ==
    LET stops == {n \in DOMAIN Parts(t) : ~GoesOn(s, t, n)}
    IN  IF stops = {} THEN "not_found"
        ELSE IF ~Imports(s, Latest(stops)) THEN "import_error"
        ELSE IF Latest(stops) < Len(Module) \/ Bound(s, Path[t]) = None THEN "not_found"
        ELSE "found"

--------------------------------------------------------------------------------
(* Which statement is hashed: definition_node(), source_node().            *)

\* The statements of that name among those in statement `where`, which _iter_defs() finds.
Named(s, where, name) ==
    {i \in DOMAIN s.statements : /\ s.statements[i].inside = where
                                 /\ s.statements[i].name = name
                                 /\ s.statements[i].kind # "constant"}

\* The first class of each name on the way.
FirstClass(s, path) ==
    LET body[n \in 0 .. Len(path) - 1] ==
            IF n = 0 THEN 0
            ELSE IF Named(s, body[n - 1], path[n]) = {} THEN None
            ELSE First(Named(s, body[n - 1], path[n]))
    IN  body[Len(path) - 1]

\* Mutant: the first statement of the name, as for a class.
StatementOfFirst(s, path, line) ==
    LET candidates == Named(s, FirstClass(s, path), path[Len(path)])
    IN  IF candidates = {} THEN None ELSE First(candidates)

\* definition_node(): the statement at `line`, else the first.
StatementOf(s, path, line) ==
    LET candidates == Named(s, FirstClass(s, path), path[Len(path)])
    IN  IF candidates = {} THEN None
        ELSE IF line \in candidates THEN line
        ELSE First(candidates)

\* ast.unparse() of statement i, with or without its docstrings.
Text(s, i, docs) ==
    LET Own(j) == LET d == s.statements[j]
                  IN  <<d.kind, d.signature, d.code, d.decorator, IF docs THEN d.doc ELSE None>>
    IN  {<<j - i, s.statements[j].name, Own(j)>> :
            j \in {i} \cup {k \in DOMAIN s.statements : s.statements[k].inside = i}}

--------------------------------------------------------------------------------
(* What fingerprint() reads off the live object.  A function is the        *)
(* sequence of the objects unwrap() passes, each with its qualified name   *)
(* and the line its code is at, None for one in another file; a property   *)
(* is its getter, and a class, which has no code, has no line.             *)

Qualified(s, path) == [file |-> s.file, path |-> path]
Elsewhere == [file |-> Decorators, path |-> <<"<locals>">>]

Function(s, t) ==
    LET i == Bound(s, Path[t])
        d == s.statements[i]
        def == [name |-> Qualified(s, Path[t]), line |-> IF d.kind = "class" THEN None ELSE i]
    IN  CASE d.decorator = "none" -> <<def>>
          [] d.decorator = "wraps" -> <<[def EXCEPT !.line = None], def>>
          [] d.decorator = "opaque" -> <<[name |-> Elsewhere, line |-> None]>>

\* Mutant: the wrapper does not say what it wraps.
PatchedBare(function) == <<[Head(function) EXCEPT !.line = None]>>

\* _wrap(): functools.update_wrapper() copies the name and keeps the original.
Patched(function) == <<[Head(function) EXCEPT !.line = None]>> \o function

\* source_node(): the statement of what unwrap() ends at.  A local function has none.
Hashed(s, t, function) ==
    LET d == s.statements[Bound(s, Path[t])]
        inner == function[Len(function)]
    IN  IF d.kind = "constant" \/ s.text # "parses" \/ inner.name = Elsewhere THEN None
        ELSE StatementOf(s, inner.name.path, inner.line)

\* _owner_name(): what getattr() found the last part of the target in.
Owner(s, t) == IF Len(Path[t]) = 1 THEN Module ELSE s.file

\* fingerprint() of target t, whose object is `function` if it is one.
ReadingOf(s, t, function) ==
    LET d == s.statements[Bound(s, Path[t])]
        node == Hashed(s, t, function)
    IN  [kind |-> IF d.kind \in {"function", "class"} THEN d.kind ELSE "attribute",
         resolved |-> IF d.kind = "function" THEN Head(function).name
                      ELSE IF d.kind = "class" THEN Qualified(s, Path[t])
                      ELSE [file |-> Owner(s, t), path |-> Path[t]],
         file |-> IF d.kind = "constant" \/ s.text = "not installed" THEN None
                  ELSE function[Len(function)].name.file,
         signature |-> IF d.kind = "function" THEN d.signature ELSE None,
         value |-> IF d.kind = "constant" THEN d.code ELSE None,
         source |-> IF node = None THEN None ELSE Text(s, node, TRUE),
         code |-> IF node = None THEN None ELSE Text(s, node, FALSE)]

Reading(s, t) == ReadingOf(s, t, Function(s, t))

\* The objects of the targets that resolve.  (A target that is not found is "missing" to
\* `mpat check`; one whose module fails to import ends it with an error, and neither passes.)
Surface(s) == [t \in {u \in Targets : Resolution(s, u) = "found"} |-> Reading(s, t)]
Installed == [r \in Releases |-> Surface(Library[r])]

ASSUME ReadingAssumption ==
    /\ \A r \in Releases : \A t \in DOMAIN Installed[r] : Installed[r][t] \in Objects[t]
    /\ \A r \in Releases : \A i \in DOMAIN Library[r].statements : \A docs \in BOOLEAN :
          Text(Library[r], i, docs) # None

--------------------------------------------------------------------------------
(* mpat diff: what it shows of the locked and of the installed release.    *)

\* The definition of target t in the archive of release s; the file is searched without
\* a line.
InArchive(s, t) ==
    LET node == StatementOf(s, Path[t], None)
    IN  IF Parsed(lock[t]).file # s.file \/ s.text # "parses" \/ node = None THEN None
        ELSE Text(s, node, TRUE)

\* Mutant: the archive of the installed release is downloaded.
LockedSideOfInstalled(t) == InArchive(Library[release], t)

\* locked_source()
LockedSide(t) == InArchive(Library[lockedRelease], t)

\* _REBUILT is printed below the rows.
Warned(t) == LockedSide(t) \notin {None, Parsed(lock[t]).source}

\* installed_source()
InstalledSide(t) == IF t \in DOMAIN Installed[release] THEN Installed[release][t].source ELSE None

--------------------------------------------------------------------------------

SourceInit ==
    /\ release \in {r \in Releases : DOMAIN Installed[r] = Targets}
    /\ upstream = Installed[release]
    /\ lockedRelease = None
    /\ Init

SourceLock ==
    /\ Lock
    /\ lockedRelease' = release
    /\ UNCHANGED release

\* Another release is installed.
Install ==
    /\ release' \in Releases
    /\ upstream' = Installed[release']
    /\ UNCHANGED <<project, lock, today, audited, lockedRelease>>

SourceNext ==
    \/ SourceLock
    \/ Install
    \/ Edit /\ UNCHANGED <<release, lockedRelease>>
    \/ DayPasses /\ UNCHANGED <<release, lockedRelease>>

SourceSpec == SourceInit /\ [][SourceNext]_sourceVars

--------------------------------------------------------------------------------
(* Properties.                                                             *)

\* Only one def or class statement has the name of a class on the way to the target, or
\* the name of a class that is the target.
Unambiguous(s, path) == \A n \in DOMAIN path :
    LET same == {i \in DOMAIN s.statements : /\ s.statements[i].name = path[n]
                                             /\ s.statements[i].kind # "constant"}
        isClass == n < Len(path) \/ \E i \in same : s.statements[i].kind = "class"
    IN  isClass => \A i, j \in same : i = j

\* The releases in which fingerprint() finds the source of a target.
Readable == [t \in Targets |-> {r \in Releases : t \in DOMAIN Installed[r] /\ Installed[r][t].source # None}]
UnambiguouslyReadable ==
    [t \in Targets |-> {r \in Readable[t] : Unambiguous(Library[r], Path[t])}]

\* What the program runs: the text of the statement the target is bound to.
Runs == [docs \in BOOLEAN |-> [t \in Targets |-> [r \in Readable[t] |->
            LET s == Library[r] IN Text(s, Bound(s, Path[t]), docs)]]]

TellsTheChange(t, status) ==
    LET Same(docs) == Runs[docs][t][lockedRelease] = Runs[docs][t][release]
    IN  /\ status \in {"ok", "review"} => Same(TRUE)
        /\ status = "docstring" => Same(FALSE)
        /\ status = "body" => ~Same(FALSE)

StatusIsOfCodeIn(releases) ==
    LET status == Check(project)
    IN  \A t \in Wanted(project) \cap DOMAIN lock :
            {release, lockedRelease} \subseteq releases[t] => TellsTheChange(t, status[t])

\* The status is about the code that runs: a target that is "ok" runs what it ran when it
\* was locked, one that is "docstring" the same up to docstrings, one that is "body" other
\* code, however often its name is bound in the file, as long as the classes are not
\* (definition_node, matched by the code object's first line).
StatusIsOfLiveCode == StatusIsOfCodeIn(UnambiguouslyReadable)

\* The same of every target that has a source (CHANGELOG: "a name defined more than once
\* in one file is now hashed at the definition that is actually live").
StatusIsOfLiveCodeAlways == StatusIsOfCodeIn(Readable)

\* A process that has applied its patches reads the same fingerprints as `mpat check`, which
\* applies none: pytest and the command line agree (_wrap, inspect.unwrap).
PatchingIsInvisible ==
    LET s == Library[release]
    IN  \A t \in DOMAIN upstream : upstream[t].kind = "function" =>
            ReadingOf(s, t, Patched(Function(s, t))) = upstream[t]

\* No part of the target's name begins with the name of the module that was not found, and
\* goes on.
WholeNames(s, t) == s.fails = None \/ s.fails.missing = None \/
    \A n \in DOMAIN s.fails.missing \cap DOMAIN Parts(t) :
        <<Parts(t)[n], s.fails.missing[n]>> \notin Begins

\* The target's own module or its package is not there, or it can be imported and does not
\* bind the name.
Gone(s, t) ==
    IF s.fails = None THEN Bound(s, Path[t]) = None
    ELSE \E n \in 1 .. s.fails.at : s.fails.missing = SubSeq(Module, 1, n)

\* A target that is gone is called missing, whatever its import fails with; and a target is
\* called missing only if it is gone, not when its module fails to import, which is an error
\* instead.  Excepted is the dependency that is taken for a part of the target because a
\* name begins with its name (CHANGELOG: "`mpat check` never reports a broken environment as
\* `missing`").
MissingMeansGone == \A t \in Targets :
    LET s == Library[release]
        missing == Resolution(s, t) = "not_found"
    IN  /\ Gone(s, t) => missing
        /\ missing => Gone(s, t) \/ ~WholeNames(s, t)

\* Without its line, another statement of the name is found than the one that runs.
FoundElsewhere(s, t) ==
    StatementOf(s, Path[t], None) # StatementOf(s, Path[t], Bound(s, Path[t]))

\* A drifted body or docstring is shown with both its sides if both were hashed, and they
\* differ unless the reader is warned that the downloaded one is not what was hashed.  He is
\* warned only where the archive, searched without a line, yields another statement of the
\* name: then he is told that the release was rebuilt, which it was not.
DriftIsShown ==
    LET status == Check(project)
    IN  \A t \in Wanted(project) \cap DOMAIN lock : status[t] \in {"body", "docstring"} =>
            /\ InstalledSide(t) # None
            /\ Parsed(lock[t]).source # None => LockedSide(t) # None
            /\ Warned(t) \/ LockedSide(t) # InstalledSide(t)
            /\ Warned(t) => FoundElsewhere(Library[lockedRelease], t)

================================================================================
