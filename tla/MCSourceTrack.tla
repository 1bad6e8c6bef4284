----------------------------- MODULE MCSourceTrack -----------------------------
(* Instances of SourceTrack: a module pk.lib with a function `f`, a constant `c`, a  *)
(* class `k` with a method `m` and a property `p`, the releases it comes in, and     *)
(* projects.                                                                         *)
EXTENDS SourceTrack, CodeQuality, SequencesExt

CONSTANTS f, c, k, m, p

Lib == <<"pk", "lib">>
LibPath == (f :> <<"f">>) @@ (c :> <<"c">>) @@ (k :> <<"K">>) @@ (m :> <<"K", "m">>)
              @@ (p :> <<"K", "p">>)
LibBegins == {<<"pk", "p">>, <<"lib", "li">>}

Def(name) ==
    [name |-> name, inside |-> 0, taken |-> TRUE, kind |-> "function", signature |-> "old",
     code |-> "old", doc |-> "old", decorator |-> "none"]

F == Def("f")
C == [Def("c") EXCEPT !.kind = "constant"]
K == [Def("K") EXCEPT !.kind = "class"]
M == [Def("m") EXCEPT !.inside = 1]
P == [Def("p") EXCEPT !.inside = 1, !.kind = "property"]
SetP == [P EXCEPT !.kind = "setter", !.code = "set"]
In(i, d) == [d EXCEPT !.inside = i]
Skipped(d) == [d EXCEPT !.taken = FALSE]
Other(d) == [d EXCEPT !.code = "new"]

Of(statements) ==
    [file |-> Lib, text |-> "parses", statements |-> statements, fails |-> None]
With(defs) == Of(<<K, M, P>> \o defs)

\* One thing changes in each release.
Base == With(<<F, C>>)

FunctionReleases == <<
    With(<<[F EXCEPT !.doc = "new"], C>>), With(<<Other(F), C>>),
    With(<<[F EXCEPT !.signature = "new"], C>>), With(<<[F EXCEPT !.decorator = "wraps"], C>>),
    With(<<[F EXCEPT !.decorator = "opaque"], C>>), With(<<Skipped(F), C>>)>>

\* An `if` of which the second branch runs, or an overload and its implementation.
BranchReleases == <<
    With(<<Skipped(Other(F)), F, C>>), With(<<Skipped(F), Other(F), C>>)>>

ConstantReleases == <<With(<<F, Other(C)>>), With(<<F, [C EXCEPT !.kind = "function"]>>)>>

MethodReleases == <<
    Of(<<K, [M EXCEPT !.doc = "new"], P, F, C>>), Of(<<K, Skipped(M), Other(M), P, F, C>>),
    Of(<<K, M, Other(P), F, C>>), Of(<<K, M, P, SetP, F, C>>)>>

TextReleases == <<
    [Base EXCEPT !.text = "unparsable"], [Base EXCEPT !.text = "not installed"],
    [Base EXCEPT !.file = <<"pk", "other">>]>>

\* A def that is not run has the name of the class.
NamesakeReleases == <<
    Of(<<Skipped(Def("K")), K, In(2, M), In(2, P), F, C>>)>>

\* The module is gone, with and without the package importing it, a dependency is missing,
\* the module raises an ImportError; the string test takes the last for a part of the target.
Failing(at, missing) == [Base EXCEPT !.fails = [at |-> at, missing |-> missing]]
FailingReleases == <<
    Failing(2, Lib), Failing(1, Lib), Failing(2, <<"dep">>), Failing(2, None),
    Failing(1, <<"p">>)>>

AllReleases == <<Base>> \o FunctionReleases \o BranchReleases \o ConstantReleases
               \o MethodReleases \o NamesakeReleases \o TextReleases \o FailingReleases

\* A class statement in each branch of an `if`, with a method: the second runs.
TwoClasses(body) == Of(<<Skipped(K), M, P, K, In(4, [M EXCEPT !.code = body]), In(4, P), F, C>>)
ClassReleases == <<TwoClasses("old"), TwoClasses("new")>>

ObjectsOf(library) == [t \in Targets |->
    {o[t] : o \in {q \in {Surface(library[r]) : r \in DOMAIN library} : t \in DOMAIN q}}]
AllObjects == ObjectsOf(AllReleases)
ClassObjects == ObjectsOf(ClassReleases)

Declare(role, target, depends) ==
    [target |-> target, role |-> role, depends |-> depends, track |-> TRUE, review |-> None,
     until |-> None, declared_in |-> "patches.py"]
InTables(declaration) == [declaration EXCEPT !.declared_in = "mpat.toml"]
Untracked(declaration) == [declaration EXCEPT !.track = FALSE]
DueToday(declaration) == [declaration EXCEPT !.review = 0]
Ending(declaration) == [declaration EXCEPT !.until = 1]
InMore(declaration) == [declaration EXCEPT !.declared_in = "more.py"]

PatchF == Declare("patch", f, {})
PatchFUsingC == Declare("patch", f, {c})
WatchFUsingC == InMore(Declare("watch", f, {c}))
WatchC == Declare("watch", c, {})
WatchMUsingC == Declare("watch", m, {c})
PatchM == Declare("patch", m, {})
PatchMInK == Declare("patch", m, {k, p})
WatchK == Declare("watch", k, {})

Orders(ds) == SetToSeqs({ds[i] : i \in DOMAIN ds})

\* A target in either role; a dependency that is only depended on, by one declaration, by two
\* of one file or by a patch and a table, or that a table watches or overrides; an override
\* alone; a target that is declared twice, in two roles and with two trackings; review dates
\* and an `until`; a method with its class.
AllProjects == {<<>>} \cup UNION {Orders(ds) : ds \in {
    <<Ending(DueToday(PatchFUsingC))>>,
    <<PatchFUsingC, InTables(DueToday(WatchC))>>, <<PatchFUsingC, InTables(Untracked(WatchC))>>,
    <<WatchFUsingC, DueToday(PatchF)>>, <<InTables(WatchMUsingC), DueToday(PatchFUsingC)>>,
    <<WatchMUsingC, PatchFUsingC>>, <<InTables(Untracked(WatchC))>>,
    <<WatchC, InMore(Untracked(WatchC))>>, <<PatchMInK>>}}

\* A patch that relies on a constant the application sets itself.
UntrackedDependency == {<<PatchFUsingC, Untracked(WatchC)>>}

ClassProjects == {<<PatchM>>, <<WatchK>>}

\* What the constants are given.  (TLC evaluates a definition once, but not the one a
\* constant is replaced by.)
Library1 == AllReleases
Releases1 == DOMAIN AllReleases
Objects1 == AllObjects
Projects1 == AllProjects

Library2 == ClassReleases
Releases2 == DOMAIN ClassReleases
Objects2 == ClassObjects

================================================================================
