------------------------------ MODULE Collection ------------------------------
(***************************************************************************)
(* One process that collects declarations: `mpat check` for one project    *)
(* (_registry.collect_declarations, apply=False), or a test session whose  *)
(* plugin collects several (_generated.collect, apply=True), together with *)
(* the application the tests import, which imports patch modules in its    *)
(* own order and calls apply_overrides().                                  *)
(*                                                                         *)
(* The registry is one per process; the plugin tells the projects apart by *)
(* the files of their declarations.  A file is a patch module or the       *)
(* configuration file of a project.                                        *)
(***************************************************************************)
EXTENDS Naturals, Sequences, SequencesExt

CONSTANTS
    Projects,       \* directories with a configuration file
    Modules,        \* patch modules
    Targets,
    Lists,          \* the modules each configuration file lists
    Watches,        \* the targets of its watch tables
    Overrides,      \* the targets of its override tables, in order
    Code,           \* the targets the body of each module declares, none patched twice
    Roots,          \* the projects whose directory a file is in, innermost first
    Denied,         \* targets on the denylist
    Allow,          \* the targets the `allow` of a project permits
    Fragile,        \* modules whose body may raise
    ReadOnly,       \* attributes that cannot be assigned
    None

Files == Modules \cup Projects

ASSUME CollectionAssumption ==
    /\ Modules \cap Projects = {}
    /\ Lists \in [Projects -> Seq(Modules)]
    /\ Watches \in [Projects -> SUBSET Targets]
    /\ Overrides \in [Projects -> Seq(Targets)]
    /\ Code \in [Modules -> SUBSET Targets]
    /\ Roots \in [Files -> Seq(Projects)]
    /\ \A p \in Projects : Roots[p] # <<>> /\ Roots[p][1] = p
    /\ Allow \in [Projects -> SUBSET Targets]
    /\ Denied \subseteq Targets /\ Fragile \subseteq Modules /\ ReadOnly \subseteq Targets
    /\ None \notin Projects
    /\ None \notin [project : Projects, todo : Seq(Modules), env : BOOLEAN]

VARIABLES
    kind,           \* "check" or "tests": what the process is
    session,        \* the projects the test session is about
    cwd,            \* the project whose configuration file is nearest, or None
    config,         \* runtime_config(): "unread", or what cwd was at the first call
    env,            \* MPAT_COLLECT is set
    registry,       \* _declarations
    imported,       \* the patch modules in sys.modules
    applied,        \* code declarations that took effect
    value,          \* who set each attribute last: "upstream", "mpat" or "app"
    originals,      \* _override_originals
    call,           \* the collect_declarations() under way, or None
    collected       \* for each project: how its collection ended, and what it found

vars == <<kind, session, cwd, config, env, registry, imported, applied, value, originals,
          call, collected>>

Declaration == [file : Files, target : Targets]

TypeOK ==
    /\ kind \in {"check", "tests"}
    /\ session \subseteq Projects
    /\ cwd \in Projects \cup {None}
    /\ config \in Projects \cup {None, "unread"}
    /\ env \in BOOLEAN
    /\ registry \subseteq Declaration
    /\ imported \subseteq Modules
    /\ applied \subseteq registry
    /\ value \in [Targets -> {"upstream", "mpat", "app"}]
    /\ DOMAIN originals \subseteq Targets
    /\ \A t \in DOMAIN originals : originals[t] \in {"upstream", "app"}
    /\ call = None \/ call \in [project : Projects, todo : Seq(Modules), env : BOOLEAN]
    /\ \A p \in Projects : /\ collected[p].outcome \in {"none", "failed", "collected"}
                           /\ collected[p].found \subseteq registry

DeclaredBy(m) == [file : {m}, target : Code[m]]
Tables(p) == [file : {p}, target : Watches[p] \cup ToSet(Overrides[p])]

Init ==
    /\ kind \in {"check", "tests"}
    /\ session \in SUBSET Projects
    /\ cwd \in IF kind = "check" THEN Projects ELSE Projects \cup {None}
    /\ config = "unread"
    /\ env = FALSE
    /\ registry = {}
    /\ imported = {}
    /\ applied = {}
    /\ value = [t \in Targets |-> "upstream"]
    /\ originals = <<>>
    /\ call = None
    /\ collected = [p \in Projects |-> [outcome |-> "none", found |-> {}]]

--------------------------------------------------------------------------------
(* Which project a declaration is of.                                      *)

\* Mutant: the outermost project.
OwnerOutermost(file) ==
    LET owners == {i \in DOMAIN Roots[file] : Roots[file][i] \in session}
    IN  IF owners = {} THEN None ELSE Roots[file][Max(owners)]

\* _owner(): the innermost project of the session the file is in.
Owner(file) ==
    LET owners == {i \in DOMAIN Roots[file] : Roots[file][i] \in session}
    IN  IF owners = {} THEN None ELSE Roots[file][Min(owners)]

\* _scoped()
Scoped(ds, p) == {d \in ds : Owner(d.file) \in {None, p}}

\* The plugin scopes what it collects; `mpat check` takes all of it.
Returned(ds, p) == IF kind = "tests" THEN Scoped(ds, p) ELSE ds

--------------------------------------------------------------------------------
(* Importing a patch module.                                               *)

\* runtime_config(), cached for the life of the process.
ReadConfig == config' = IF config = "unread" THEN cwd ELSE config

PermittedBy(p, t) == t \notin Denied \/ (p # None /\ t \in Allow[p])

\* _check_declaration_forbidden()
Permitted(d) == PermittedBy(config', d.target)

BodyReturns(m) ==
    /\ ReadConfig
    /\ \A d \in DeclaredBy(m) : Permitted(d)
    /\ imported' = imported \cup {m}
    /\ registry' = registry \cup DeclaredBy(m)
    /\ applied' = IF env THEN applied ELSE applied \cup DeclaredBy(m)

\* After some declarations one is refused before it is registered, or fails once it is;
\* the module leaves sys.modules, the declarations stay.
BodyRaises(m) ==
    /\ ReadConfig
    /\ \E done \in SUBSET {d \in DeclaredBy(m) : Permitted(d)} :
          /\ \/ DeclaredBy(m) \ done # {} /\ registry' = registry \cup done
                /\ \E d \in DeclaredBy(m) : ~Permitted(d)
             \/ m \in Fragile /\ \E d \in DeclaredBy(m) :
                   Permitted(d) /\ registry' = registry \cup done \cup {d}
          /\ applied' = IF env THEN applied ELSE applied \cup done
    /\ UNCHANGED imported

--------------------------------------------------------------------------------
(* collect_declarations().                                                 *)

\* Mutant: the plugin imports the way `mpat check` does.
StartCollectingOnly(p) ==
    /\ kind = "tests"
    /\ p \in session
    /\ collected[p].outcome = "none"
    /\ call = None
    /\ call' = [project |-> p, todo |-> Lists[p], env |-> env]
    /\ env' = TRUE
    /\ UNCHANGED <<kind, session, cwd, config, registry, imported, applied, value,
                   originals, collected>>

\* The plugin collects a project of the session that is not in its cache.
StartCollecting(p) ==
    /\ kind = "tests"
    /\ p \in session
    /\ collected[p].outcome = "none"
    /\ call = None
    /\ call' = [project |-> p, todo |-> Lists[p], env |-> env]
    /\ UNCHANGED <<kind, session, cwd, config, env, registry, imported, applied, value,
                   originals, collected>>

\* `mpat check` in the directory of a project: _import_under_collect().
StartChecking(p) ==
    /\ kind = "check"
    /\ p = cwd
    /\ collected[p].outcome = "none"
    /\ call = None
    /\ call' = [project |-> p, todo |-> Lists[p], env |-> env]
    /\ env' = TRUE
    /\ UNCHANGED <<kind, session, cwd, config, registry, imported, applied, value,
                   originals, collected>>

\* import_module() of the next listed module, which may be in sys.modules already.
ImportNext ==
    /\ call # None /\ call.todo # <<>>
    /\ IF Head(call.todo) \in imported
       THEN UNCHANGED <<config, registry, imported, applied>>
       ELSE BodyReturns(Head(call.todo))
    /\ call' = [call EXCEPT !.todo = Tail(@)]
    /\ UNCHANGED <<kind, session, cwd, env, value, originals, collected>>

\* Mutant: MPAT_COLLECT stays set when a module raises.
FinishWithoutFinally(outcome, found) ==
    /\ call' = None
    /\ env' = IF outcome = "failed" THEN env ELSE call.env
    /\ collected' = [collected EXCEPT ![call.project] =
                         [outcome |-> outcome, found |-> found]]

\* The call is over: what it collected, or that it raised; MPAT_COLLECT is as before.
Finish(outcome, found) ==
    /\ call' = None
    /\ env' = call.env
    /\ collected' = [collected EXCEPT ![call.project] =
                         [outcome |-> outcome, found |-> found]]

ImportRaises ==
    /\ call # None /\ call.todo # <<>>
    /\ Head(call.todo) \notin imported
    /\ BodyRaises(Head(call.todo))
    /\ Finish("failed", {})
    /\ UNCHANGED <<kind, session, cwd, value, originals>>

\* A table and the code of any module declare the same target.
InCode(t) == \E d \in registry : d.target = t /\ d.file \in Modules

TablesForbidden(p) == \E d \in Tables(p) : ~PermittedBy(p, d.target)

\* _register_config()
RegisterTables ==
    /\ call # None /\ call.todo = <<>>
    /\ ~TablesForbidden(call.project)
    /\ \A d \in Tables(call.project) : ~InCode(d.target)
    /\ registry' = registry \cup Tables(call.project)
    /\ Finish("collected", Returned(registry', call.project))
    /\ UNCHANGED <<kind, session, cwd, config, imported, applied, value, originals>>

\* A forbidden table is refused before any is registered; a second declaration of a
\* target only when its turn comes.
RegisterTablesRaises ==
    /\ call # None /\ call.todo = <<>>
    /\ \/ TablesForbidden(call.project) /\ UNCHANGED registry
       \/ /\ ~TablesForbidden(call.project)
          /\ \E d \in Tables(call.project) : InCode(d.target)
          /\ \E some \in SUBSET {d \in Tables(call.project) : ~InCode(d.target)} :
                registry' = registry \cup some
    /\ Finish("failed", {})
    /\ UNCHANGED <<kind, session, cwd, config, imported, applied, value, originals>>

--------------------------------------------------------------------------------
(* apply_overrides().                                                      *)

\* The targets of ts are recorded and assigned.  The last one may be recorded without
\* being assigned, because record_override() comes before setattr().
Assign(ts) ==
    /\ originals' = [t \in DOMAIN originals \cup ts |->
                        IF t \in ts THEN value[t] ELSE originals[t]]
    /\ value' = [t \in Targets |-> IF t \in ts \ ReadOnly THEN "mpat" ELSE value[t]]

\* Mutant: what is recorded already is assigned again.
AssignOverridesAgain(p) == IF env THEN UNCHANGED <<value, originals>> ELSE
    Assign(ToSet(Overrides[p]) \ ReadOnly)

\* The tables are worked off in order, without those that are recorded; any of them may
\* raise (the target is gone, of another type, drifted under MPAT_STRICT).
AssignOverrides(p) == IF env THEN UNCHANGED <<value, originals>> ELSE
    \E n \in 0 .. Len(Overrides[p]) :
        /\ \A i \in 1 .. n - 1 : Overrides[p][i] \in ReadOnly => Overrides[p][i] \in DOMAIN originals
        /\ Assign({Overrides[p][i] : i \in 1 .. n} \ DOMAIN originals)

\* The application calls it at its start or later, or a patch module that is being
\* collected does.
ApplyOverrides ==
    /\ kind = "tests" \/ (call # None /\ call.todo # <<>>)
    /\ ReadConfig
    /\ config' # None
    /\ IF TablesForbidden(config')
       THEN UNCHANGED <<registry, value, originals>>
       ELSE registry' = registry \cup Tables(config') /\ AssignOverrides(config')
    /\ UNCHANGED <<kind, session, cwd, env, imported, applied, call, collected>>

--------------------------------------------------------------------------------
(* The application and its tests.                                          *)

ImportModule(m) ==
    /\ kind = "tests"
    /\ call = None
    /\ m \notin imported
    /\ BodyReturns(m) \/ BodyRaises(m)
    /\ UNCHANGED <<kind, session, cwd, env, value, originals, call, collected>>

SetAttribute(t) ==
    /\ kind = "tests"
    /\ call = None
    /\ t \notin ReadOnly
    /\ value' = [value EXCEPT ![t] = "app"]
    /\ UNCHANGED <<kind, session, cwd, config, env, registry, imported, applied, originals,
                   call, collected>>

Chdir(p) ==
    /\ kind = "tests"
    /\ call = None
    /\ cwd' = p
    /\ UNCHANGED <<kind, session, config, env, registry, imported, applied, value,
                   originals, call, collected>>

Next ==
    \/ \E p \in Projects : StartCollecting(p) \/ StartChecking(p)
    \/ ImportNext \/ ImportRaises \/ RegisterTables \/ RegisterTablesRaises
    \/ ApplyOverrides
    \/ \E m \in Modules : ImportModule(m)
    \/ \E t \in Targets : SetAttribute(t)
    \/ \E p \in Projects \cup {None} : Chdir(p)

Spec == Init /\ [][Next]_vars

--------------------------------------------------------------------------------
(* What the readers of the collected declarations rely on.                 *)

IsCollected(p) == collected[p].outcome = "collected"

Nearest(file) == IF Roots[file] = <<>> THEN None ELSE Roots[file][1]

\* What collecting the project in a process of its own returns.
Alone(p) == Tables(p) \cup UNION {DeclaredBy(m) : m \in ToSet(Lists[p])}

\* Every file that has declared something lies below a configuration file the session is
\* about, or below none, and the project lists those below its own and below none.
TidyFor(p) == \A file \in {d.file : d \in registry} :
    /\ Nearest(file) \in session \cup {None}
    /\ Nearest(file) \in {None, p} <=> file \in ToSet(Lists[p]) \cup {p}

\* The declarations a test session gives a project, out of the registry it shares with
\* the other projects, are those `mpat check` finds when it is run for that project: the
\* two compare the same lock, and a missing or a foreign declaration is a wrong report
\* (_pytest_plugin._scoped, docs/site/pages/pytest.md "collects both sets").
ScopedAsAlone == \A p \in Projects :
    IsCollected(p) /\ (kind = "tests" => TidyFor(p)) => collected[p].found = Alone(p)

\* Patches are live where they are tested and nowhere else.  In a test session every module
\* that was imported has its patches in effect, however the plugin, the tests and
\* apply_overrides() took turns: none stays cached in sys.modules as it was collected
\* (CHANGELOG 0.9.1, collect_declarations apply=True).  `mpat check` applies nothing, not
\* even when a module it imports calls apply_overrides() ("must not touch live objects"),
\* and once the call is over, raised or not, MPAT_COLLECT no longer keeps a module from
\* applying its patches (the `finally` of _import_under_collect).
LiveInTestsOnly ==
    /\ kind = "tests" => \A m \in imported : DeclaredBy(m) \subseteq applied
    /\ kind = "check" =>
        applied = {} /\ originals = <<>> /\ value = [t \in Targets |-> "upstream"]
    /\ call = None => ~env

\* An override is assigned once: what the application assigns afterwards stays, and the
\* value upstream shipped is not forgotten (apply_overrides: "once per process").
OverrideOnce == [][\A t \in DOMAIN originals :
    /\ t \in DOMAIN originals' /\ originals'[t] = originals[t]
    /\ value'[t] \in {value[t], "app"}]_vars

\* A project that collects in a process of its own.
CollectsAlone(p) ==
    /\ ToSet(Lists[p]) \cap Fragile = {}
    /\ \A d \in Alone(p) : PermittedBy(p, d.target)
    /\ \A d, d2 \in Alone(p) : d.target = d2.target => (d.file = p <=> d2.file = p)

\* Collecting one project does not make the next one fail ("collects both sets").
CollectedTogether == \A p, q \in Projects :
    IsCollected(p) /\ collected[q].outcome = "failed" => ~CollectsAlone(q)

================================================================================
