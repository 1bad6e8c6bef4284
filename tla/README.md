# A formal model of mpat

mpat keeps patches of third-party libraries honest: a patch or watch is *declared* against a
dotted target, `mpat lock` records a fingerprint of every target in `mpat.lock`, and `mpat check`,
the pytest plugin and the decorator itself compare the installed upstream with the lock.

This directory holds TLA+ models of the code in `src/src/mpat/`, configurations that check them
with TLC, and theorems about them that TLAPS proves. `PROJECT.json` lists the runs, the mutants
that show each property can fail, the source lines of every definition, the hazards and the
findings. Paths below are relative to `src/src/mpat/` unless they say otherwise.

    tlc -workers 2 -config collect_session.cfg MCCollection.tla     # check one instance
    tlapm PatchRuntimeProofs.tla                                    # check one proof module

## The system

| Component | Code | State | Operations |
|---|---|---|---|
| Declarations | `_api.py`, `_registry.py` | `_declarations`, `_applied`, `_override_originals`, the patched attributes | `patch`, `watch`, `apply_overrides`, `register`, `mark_applied` |
| Deferred patches | `_hooks.py` | `_pending`, the finder on `sys.meta_path`, the loaders it wraps | `when_imported`, `find_spec`, `exec_module`, `fire`, `import_pending` (`apply_all`) |
| Collection | `_registry.py`, `_generated.py`, `_pytest_plugin.py`, `_config.py` | the registry, `MPAT_COLLECT`, the cached `runtime_config`, the plugin's cache of collected projects | `collect_declarations`, `_register_config`, `_collected`, `_scoped` |
| Lock contents | `_lock.py` | `mpat.lock` | `expand`, `build_lock`, `check`, `compare`, `_drifted` |
| Fingerprints, targets | `_fingerprint.py`, `_targets.py` | none | `resolve`, `_import_prefix`, `definition_node`, `fingerprint`, `check_forbidden` |
| Lock writing | `_lock.py` | the file, its temporary file | `write_lock`, `read_lock` |
| Upstream sources | `_upstream.py` | the archive cache | `_archive`, `_get`, `_pick`, `_member` |
| `until` | `_until.py` | none | `until_from_string`, conditions |
| Command line, output | `_cli.py`, `_render.py`, `_gitlab.py` | none | `mpat lock / check / diff / show` |

How they interact: importing a patch module runs decorators, which register a declaration, consult
the lock (`_drifted`), and either apply the patch at once or queue a callback that the import
system fires when the target's top-level module has been executed. `mpat lock`, `mpat check` and
the plugin import all patch modules first (collection), so registry order, `sys.modules` and the
environment are shared with whatever the application did before. `write_lock` and the archive
cache are shared between processes through the file system.

What is hard: imports nest, fail halfway and run in several threads (hooks); other code rebinds and
aliases the attributes (patches); a lock, an upstream and a project evolve separately (lock
contents); processes die between two system calls (lock writing, cache); several projects share
one process (collection).

What makes each component correct:

- *Hooks*: a deferred patch is never lost, duplicated, or left waiting for a loaded module;
  `apply_all()` settles what it was asked for; what is reported applied is in effect.
- *Patches*: a wrapper wraps upstream's function and never another wrapper; one function is wrapped
  by one declaration; the status tells the truth.
- *Lock contents*: a passing check means that what was audited is what is installed, and that
  imports are silent; the result does not depend on import order.
- *Lock writing*: the file is replaced atomically, whatever fails.
- *Collection*: a project gets in a shared process what it would get alone; a check touches
  nothing; an override is assigned once.
- *Cache*: an archive is whole and the right one; credentials stay with their index.
- *Fingerprints*: what is hashed is what runs, in a process with patches and in one without;
  "missing" is said of what is gone; a diff shows the definition that was hashed.
- *Report*: every declaration that uses a drifted target is marked.

## Modules

**`ImportHooks`** (+ `MCImportHooks`) is `_hooks.py` and the import system around it. Each thread
has a stack of calls (a decorator, an import, `apply_all()`), because a module body may import and
declare. `pending` is `_pending` with `keys`, its insertion order; `finder` is `finding` and
whether the finder is installed; `sysModules` knows absent, executing and loaded modules; `live`
is the set of patches in the current module objects. The history variable `overlaps` records
declarations of a patch of a module that is being imported, by the import itself ("nested") or by another
thread ("raced"). Every statement that another thread or a
nested call can come between is an action: `QueueHook`, `InstallFinder`, `FindSpec`, `FinishBody`,
`FireNext`, `FireRaises`, ... `importlib` itself (module locks, dropping a failed module) is
external.

**`PatchRuntime`** (+ `MCPatchRuntime`) is one run of the decorator per action, with the outcome of
each early exit of `_apply`: skipped by `until`, skipped or raising by drift, refused by
`_live_original`, applied. Function objects have addresses since mpat identifies an original by
`id()`; `Reclaim` frees addresses for reuse, `Alias` and `Redefine` are what other code does. The history variable
`others` records which of the two has happened; some properties are conditional on it.

**`LockCheck`** is the meaning of a lock. `Expand`, `Entry`, `Written`, `Parsed`,
`Compare`, `Status`, `Drifted` are translated operator by operator; the actions are `mpat lock`
(`Lock`), an upstream release (`Upgrade`), an edit of the declarations or their order (`Edit`) and
`DayPasses`. What the import of a declaration warns of is `Heard`: nothing for a patch whose `until` is satisfied
and for a watch in a configuration table (`Silent`), which are never compared, `Drifted` otherwise. Which sequences of declarations one
process can register is `Registrable`. The history variable `audited` is what the last lock was taken of. Here what a target
is in a release is opaque: any member of `Objects`.

**`SourceTrack`** (+ `MCSourceTrack`) says where those objects come from. A release of a library is
one module: its file as `_iter_defs` walks it (statements that bind a name, nested in classes, in
branches that run or do not), whether it parses, and how its import fails. `Resolution` is
`_import_prefix` and `_resolve_attribute` with the string comparison of the former; `StatementOf` is
`definition_node`; `Function`, `Patched` and `Hashed` are what `inspect.unwrap` and `source_node` see of
decorated and of patched functions; `ReadingOf` is `fingerprint`. `InArchive`, `LockedSide`,
`InstalledSide` and `Warned` are the two sides `mpat diff` compares. Its actions are those of `LockCheck` with
`Install` of one of the releases for `Upgrade`, so that a behaviour of `SourceTrack` is one of `LockCheck` by construction
(the lemma `SourceSpecIsSpec`). What is not by construction is that the readings of source files are objects as `LockCheck` assumes
them; `ReadingsAreObjects` proves it of any releases.

**`CodeQuality`** is the GitLab report: `Report` is the set of issues of `code_quality_report` with
`Users` of `LockCheck`, and `RowIdentity` and `UsageIdentity` what GitLab tells them apart by. It is checked together
with `SourceTrack`.

**`LockFile`** is `write_lock()` step by step (temporary file, write and flush, fsync, chmod,
replace, the except clause), with failing calls, kills and power losses. **`AtomicLock`** is the
abstract specification: a write replaces the whole value at one moment or not at all.

**`Collection`** (+ `MCCollection`) is one process that collects: `mpat check` in a project
(`StartChecking`), or a test session over several projects (`StartCollecting`), module by module
(`ImportNext`, `ImportRaises`), then the tables of the configuration file (`RegisterTables...`).
The application imports patch modules, assigns attributes, changes directory and calls
`apply_overrides()` between any two calls, and patch modules call `apply_overrides()` while they
are collected.

**`UpstreamCache`** (+ `MCUpstreamCache`) is `mpat diff`: each process asks its index for the page
of a project, picks an archive, looks it up in the cache, downloads, writes a temporary file,
renames it, and reads. The index, the download hosts, the redirect limit of urllib and whoever
clears the cache are external.

`ImportHooksProofs`, `PatchRuntimeProofs`, `LockCheckProofs`, `SourceTrackProofs`, `CodeQualityProofs`,
`LockFileProofs`, `UpstreamCacheProofs` and `CollectionProofs` hold the theorems.

## Runs

| Run | States | What it shows |
|---|---|---|
| `hooks_imports` | 32 000 | Liveness: two threads, a hook that may fail on each of two modules, a body that may fail and declares, a third module that is not installed. Every hook of an installed module settles. |
| `hooks_threads` | 595 000 | Two threads, three hooks (two on one module), each may fail, two bodies may fail, one declares, a third module is not installed. Nothing is lost or left behind, `apply_all()` settles what it returns from, applied hooks stay in effect, a settled hook is never run again, hooks see complete modules unless they are declared during the import. |
| `hooks_partial` | finding | see below |
| `patch_sites` | 152 000 | A method, the subclass that inherits it and a module's name for its function; any two of three declarations, repeated, with policies that raise or skip; other code aliases and redefines all of them. |
| `patch_reused_id` | finding | |
| `check_audit` | 230 000 | 22 releases of a module, 16 projects: every kind of change of a function, constant, class, method and property, in every role and combination, declared in patch modules and in configuration tables, with `until` satisfied or not; the lock, the diff, patched processes and the GitLab report. |
| `check_tracking` | finding | |
| `track_branches` | finding | |
| `lockfile_atomic` | 2 700 | Two writers, two locks, every failure; the refinement of `AtomicLock`. |
| `collect_session` | 635 000 | A project nested in another, a third with a forbidden table; modules of each and one outside of both. |
| `collect_together` | finding | |
| `upstream_cache` | 573 000 | Two processes, two indexes that serve different builds of one wheel, an sdist, an archive of another project with the same version. |

Runs that set `CHECK_DEADLOCK FALSE` are of systems that stop: patch modules have been imported
and nothing is pending, addresses have run out, a check has been made.

### Bounds

- *Hooks*: two hooks on one module are needed for partial firing, a second module for the order of
  `import_pending`. A thread's stack is bounded by the modules and hooks, since each is entered
  once. Two threads produce every pairwise interleaving. The liveness run has one hook on each module; what
  a second one adds, a partial firing, is safety and is in `hooks_threads`.
- *Patches*: the properties relate two declarations, so `TwoDeclarations` cuts a behaviour off
  when a third of the three sites is declared; all pairs occur. Three addresses are upstream's function and two
  wrappers, or one wrapper and a redefinition; a declaration that needs a fresh address
  when none is free is not taken, which only shortens behaviours. Addresses upstream does not name are
  interchangeable (symmetry). Each site can be repeated without bound.
- *Lock contents*: `expand` relates a target, a dependency and at most one other declaration of
  either; the projects list such combinations in every order. `LastDay = 1` has a day before
  and a day after a review date, and before and after the day from which an `until` is satisfied.
- *Fingerprints*: one thing changes in each release (a docstring, a body, a signature, a decorator with and without
  `functools.wraps`, a branch, a constant's value or kind, a setter, the file, its readability, the way its import
  fails), and any release may follow any other. A lock compares two releases, so sequences of
  two matter. `track_branches` has its own two releases, with a class bound twice.
- *Lock writing*: a third writer adds nothing to the interference on one file; the proof is for any
  number.
- *Collection*: ownership needs nesting of depth two; a file outside every project, a file that may
  raise, a target two projects name and an attribute that cannot be assigned occur once each.
- *Cache*: `MaxRedirects = 2` lets a chain leave the host and come back. Processes are symmetric.

### Conditions, and what lies outside of them

Some properties hold under a condition of the code's use. The conditions are in the statements
or the instances, and each marks a limit of the code that was confirmed on the model:

- `NoHookLeftBehind`, `ApplyAllSettles` and `InstalledHooksSettle`: until a thread declares a
  patch of a module that another one imports ("raced"). An import between the test of `sys.modules` and the append to the queue
  (`_hooks.py:71-74`) leaves a hook waiting for a loaded module, and an append between the pop and the put back
  (`_hooks.py:81-86`) is overwritten. So of `HookConserved` only the first part, that a hook is never held twice, is
  about races too; the second, that what has not settled is held, is about behaviours without.
- `HookSeesCompleteModule` allows one case: a hook declared while its module executes (a
  circular import) runs at once, because the module is in `sys.modules`, and not "once a top-level module has finished
  executing" (`_hooks.py:1`); definitions further down
  the module then replace the wrapper. The history shows that case. So `AppliedStaysInEffect` is about behaviours without overlaps.
- `AppliedStaysInEffect` is checked where the patched attribute is in a submodule, when a module
  has several hooks, since submodules survive a failed import of their package; otherwise it is
  the finding of `hooks_partial`. `HooksApart`, the hypothesis of the theorem, says that much: of two
  hooks of one module each patches a submodule. `hooks_threads` satisfies it, `hooks_partial` does not.
- `NoHookLeftBehind`, `ApplyAllSettles` and the liveness property exclude namespace packages: a spec without a loader
  is not claimed (`_hooks.py:59`), so their hooks never run. A module that is not installed stops
  every `apply_all()` before it reaches the modules queued behind it; no hook of the instances waits
  for one.
- `AliasesRefused`, `InheritedPatchRefused`: while other code copies no function objects. `AppliedMeansLive`,
  `RefusalIsJustified`: while other code does nothing to the attributes. `_applied` keeps the `id` of an
  original for ever, so a patch whose original was put back is refused when it is declared again, and so is the patch
  of a new function at the address of an original that is gone, the finding of `patch_reused_id`.
  A patch that was applied and is declared again, by a reload of its module, when its `until` is satisfied is
  "skipped_until" and stays in effect, since `_apply` returns before it looks at the target; no property is about the truth of that status.
  `NoPatchReplacesAnother`, and the three before it as theorems: sites with identities of their own (`OwnIdentity`). Two replacements with one qualified name
  in one file share an identity, and the second takes the place of the first.
- `TrackedAlikePassMeansQuiet`: where a declared target that another declaration depends on is tracked, and two
  declarations of one target track it alike (`TrackedAlike`), since an import expands one of them alone; otherwise
  `check_tracking`.
- `DriftIsHeard` excepts the declarations that compare nothing at import (`Silent`): `_apply` returns on a satisfied
  `until` (`_api.py:232-236`), and watches in tables are registered only (`_registry.py:149-157`). It also excepts a
  declaration that leaves a value untracked, when the check compares the value for another declaration of the target or, alone,
  because the target is a dependency of another one. A target that is "unlocked" or "missing" is left to `mpat check`.
- `OrderIsIrrelevant` says that two orders give the same statuses where no dependency has two users and no target two
  declarations. Otherwise the user that comes first gives a target its parent, its role and its `review_by`: in another order, as under pytest,
  the target may be "unlocked", or a review may be due; it is not clean in one order and drifted in the other.
- `MissingMeansGone` allows "missing" for a target that is not gone where a name on the way to it begins with the name of the module that
  was not found and goes on (not `WholeNames`), which one release of the instance has. `name.startswith(exc.name)` takes the missing dependency `foo` for a part of the target `foobar.f` and reports a
  broken environment as "missing", which `src/CHANGELOG.md:100-102` says never happens.
- `StatusIsOfLiveCode`: where only one class or function statement has the name of a class on the way to the target, or of a
  class that is the target (`Unambiguous`); otherwise the finding of `track_branches`. A `def` that shares the name counts:
  `definition_node` takes the first statement of the name, whichever kind it is. It is about targets with a source. A setter is not part of a property's fingerprint.
- `DriftIsShown` is about all statements, and allows the warning where the one that was hashed is not the one found without a
  line (`FoundElsewhere`). Of overloads and branches the archive yields the first, and `_REBUILT` is printed although nothing was
  rebuilt, which `src/docs/site/pages/cli.md:293-295` gives as its cause. A moved
  target gets an ordinary diff, not the removed lines cli.md mentions.
- `EveryUserIsMarked`: where no file declares a target twice (`NamedOnce`). Two declarations of a target in one file share an identity.
- `LockCheck` reports a target whose module raises `ImportError` as missing; `mpat check` ends with an error there. Neither passes.
- `LockFile` lets one call of a `write_lock()` fail, no signal handler raise between `mkstemp` and
  `try`, and the unlink in the handler succeed. A killed write leaves its temporary file behind.
- `ScopedAsAlone`: each file that has declared something is nearest to a project of the session, or
  below none, and is listed where it lies. `apply_overrides()` called in a nested project registers that
  project's tables, and a session about the outer project alone takes them for its own.
- `CachedAsDelivered` allows an archive that a server cut short without saying so. It fails to be read
  until the cache is cleared; for a compressed tar file with an uncaught `EOFError`.

### Fairness

Only `hooks_imports` has a liveness property, under `LiveSpec`. Fairness is about `hookVars`, all variables but
the history. A call that has started goes on
(weak fairness of its steps: Python runs it). A module body and a hook succeed if they are tried
for ever (strong fairness of `FinishBody` and `FireNext`: the failures modelled are transient, such as
a dependency that is being installed), and the application calls `apply_all()` again as long as it
can (strong fairness of `ApplyAll`, the remedy the documentation gives). Nothing is assumed of
declarations, other imports or failures. `InstalledHooksSettle` says nothing of modules that are
not installed.

## Findings

- `hooks_partial`: `fire()` pops each hook that ran before it runs the next; when a later one
  raises, importlib discards the module and the retry runs the remaining hooks only. The first
  patch is reported applied and is not in the new module.
- `patch_reused_id`: `_applied` is keyed by the `id` of an original and does not keep the original alive. After reloads a new
  function can have the address of one that is gone, and is refused as already patched, although nobody patched it. In CPython this takes
  a reload of a module with three patched functions and of the patch module: the new second function has the address of the first original.
- `check_tracking`: the runtime comparison expands one declaration, the lock all of them; with a
  dependency another declaration watches untracked, `mpat check` passes and imports report drift.
- `track_branches`: `definition_node` goes by the code object's line for the last name only, and takes the first definition of
  each name on the way; a class has no line at all. With a class in both branches of an `if`, a change of the branch that
  runs may be "ok".
- `collect_together`: `_register_config` compares a project's tables with all code declarations of the
  process, so two projects that collect alone do not collect together, in one of the two orders.
  In the same way the first `allow` list a process reads decides about the modules of every project.

## Proofs

The theorems are of the form `Spec => []P`, `Spec => [][A]_vars`, or a refinement, and hold for
every value of the constants under the assumptions the modules name, which TLC evaluates in each
run. Five have a hypothesis about the constants besides, `OwnIdentity` or `HooksApart`, that the
checked instances satisfy. Between them they state every invariant and action property of the runs that pass.

**ImportHooks** (`HooksAssumption`), for any threads, modules and hooks. No property of the hooks is inductive by
itself; `HookInv` has four parts.
`CallInv` is about the calls of a thread: only the innermost one moves, a module is imported by one call at a
time, in the state `sysModules` says. `CustodyInv` is about who holds a hook: the
queue, the decorator and the import that fires it exclude one another, what they hold is deferred, and `keys` lists the
queues that are not empty. `SettledHooksAreReleased` and the first part of `HooksAreConserved`, that no hook is held twice, need
no more, and hold through races; that no hook is lost holds until one has happened. `WaitInv` is about what a queued hook waits for (`RestInv`: its module is not
loaded unless an import holds the hook, and a finder is installed or about to be) and about what an `apply_all()` was asked for (`AskedInv`);
it is inductive only while no thread declares a patch of a module another one imports, so that it says first
that the history has seen all overlaps (`OverlapsSeen`). `InEffect` adds for `AppliedPatchesStayInEffect` that a
patch in the namespace of its module is applied only by the last hook of the import
(`EffectInv`), so that no failure can undo it. One lemma per action says what it changes (`QueueHookEffect`, ...), and each part has
one lemma for its step (`CallStep`, `CustodyStep`, `RestStep`, `AskedStep`, `EffectStep`).

**PatchRuntime** (`NullAssumption`, `SiteAssumption`, `PlaceAssumption`). `WrappersDoNotNest` needs
that no address in use is handed out again: `HeapInv` adds to the type invariant that what an
attribute or a wrapper points to is allocated. `AliasesAreRefused` needs more. `AliasInv` says that
the original of every wrapper in place is marked in `_applied` by its own declaration and that places
defined by their owner stay so; a second declaration that reaches the same function then finds the
mark. It is inductive only while no `Alias` step has happened, hence `UncopiedInv` and the fact
that `others` grows. `InheritedPatchesAreRefused` tells wrappers by the place they were made for (`AtTarget`): a subclass and
the class it inherits from are redefined apart (`RedefinedApart`), and at most one of them holds
a wrapper of what they share (`InheritedOne`). For `AppliedPatchesAreLive` and `RefusalsAreJustified`, while
nobody touches the attributes, a mark stands for a wrapper in place and a declaration that was
applied for its own (`MarksHeld`, `AppliedHeld`). `PatchesReplaceOnlyTheirOwn` follows from what `_live_original` refuses.
They assume `OwnIdentity`: with two replacements of one file and qualified name the
code takes the second for the first one declared again.

**LockFile** (`LockAssumption`). `TmpFollowsPc` ties what is known of a temporary file to how far
its call is; `Good` says the file under the final name is written, synced and readable, here and
on the disk. `LockInv` is their conjunction; the safety theorems and the refinement
`LockFileImplementsAtomicLock` follow from it, `Replace` being the commit.

**LockCheck** (`DayAssumption`, `ProjectsAssumption`, `ObjectsAssumption`). `CheckInv` says that the lock
is what `build_lock` made of the audited project and upstream. The theorems then are about the
operators: parsing what was written returns the entry (`ParsedIsWritten`), an equal comparison means
equal fingerprints (`CompareOk`, `SameFingerprint`), and expanding one declaration alone wants of any target it uses what
expanding all does, up to the tracking (`UserWantsAlone`), so that what drifts for all drifts for the one (`DriftOfUntracked`). `TrackedAlikeMeansQuiet` needs the converse for the value, that a target
is tracked in the whole expansion only if it is when its declaration is expanded alone (`TrackedAloneAlike`); the proof showed that
this fails for two declarations of one target that differ, and the condition now says so. `OrderDoesNotMatter` compares the expansions of two orders
of the same declarations, entry by entry (`ExpandedInAnyOrder`), and where targets are shared the comparisons they lead to (`StatusesCompared`).

**SourceTrack** (`ReleaseAssumption`, `ReadingAssumption`). What is installed
is always the surface of a release (`SourceInv`), so that the theorems of `LockCheckProofs` carry over
(`SourceSpecIsSpec`). `ReadingsAreObjects` discharges what they assume of objects: `Hashed` is one statement of the file
(`HashedIsStatement`), its text is made of the parts that are hashed without docstrings and the docstrings (`TextOfParts`), so that
equal sources have equal code (`CodeOfText`). The other theorems are about what the operators return for any library.
`MissingTargetsAreGone` compares the longest prefix that stops the search with the module that was not found
(`BelowTheModule`, `PassedOver`, `GoneAtFailure`); `PatchesAreInvisible` needs that a wrapper ends where the function it wraps
ends (`PatchedEnds`, `SameEndsSameReading`); `DriftsAreShown` follows from `SourceInv`, by which the lock is that of `lockedRelease`,
the release whose archive is searched, and from the lock lemmas about what is written and read back: a name that was hashed is found
without a line too (`FoundAnyway`), and what is found is what was hashed unless another statement comes first (`ArchiveOfSource`).
`StatusTellsOfLiveCode` compares two walks along a path of any length: the one Python took through the statements it
executed and the one `definition_node` takes through the file. Both are recursive functions on the path's positions;
that they are defined (`WalkExists`) and agree as far as classes go (`SameClass`) is shown by a
least counterexample, which needs no induction theorem. What is hashed is then the text of what runs (`HashedIsLive`), and
the recorded kinds of change compare such texts (`SourcesCompared`). The proof failed for a `def` that has the name of a class in
another branch, TLC confirmed it, and `Unambiguous` excludes it now.

**CodeQuality**. `UsersAreMarked` holds in every state: a target that drifted has a row for its parent and
an issue for each other user (`IssuesOfReport`, `UsageIsListed`), and an identity that
another issue shares would make it the same declaration: the identities of rows and usages differ in length
(`ThreeAreNotFour`), and within a kind the file and target are part of them (`RowIsAlone`, `UsageIsAlone`).

**UpstreamCache** (`UpstreamAssumption`). `HoldsByPlace` ties what a process holds to how far it is:
its link is one of the locked release, what it writes is what the server of that link delivered (or
what of it arrived), and a temporary file that is due to be renamed is complete or gone. With it
`CachedAsDelivered` and `CredentialsStay` are inductive, and `ShownIsLockedRelease` follows, since
a readable archive in the cache is then one that is served under the name of the link.

**Collection** (`CollectionAssumption`). `CollectInv` adds to the types that MPAT_COLLECT is set
while `mpat check` collects and at no other time (`CollectMode`), and that what mpat has assigned it has recorded
(`MpatRecorded`, by which an original is never mpat's own value). `LiveInTestsOnly` is one of its
conjuncts; `OverridesAssignedOnce` follows from it by what one call of `apply_overrides()` assigns.
For `ProjectsScopedAsAlone`, `ScopeInv` says where the declarations of the registry can come from:
each is one of its file's (`OfItsFile`), files that were imported have declared all of theirs (`ImportedDeclares`), and a call imports
only modules of the projects it was made for (`CallImports`, `CheckOfOne`). The nearest project above a file is the same
among all projects and among those of the session (`NearestOwns`), so that each project finds what it
finds alone.

Only model-checked: `InstalledHooksSettle`, the liveness of `ImportHooks`, which is out of the
prover's reach. The properties of the findings are false, and so not provable.

## Not modelled

Parsing and validation (TOML configuration, malformed lock files, argument parsing), output (tables, the layout of
diffs, texts and lines of the GitLab report), files, packages and metaclass attributes as targets, distributions and their versions,
evaluation of `until` conditions (in `LockCheck` one is satisfied from some day on), the choice of the
plugin's projects from the command line, test items. They are pure functions whose results the
models take as a choice or a constant. `reset()` functions serve tests only. Hashes are injective in the models:
texts stand for them. Threads that call the decorator themselves on one attribute at the same time are outside of `PatchRuntime`.

## Plan

1. `SourceTrack`: several modules in one package, files and modules as targets.
2. The choice of the plugin's projects from its arguments.
3. Proofs: that the hooks' races are the only way to a hook left behind, as an invariant about behaviours that have
   raced; the refinement of `ImportHooks` to a bag of deferred patches, once such a specification is written.
