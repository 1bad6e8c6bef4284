------------------------------ MODULE ImportHooks ------------------------------
(***************************************************************************)
(* The deferred half of `patch(..., when_imported=True)`: the queue of     *)
(* post-import hooks (_hooks.py), the finder that claims the modules       *)
(* somebody waits for, and the import machinery as far as the hooks can    *)
(* tell (a per-module lock, sys.modules, the removal of a module whose     *)
(* execution raises).                                                      *)
(*                                                                         *)
(* A thread is a call stack.  Its innermost frame, the last, is one of     *)
(*   "declare"    the decorator, between the status assignment and the end *)
(*                of when_imported();                                      *)
(*   "import"     an import statement, before the module is found, while   *)
(*                its body runs, and while fire() runs the hooks;          *)
(*   "apply_all"  import_pending() with the modules it has yet to import.  *)
(* An empty stack is application code.  Application code and module bodies *)
(* may declare, import, and catch what a call they made raised.            *)
(***************************************************************************)
EXTENDS Naturals, Sequences, SequencesExt, FiniteSets

CONSTANTS
    Threads,        \* threads that import and declare
    Modules,        \* top-level module names
    Hooks,          \* deferred patches, each declared at most once
    HookModule,     \* the top-level module each hook waits for
    InSubmodule,    \* hooks whose attribute lives in a submodule
    DeclaringBodies,\* modules whose body (directly or not) runs patch modules
    FailingHooks,   \* hooks that may raise, and may succeed at a later attempt
    FailingBodies,  \* modules whose body may raise
    Uninstalled,    \* modules no finder finds
    Namespaces      \* namespace packages: a spec without a loader

ASSUME HooksAssumption ==
    /\ HookModule \in [Hooks -> Modules]
    /\ InSubmodule \subseteq Hooks
    /\ FailingHooks \subseteq Hooks
    /\ UNION {DeclaringBodies, FailingBodies, Uninstalled, Namespaces} \subseteq Modules
    /\ Namespaces \cap (DeclaringBodies \cup FailingBodies) = {}  \* they have no body

VARIABLES
    sysModules,     \* "absent", "executing" (initializing) or "loaded"
    pending,        \* _pending: the hooks queued for each module, <<>> for no key
    keys,           \* the keys of _pending in insertion order
    finder,         \* a PostImportFinder is on sys.meta_path
    status,         \* Declaration.status of each hook's declaration
    live,           \* hooks whose wrapper is what the target attribute now holds
    reported,       \* history: hooks that raised into the decorator itself
    stack,          \* the call stack of each thread, innermost frame last
    overlaps        \* history: who declared a patch of a module while it was imported, the
                    \* import itself ("nested") or another thread ("raced")

hookVars == <<sysModules, pending, keys, finder, status, live, reported, stack>>
vars == <<hookVars, overlaps>>

Frame == [op : {"declare"}, hook : Hooks, pc : {"queue", "install", "run"}]
         \cup [op : {"import"}, mod : Modules, pc : {"find", "exec", "fire"},
               claimed : BOOLEAN, hooks : Seq(Hooks)]
         \cup [op : {"apply_all"}, todo : Seq(Modules), asked : SUBSET Hooks]

DeclareFrame(h, pc) == [op |-> "declare", hook |-> h, pc |-> pc]
ImportFrame(m, pc, claimed, hooks) ==
    [op |-> "import", mod |-> m, pc |-> pc, claimed |-> claimed, hooks |-> hooks]
ApplyFrame(todo, asked) == [op |-> "apply_all", todo |-> todo, asked |-> asked]

TypeOK ==
    /\ sysModules \in [Modules -> {"absent", "executing", "loaded"}]
    /\ pending \in [Modules -> Seq(Hooks)]
    /\ keys \in Seq(Modules)
    /\ finder \in BOOLEAN
    /\ status \in [Hooks -> {"undeclared", "deferred", "applied", "skipped"}]
    /\ live \subseteq Hooks
    /\ reported \subseteq Hooks
    /\ stack \in [Threads -> Seq(Frame)]
    /\ overlaps \subseteq {"nested", "raced"}

Init ==
    /\ sysModules = [m \in Modules |-> "absent"]
    /\ pending = [m \in Modules |-> <<>>]
    /\ keys = <<>>
    /\ finder = FALSE
    /\ status = [h \in Hooks |-> "undeclared"]
    /\ live = {}
    /\ reported = {}
    /\ stack = [t \in Threads |-> <<>>]
    /\ overlaps = {}

--------------------------------------------------------------------------------
(* Call stacks.                                                            *)

Idle(t) == stack[t] = <<>>
Top(t) == Last(stack[t])
InFrame(t, op) == ~Idle(t) /\ Top(t).op = op
At(t, op, pc) == InFrame(t, op) /\ Top(t).pc = pc
RunsBody(t) == At(t, "import", "exec")

Call(t, frame) == stack' = [stack EXCEPT ![t] = Append(@, frame)]
Return(t) == stack' = [stack EXCEPT ![t] = Front(@)]
Become(t, frame) == stack' = [stack EXCEPT ![t] = Append(Front(@), frame)]

\* An exception leaves the innermost frame.  import_pending() does not catch it;
\* a module body or the application may.
Raise(t) ==
    LET rest == Front(stack[t])
    IN  stack' = [stack EXCEPT ![t] =
            IF rest # <<>> /\ Last(rest).op = "apply_all" THEN Front(rest) ELSE rest]

\* The import lock of a module is held by the thread that imports it.
Importing(t, m) == \E i \in DOMAIN stack[t] : stack[t][i].op = "import" /\ stack[t][i].mod = m

--------------------------------------------------------------------------------
(* The target attributes.                                                  *)

\* The hooks whose wrapper is stored in the namespace of the module object m
\* itself, and so is gone when that object is replaced by a fresh one.
StoredIn(m) == {h \in Hooks : HookModule[h] = m /\ h \notin InSubmodule}

BodyRuns(m) == \E t \in Threads : \E i \in DOMAIN stack[t] :
    stack[t][i].op = "import" /\ stack[t][i].mod = m /\ stack[t][i].pc = "exec"

\* Mutant: the status is assigned before the skip is looked at.
HookReturnsMarkingAll(h) ==
    /\ status' = [status EXCEPT ![h] = "applied"]
    /\ live' \in {live, live \cup {h}}

\* hook() returns: _apply_deferred() set the attribute, or `until` or the drift
\* check made it leave the attribute alone.
HookReturns(h) ==
    \/ /\ status' = [status EXCEPT ![h] = "applied"]
       /\ live' = live \cup {h}
    \/ /\ status' = [status EXCEPT ![h] = "skipped"]
       /\ UNCHANGED live

\* hook() raises: a drift error, a missing attribute, a kind mismatch.  While the
\* body still runs, the attribute may simply not be defined yet.
HookMayRaise(h) == h \in FailingHooks \/ BodyRuns(HookModule[h])

--------------------------------------------------------------------------------
(* when_imported(): the decorator of a deferred patch.                     *)

MayDeclare(t) == Idle(t) \/ (RunsBody(t) /\ Top(t).mod \in DeclaringBodies)

\* The test `module in sys.modules`.
InSysModules(m) == sysModules[m] # "absent"

\* decl.status = STATUS_DEFERRED, then when_imported() tests sys.modules.
Declare(t, h) ==
    /\ MayDeclare(t)
    /\ status[h] = "undeclared"
    /\ status' = [status EXCEPT ![h] = "deferred"]
    /\ Call(t, DeclareFrame(h, IF InSysModules(HookModule[h]) THEN "run" ELSE "queue"))
    /\ UNCHANGED <<sysModules, pending, keys, finder, live, reported>>

\* _pending.setdefault(module, []).append(hook)
QueueHook(t) ==
    /\ At(t, "declare", "queue")
    /\ LET m == HookModule[Top(t).hook]
       IN  /\ pending' = [pending EXCEPT ![m] = Append(@, Top(t).hook)]
           /\ keys' = IF pending[m] = <<>> THEN Append(keys, m) ELSE keys
    /\ Become(t, DeclareFrame(Top(t).hook, "install"))
    /\ UNCHANGED <<sysModules, finder, status, live, reported>>

\* _install()
InstallFinder(t) ==
    /\ At(t, "declare", "install")
    /\ finder' = TRUE
    /\ Return(t)
    /\ UNCHANGED <<sysModules, pending, keys, status, live, reported>>

\* The module is in sys.modules already: hook() runs inside the decorator.
RunNow(t) ==
    /\ At(t, "declare", "run")
    /\ LET h == Top(t).hook
       IN  \/ HookReturns(h) /\ Return(t) /\ UNCHANGED reported
           \/ /\ HookMayRaise(h)
              /\ reported' = reported \cup {h}
              /\ Raise(t)
              /\ UNCHANGED <<status, live>>
    /\ UNCHANGED <<sysModules, pending, keys, finder>>

--------------------------------------------------------------------------------
(* The import machinery around HookedLoader.                               *)

\* Import statements are run by the application, by a module body, by a hook that
\* resolves its target, and by the loop of import_pending().
MayImport(t, m) ==
    \/ Idle(t) \/ RunsBody(t)
    \/ At(t, "import", "fire") /\ Top(t).hooks # <<>>
    \/ InFrame(t, "apply_all") /\ Top(t).todo # <<>> /\ Head(Top(t).todo) = m

\* An import statement that does not find the module in sys.modules takes the
\* module's import lock.  (One that finds it returns at once.)
Import(t, m) ==
    /\ MayImport(t, m)
    /\ sysModules[m] = "absent"
    /\ ~ \E u \in Threads : Importing(u, m)
    /\ Call(t, ImportFrame(m, "find", FALSE, <<>>))
    /\ UNCHANGED <<sysModules, pending, keys, finder, status, live, reported>>

\* PostImportFinder.find_spec(): claimed only if somebody waits for the module and
\* the spec the other finders return has a loader.
Claims(m) == finder /\ pending[m] # <<>> /\ m \notin Namespaces

\* The module is found, a fresh module object enters sys.modules, its body starts.
\* Whatever was patched in an earlier module object is not in this one.
FindSpec(t) ==
    /\ At(t, "import", "find")
    /\ LET m == Top(t).mod
       IN  IF m \in Uninstalled
           THEN Raise(t) /\ UNCHANGED <<sysModules, live>>
           ELSE /\ sysModules' = [sysModules EXCEPT ![m] = "executing"]
                /\ live' = live \ StoredIn(m)
                /\ Become(t, ImportFrame(m, "exec", Claims(m), <<>>))
    /\ UNCHANGED <<pending, keys, finder, status, reported>>

\* fire() takes the queue of the module.
TakeQueue(m) == pending' = [pending EXCEPT ![m] = <<>>] /\ keys' = RemoveFirst(keys, m)

\* The body ends; its own later definitions may have replaced attributes that were
\* patched while it ran.  HookedLoader.exec_module() goes on to fire().
FinishBody(t) ==
    /\ RunsBody(t)
    /\ LET m == Top(t).mod
       IN  /\ \E redefined \in SUBSET (live \cap StoredIn(m)) : live' = live \ redefined
           /\ IF Top(t).claimed
              THEN /\ TakeQueue(m)
                   /\ Become(t, ImportFrame(m, "fire", TRUE, pending[m]))
                   /\ UNCHANGED sysModules
              ELSE /\ sysModules' = [sysModules EXCEPT ![m] = "loaded"]
                   /\ Return(t)
                   /\ UNCHANGED <<pending, keys>>
    /\ UNCHANGED <<finder, status, reported>>

\* exec_module() raised: the import machinery takes the module out of sys.modules.
DropModule(m) ==
    /\ sysModules' = [sysModules EXCEPT ![m] = "absent"]
    /\ live' = live \ StoredIn(m)

BodyRaises(t) ==
    /\ RunsBody(t)
    /\ Top(t).mod \in FailingBodies
    /\ DropModule(Top(t).mod)
    /\ Raise(t)
    /\ UNCHANGED <<pending, keys, finder, status, reported>>

\* Mutant: the hooks run before the body of the module does.
FireNextBeforeBody(t) ==
    /\ RunsBody(t)
    /\ pending[Top(t).mod] # <<>>
    /\ HookReturns(Head(pending[Top(t).mod]))
    /\ TakeQueue(Top(t).mod)
    /\ UNCHANGED <<sysModules, finder, reported, stack>>

\* Mutant: the hook that ran is not popped.
FireNextKeeping(t) ==
    /\ At(t, "import", "fire")
    /\ Top(t).hooks # <<>>
    /\ HookReturns(Head(Top(t).hooks))
    /\ UNCHANGED <<sysModules, pending, keys, finder, reported, stack>>

\* fire(): hooks[0]() returned, hooks.pop(0).
FireNext(t) ==
    /\ At(t, "import", "fire")
    /\ Top(t).hooks # <<>>
    /\ HookReturns(Head(Top(t).hooks))
    /\ Become(t, ImportFrame(Top(t).mod, "fire", TRUE, Tail(Top(t).hooks)))
    /\ UNCHANGED <<sysModules, pending, keys, finder, reported>>

\* Mutant: the failed hook itself instead of the list of the remaining ones.
PutBackBareHook(m, hooks) ==
    /\ pending' = [pending EXCEPT ![m] = Head(hooks)]
    /\ keys' = IF pending[m] = <<>> THEN Append(keys, m) ELSE keys

\* Mutant: the hook is popped before it runs, so the failed one is not put back.
PutBackRest(m, hooks) ==
    /\ pending' = [pending EXCEPT ![m] = Tail(hooks)]
    /\ keys' = IF pending[m] = <<>> /\ Tail(hooks) # <<>> THEN Append(keys, m) ELSE keys

\* _pending[module] = hooks: what the handler in fire() puts back.
PutBack(m, hooks) ==
    /\ pending' = [pending EXCEPT ![m] = hooks]
    /\ keys' = IF pending[m] = <<>> THEN Append(keys, m) ELSE keys

\* Mutant: fire() swallows what the hook raised.
FireRaisesSilently(t) ==
    /\ At(t, "import", "fire")
    /\ Top(t).hooks # <<>>
    /\ Head(Top(t).hooks) \in FailingHooks
    /\ PutBack(Top(t).mod, Top(t).hooks)
    /\ sysModules' = [sysModules EXCEPT ![Top(t).mod] = "loaded"]
    /\ Return(t)
    /\ UNCHANGED <<finder, status, live, reported>>

\* fire(): hooks[0]() raised; the rest, the failed hook first, is queued again.
FireRaises(t) ==
    /\ At(t, "import", "fire")
    /\ Top(t).hooks # <<>>
    /\ Head(Top(t).hooks) \in FailingHooks
    /\ PutBack(Top(t).mod, Top(t).hooks)
    /\ DropModule(Top(t).mod)
    /\ Raise(t)
    /\ UNCHANGED <<finder, status, reported>>

FireDone(t) ==
    /\ At(t, "import", "fire")
    /\ Top(t).hooks = <<>>
    /\ sysModules' = [sysModules EXCEPT ![Top(t).mod] = "loaded"]
    /\ Return(t)
    /\ UNCHANGED <<pending, keys, finder, status, live, reported>>

--------------------------------------------------------------------------------
(* apply_all() = import_pending(), called from application code.           *)

ApplyAll(t) ==
    /\ Idle(t)
    /\ keys # <<>>
    /\ Call(t, ApplyFrame(keys, UNION {ToSet(pending[m]) : m \in Modules}))
    /\ UNCHANGED <<sysModules, pending, keys, finder, status, live, reported>>

\* import_module() of a module that is in sys.modules returns it; otherwise the loop
\* waits for Import (which needs the frame on top) to bring it there.
ApplyAllNext(t) ==
    /\ InFrame(t, "apply_all")
    /\ Top(t).todo # <<>>
    /\ sysModules[Head(Top(t).todo)] = "loaded"
    /\ Become(t, ApplyFrame(Tail(Top(t).todo), Top(t).asked))
    /\ UNCHANGED <<sysModules, pending, keys, finder, status, live, reported>>

ApplyAllDone(t) ==
    /\ InFrame(t, "apply_all")
    /\ Top(t).todo = <<>>
    /\ Return(t)
    /\ UNCHANGED <<sysModules, pending, keys, finder, status, live, reported>>
--------------------------------------------------------------------------------
(* The system.                                                             *)

Deferral(t) == QueueHook(t) \/ InstallFinder(t) \/ RunNow(t)
Fire(t) == FireNext(t) \/ FireRaises(t) \/ FireDone(t)
Loading(t) == FindSpec(t) \/ FinishBody(t) \/ BodyRaises(t)
Pending(t) == ApplyAll(t) \/ ApplyAllNext(t) \/ ApplyAllDone(t)

Step(t) ==
    \/ \E h \in Hooks : Declare(t, h)
    \/ \E m \in Modules : Import(t, m)
    \/ Deferral(t) \/ Loading(t) \/ Fire(t) \/ Pending(t)

\* Thread t declares a patch of a module that u imports: only imports take a lock.
Overlap(t, u) == InFrame(t, "declare") /\ Importing(u, HookModule[Top(t).hook])

Overlaps == {IF p[1] = p[2] THEN "nested" ELSE "raced" :
                p \in {q \in Threads \X Threads : Overlap(q[1], q[2])}}

Next ==
    /\ \E t \in Threads : Step(t)
    /\ overlaps' = overlaps \cup Overlaps'

Spec == Init /\ [][Next]_vars

\* A started call goes on; a module body ends and a hook succeeds if they are tried
\* again and again; and the application calls apply_all() as long as a hook waits.
Fairness == \A t \in Threads :
    /\ WF_hookVars(Deferral(t) \/ FindSpec(t) \/ FireDone(t) \/ ApplyAllNext(t) \/ ApplyAllDone(t))
    /\ WF_hookVars(InFrame(t, "apply_all") /\ \E m \in Modules : Import(t, m))
    /\ SF_hookVars(FinishBody(t))
    /\ SF_hookVars(FireNext(t))
    /\ SF_hookVars(ApplyAll(t))

LiveSpec == Spec /\ Fairness

--------------------------------------------------------------------------------
(* Properties.                                                             *)

Settled(h) == status[h] \in {"applied", "skipped"}
Waiting(h) == status[h] = "deferred" /\ h \notin reported
Queued(h) == h \in ToSet(pending[HookModule[h]])
HeldBy(f, h) ==
    \/ f.op = "declare" /\ f.hook = h /\ f.pc # "install"
    \/ f.op = "import" /\ h \in ToSet(f.hooks)
Carried(h) == \E t \in Threads : \E i \in DOMAIN stack[t] : HeldBy(stack[t][i], h)

Declaring(h) == \E t \in Threads : At(t, "declare", "run") /\ Top(t).hook = h

\* A deferred patch is never held twice: by the queue of its module and a call, or by two
\* calls, of whichever threads, so that no two imports fire it; and what is held is
\* deferred.  Nor is it lost: until it settles it is held, by the queue or by the call that
\* queues or fires it, so that the exception path of fire() hands it over.  Only where a
\* thread declares a patch of a module that another one imports can a hook be lost.
HookConserved == \A h \in Hooks :
    /\ Queued(h) \/ Carried(h) => Waiting(h)
    /\ ~(Queued(h) /\ Carried(h))
    /\ \A t, u \in Threads : \A i \in DOMAIN stack[t], j \in DOMAIN stack[u] :
          HeldBy(stack[t][i], h) /\ HeldBy(stack[u][j], h) => t = u /\ i = j
    /\ Waiting(h) => Queued(h) \/ Carried(h) \/ "raced" \in overlaps

\* A hook that has run to its end is not run again, whatever failed after it and
\* however often the module is imported again (fire() pops each hook it ran).
SettledHookIsReleased == \A h \in Hooks : Settled(h) => ~Queued(h) /\ ~Carried(h)

\* Once a module is loaded nobody waits for it: a queued hook of a loaded module
\* would never fire, because only an import that executes the module fires it.  (The
\* hooks of a namespace package never do.)
NoHookLeftBehind == "raced" \notin overlaps => \A m \in Modules \ Namespaces :
    sysModules[m] = "loaded" => pending[m] = <<>>

\* A patch whose status is "applied" is in effect in the module the program uses,
\* also after an import that failed half way and was repeated, unless it was declared
\* while the module was imported.
AppliedStaysInEffect == overlaps = {} => \A h \in Hooks :
    status[h] = "applied" /\ sysModules[HookModule[h]] = "loaded" => h \in live

\* A hook runs only once its top-level module has finished executing, as the docstring of
\* _hooks.py has it.  Excepted is one that its decorator runs, because the module is in
\* sys.modules, and only when the patch was declared during the import of the module, which
\* is why AppliedStaysInEffect holds without overlaps only.
HookSeesCompleteModule ==
    [][\A h \in Hooks :
        Settled(h)' /\ ~Settled(h) /\ BodyRuns(HookModule[h]) =>
            Declaring(h) /\ overlaps # {}]_vars

\* When apply_all() returns, every hook that was pending when it was called has
\* settled: import_pending() leaves none behind, also when other threads import the
\* modules at the same time.
ApplyAllSettles == "raced" \notin overlaps => \A t \in Threads :
    InFrame(t, "apply_all") /\ Top(t).todo = <<>> =>
        \A h \in Top(t).asked : HookModule[h] \in Namespaces \/ Settled(h)

\* The hooks of installed modules settle in the end (or raise into their decorator)
\* when the application keeps calling apply_all(), however often bodies and hooks
\* fail on the way, and whichever thread has the import of the module in hand.
InstalledHooksSettle == \A h \in Hooks :
    HookModule[h] \notin Uninstalled \cup Namespaces =>
        (Waiting(h) ~> ~Waiting(h) \/ "raced" \in overlaps)

================================================================================
