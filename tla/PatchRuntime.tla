----------------------------- MODULE PatchRuntime -----------------------------
(***************************************************************************)
(* Applying patches in a running process (_api.py: patch, _apply,          *)
(* _live_original, _wrap; _registry.py: register, mark_applied).           *)
(*                                                                         *)
(* A place is an attribute of a module or class.  A class attribute may be *)
(* inherited: Mro lists the places Python looks at, the place itself first,*)
(* and a place whose owner does not define the attribute holds NULL.       *)
(* Function objects live at addresses, because mpat identifies an original *)
(* by id(); an address may be used again once its object is freed.         *)
(*                                                                         *)
(* A site is one decorated replacement function.  Running the decorator    *)
(* again, as a reload of the patch module does, repeats the site.  Other   *)
(* code may replace and alias attributes too (a monkeypatch, its undo, a   *)
(* `from` import, a reload of the target's module).                        *)
(***************************************************************************)
EXTENDS Naturals, Sequences

CONSTANTS
    Sites,          \* the decorated functions
    Identities,     \* (file, qualified name) pairs
    Places,         \* patchable attributes
    Addrs,          \* addresses of function objects
    NULL,
    SiteTarget,     \* the place a site patches
    SiteIdentity,   \* its declaration's identity
    SitePolicy,     \* its on_drift
    Mro,            \* where Python looks a place up
    Upstream,       \* what upstream's own code puts at each place
    Strict          \* MPAT_STRICT=1

ASSUME NullAssumption == NULL \notin Addrs /\ NULL \notin Sites

ASSUME SiteAssumption ==
    /\ SiteTarget \in [Sites -> Places]
    /\ SiteIdentity \in [Sites -> Identities]
    /\ SitePolicy \in [Sites -> {"warn", "skip", "raise"}]
    /\ Strict \in BOOLEAN

ASSUME PlaceAssumption ==
    /\ Mro \in [Places -> Seq(Places)]
    /\ \A p \in Places : Mro[p] # <<>> /\ Mro[p][1] = p
    /\ Upstream \in [Places -> Addrs \cup {NULL}]

VARIABLES
    own,        \* the attribute in the owner's own namespace, NULL when inherited
    heap,       \* the function objects, by address
    applied,    \* _applied: id of an original |-> site of the declaration, or NULL
    registry,   \* _declarations: identity |-> site of the declaration, or NULL
    status,     \* the status of each site's latest declaration
    others      \* history: what other code has done to the attributes

vars == <<own, heap, applied, registry, status, others>>

Free == [kind |-> "free"]
Function == [kind |-> "function"]
Wrapper(s, original) == [kind |-> "wrapper", site |-> s, original |-> original]

TypeOK ==
    /\ own \in [Places -> Addrs \cup {NULL}]
    /\ heap \in [Addrs -> {Free, Function}
                          \cup [kind : {"wrapper"}, site : Sites, original : Addrs]]
    /\ applied \in [Addrs -> Sites \cup {NULL}]
    /\ registry \in [Identities -> Sites \cup {NULL}]
    /\ status \in [Sites -> {"undeclared", "registered", "applied",
                             "skipped_until", "skipped_drift"}]
    /\ others \subseteq {"alias", "redefine"}

Init ==
    /\ own = Upstream
    /\ heap = [a \in Addrs |-> IF \E p \in Places : Upstream[p] = a THEN Function ELSE Free]
    /\ applied = [a \in Addrs |-> NULL]
    /\ registry = [i \in Identities |-> NULL]
    /\ status = [s \in Sites |-> "undeclared"]
    /\ others = {}

--------------------------------------------------------------------------------
(* Looking an attribute up: inspect.getattr_static.                        *)

IsWrapper(a) == heap[a].kind = "wrapper"

\* The object at address a is what place p resolves to.
Resolves(p, a) == \E i \in DOMAIN Mro[p] :
    /\ own[Mro[p][i]] = a
    /\ a # NULL
    /\ \A j \in 1 .. (i - 1) : own[Mro[p][j]] = NULL

\* _declares_directly(): a module attribute, or one in vars() of the class.
DeclaresDirectly(p) == own[p] # NULL

--------------------------------------------------------------------------------
(* _live_original(): the function a site wraps when it finds `live` at its *)
(* target, or AlreadyPatched.                                              *)

SameIdentity(s, live) == SiteIdentity[heap[live].site] = SiteIdentity[s]

\* Mutant: aliases are not recognised.
RefusedByWrapper(s, live) == IsWrapper(live) /\ ~SameIdentity(s, live)

\* Mutant: the wrapper's identity is not looked at.
RefusedAsAlias(s, live) ==
    ~IsWrapper(live) /\ DeclaresDirectly(SiteTarget[s]) /\ applied[live] # NULL

\* Mutant: every wrapper is somebody else's.
RefusedAlways(s, live) ==
    IsWrapper(live) \/ (DeclaresDirectly(SiteTarget[s]) /\ applied[live] # NULL)

Refused(s, live) ==
    IF IsWrapper(live)
    THEN ~SameIdentity(s, live)
    ELSE DeclaresDirectly(SiteTarget[s]) /\ applied[live] # NULL

\* Mutant: what is live is wrapped, also when it is this declaration's own wrapper.
OriginalNesting(live) == live

Original(live) == IF IsWrapper(live) THEN heap[live].original ELSE live

--------------------------------------------------------------------------------
(* The decorator: register(decl), then _apply().                           *)

\* register(): the dictionary keeps one declaration per identity.
Register(s) == registry' = [registry EXCEPT ![SiteIdentity[s]] = s]

SetStatus(s, st) == status' = [status EXCEPT ![s] = st]

\* `until` is satisfied: nothing is looked at and nothing is undone.
PatchSkippedUntil(s) ==
    /\ Register(s)
    /\ SetStatus(s, "skipped_until")
    /\ UNCHANGED <<own, heap, applied, others>>

\* _handle_drift() when the lock no longer matches.
RaisesOnDrift(s) == Strict \/ SitePolicy[s] = "raise"

PatchSkippedDrift(s) ==
    /\ ~RaisesOnDrift(s)
    /\ SitePolicy[s] = "skip"
    /\ Register(s)
    /\ SetStatus(s, "skipped_drift")
    /\ UNCHANGED <<own, heap, applied, others>>

\* The declaration is registered before anything can raise, and stays registered.
PatchDriftRaises(s) ==
    /\ RaisesOnDrift(s)
    /\ Register(s)
    /\ SetStatus(s, "registered")
    /\ UNCHANGED <<own, heap, applied, others>>

\* Mutant: the status is assigned before the live object is looked at.
PatchRefusedAsApplied(s) ==
    /\ \E live \in Addrs : Resolves(SiteTarget[s], live) /\ Refused(s, live)
    /\ Register(s)
    /\ SetStatus(s, "applied")
    /\ UNCHANGED <<own, heap, applied, others>>

PatchRefused(s) ==
    /\ \E live \in Addrs : Resolves(SiteTarget[s], live) /\ Refused(s, live)
    /\ Register(s)
    /\ SetStatus(s, "registered")
    /\ UNCHANGED <<own, heap, applied, others>>

\* Mutant: the identity is kept in _applied instead of the declaration.
InstallMarkingIdentity(s, at, original) ==
    /\ heap' = [heap EXCEPT ![at] = Wrapper(s, original)]
    /\ own' = [own EXCEPT ![SiteTarget[s]] = at]
    /\ applied' = [applied EXCEPT ![original] = SiteIdentity[s]]

\* setattr(parent, attr, wrapper), mark_applied(id(original), decl).
Install(s, at, original) ==
    /\ heap' = [heap EXCEPT ![at] = Wrapper(s, original)]
    /\ own' = [own EXCEPT ![SiteTarget[s]] = at]
    /\ applied' = [applied EXCEPT ![original] = s]

PatchApplied(s) ==
    \E live, at \in Addrs :
        /\ Resolves(SiteTarget[s], live)
        /\ ~Refused(s, live)
        /\ heap[at] = Free
        /\ Install(s, at, Original(live))
        /\ Register(s)
        /\ SetStatus(s, "applied")
        /\ UNCHANGED others

Patch(s) ==
    \/ PatchSkippedUntil(s) \/ PatchSkippedDrift(s) \/ PatchDriftRaises(s)
    \/ PatchRefused(s) \/ PatchApplied(s)

--------------------------------------------------------------------------------
(* The rest of the process.                                                *)

\* Some code assigns a function it has a reference to: a `from` import of the live
\* attribute, or a monkeypatch that is undone.
Alias(p, a) ==
    /\ heap[a] # Free
    /\ own' = [own EXCEPT ![p] = a]
    /\ others' = others \cup {"alias"}
    /\ UNCHANGED <<heap, applied, registry, status>>

\* The target's module is reloaded, or somebody else patches the attribute by hand.
Redefine(p, a) ==
    /\ heap[a] = Free
    /\ heap' = [heap EXCEPT ![a] = Function]
    /\ own' = [own EXCEPT ![p] = a]
    /\ others' = others \cup {"redefine"}
    /\ UNCHANGED <<applied, registry, status>>

\* The interpreter frees an object nothing refers to.  _applied holds its id, not
\* the object.
Reclaim(a) ==
    /\ heap[a] # Free
    /\ \A p \in Places : own[p] # a
    /\ \A b \in Addrs : ~(IsWrapper(b) /\ heap[b].original = a)
    /\ heap' = [heap EXCEPT ![a] = Free]
    /\ UNCHANGED <<own, applied, registry, status, others>>

Next ==
    \/ \E s \in Sites : Patch(s)
    \/ \E p \in Places, a \in Addrs : Alias(p, a) \/ Redefine(p, a)
    \/ \E a \in Addrs : Reclaim(a)

Spec == Init /\ [][Next]_vars

--------------------------------------------------------------------------------
(* Properties.                                                             *)

\* The site whose wrapper place p itself holds.
Holds(p, s) == own[p] # NULL /\ IsWrapper(own[p]) /\ heap[own[p]].site = s

\* Every wrapper calls an upstream function, never another wrapper: re-declaring a
\* patch, as a reload does, does not nest it (tests/test_api.py, "without nesting").
NoNesting == \A a \in Addrs :
    IsWrapper(a) => heap[heap[a].original].kind = "function"

\* Wrappers of one function at p and q are of one declaration.
OneDeclaration(p, q) == \A s, r \in Sites :
    Holds(p, s) /\ Holds(q, r) /\ heap[own[p]].original = heap[own[q]].original =>
        SiteIdentity[s] = SiteIdentity[r]

\* Two places that upstream defines with one function object are never patched by two
\* different declarations: the second is refused as an alias (_live_original).  Only
\* code that copies functions from attribute to attribute can bring that about.
AliasesRefused == "alias" \notin others => \A p, q \in Places :
    Upstream[p] # NULL /\ Upstream[q] # NULL => OneDeclaration(p, q)

\* The place whose upstream definition q inherits.
InheritsFrom(q, p) == \E i \in DOMAIN Mro[q] :
    /\ Mro[q][i] = p
    /\ Upstream[p] # NULL
    /\ \A j \in 1 .. (i - 1) : Upstream[Mro[q][j]] = NULL

\* A method and the one a subclass inherits from it are never patched by different
\* declarations, whichever is declared first (tests/test_api.py, base_then_child and
\* child_then_base).
InheritedPatchRefused == "alias" \notin others => \A p, q \in Places :
    InheritsFrom(q, p) => OneDeclaration(p, q)

\* A declaration never takes the place of another one's wrapper; it is refused, whatever
\* other code has done to the attributes.
NoPatchReplacesAnother == [][\A p \in Places, s, r \in Sites :
    s # r /\ Holds(p, s) /\ Holds(p, r)' => ~\E u \in Sites : Patch(u)]_vars

\* "applied" is the truth: the target holds the wrapper, unless other code took it away.
AppliedMeansLive == others = {} =>
    \A s \in Sites : status[s] = "applied" => Holds(SiteTarget[s], s)

\* AlreadyPatched has a reason, as long as nobody else touches the attributes: a wrapper
\* of another declaration is at the target, or wraps the very function the target
\* resolves to.
RefusalIsJustified == others = {} => \A s \in Sites, live \in Addrs :
    Resolves(SiteTarget[s], live) /\ Refused(s, live) =>
        \E b \in Addrs :
            /\ IsWrapper(b)
            /\ ~SameIdentity(s, b)
            /\ b = live \/ heap[b].original = live

\* A function that a reload has just put at a target is patched again: AlreadyPatched is
\* for "an object already patched under a different name" (docs/site/pages/usage.md:505),
\* and this object never was.  Reloads alone bring a refusal about, when the object gets
\* the address of an original that is gone.
NewFunctionIsPatched == [][\A s \in Sites, a \in Addrs :
    "alias" \notin others /\ Redefine(SiteTarget[s], a) => ~Refused(s, a)']_vars

================================================================================
