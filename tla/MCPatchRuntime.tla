---------------------------- MODULE MCPatchRuntime ----------------------------
(* An instance of PatchRuntime.  `base` is a class attribute, `leaf` the name that  *)
(* a subclass inherits, and `alias` a module's name for the function of `base`.     *)
EXTENDS PatchRuntime, FiniteSets, TLC

CONSTANTS alias, base, leaf, s1, s2, s3, i1, i2, i3, a1, a2, a3

LookUp == alias :> <<alias>> @@ base :> <<base>> @@ leaf :> <<leaf, base>>

Definitions == alias :> a1 @@ base :> a1 @@ leaf :> NULL

Targets == s1 :> base @@ s2 :> leaf @@ s3 :> alias

EachItsOwn == s1 :> i1 @@ s2 :> i2 @@ s3 :> i3

Policies == s1 :> "raise" @@ s2 :> "raise" @@ s3 :> "skip"

\* Addresses upstream does not name are interchangeable.
FreshAddrs == Permutations(Addrs \ {a1})

\* Bound: any two of the declarations in one process.
TwoDeclarations == Cardinality({s \in Sites : status[s] # "undeclared"}) <= 2

================================================================================
