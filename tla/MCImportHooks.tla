----------------------------- MODULE MCImportHooks -----------------------------
(* Instances of ImportHooks: three hooks, the first two on one module, and two hooks, *)
(* each on its own.                                                                   *)
EXTENDS ImportHooks, TLC

CONSTANTS m1, m2, m3, h1, h2, h3, t1, t2

ThreeOnTwo == h1 :> m1 @@ h2 :> m1 @@ h3 :> m2
OneOnEach == h1 :> m1 @@ h2 :> m2

================================================================================
