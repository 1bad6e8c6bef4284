----------------------------- MODULE MCCollection -----------------------------
(* A repository with a project in a directory of another project, a patch module of   *)
(* each and one that lies outside of both, the library they patch, and a project      *)
(* whose only table is forbidden.                                                     *)
EXTENDS Collection

CONSTANTS outer, inner, side, mo, mi, shared, a, b, c, e, g

NestedRoots == [file \in {outer, inner, side, mo, mi, shared} |->
    CASE file \in {outer, mo} -> <<outer>>
      [] file \in {inner, mi} -> <<inner, outer>>
      [] file = side -> <<side>>
      [] file = shared -> <<>>]

TwoLists == [p \in {outer, inner, side} |->
    CASE p = outer -> <<mo, shared>> [] p = inner -> <<mi>> [] p = side -> <<>>]

AllWatches == [p \in {outer, inner, side} |->
    IF p = side THEN {b} ELSE {}]

\* The inner project overrides what `shared` watches in code.
TwoOverrides == [p \in {outer, inner, side} |->
    CASE p = outer -> <<e>> [] p = inner -> <<g, c>> [] p = side -> <<>>]

\* `mi` watches what `mo` patches.
ThreeCode == [m \in {mo, mi, shared} |->
    CASE m = mo -> {a} [] m = mi -> {a, b} [] m = shared -> {c}]

InnerAllows == [p \in {outer, inner, side} |-> IF p = inner THEN {b} ELSE {}]

================================================================================
