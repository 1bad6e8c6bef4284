---------------------------- MODULE MCUpstreamCache ----------------------------
(* Two indexes that serve different builds of the same wheel, and a release that only *)
(* one has, as an sdist, next to files of another project with the same version.      *)
EXTENDS UpstreamCache, TLC

CONSTANTS p1, p2, pypi, mirror, storage, wheel, sdist, other

TwoNames == (wheel :> [dist |-> "lib", version |-> 1, rank |-> 1])
         @@ (sdist :> [dist |-> "lib", version |-> 2, rank |-> 3])
         @@ (other :> [dist |-> "libextra", version |-> 2, rank |-> 1])

On(host, archive, content) == [archive |-> archive, host |-> host, content |-> content]

TwoPages == (pypi :> {On(storage, wheel, "built"), On(storage, other, "other")})
         @@ (mirror :> {On(mirror, wheel, "rebuilt"), On(mirror, sdist, "source"),
                        On(storage, other, "other")})

TwoReleases == {[dist |-> "lib", version |-> 1], [dist |-> "lib", version |-> 2]}

Twins == Permutations({p1, p2})

================================================================================
