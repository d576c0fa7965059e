---------------------------- MODULE MCBlogStore ----------------------------
(* A small instance of BlogStore for TLC: one post names a tag twice, the      *)
(* other shares that tag with it and is of another category.                   *)
EXTENDS BlogStore, TLC

CONSTANTS b1, b2, a1, a2, life, work, java, redis

MCPosts == {[category |-> life, tags |-> java :> 2 @@ redis :> 0],
            [category |-> work, tags |-> java :> 1 @@ redis :> 1]}

BlogSymmetry == Permutations({b1, b2}) \cup Permutations({a1, a2})
=============================================================================
