------------------------------- MODULE MCMesh -------------------------------
(***************************************************************************)
(* Three nodes: the sender between two others; in a line with a one-way    *)
(* link from the sender to the target, where one node lives a second       *)
(* longer, so that its routes may be gone when it needs them; in a line    *)
(* with a one-way link back, where an OGM may go all the way round; in a   *)
(* line where the sender or the relay restarts; and in one where once a    *)
(* frame is sent again because its sender is not told that it left.        *)
(***************************************************************************)
EXTENDS Mesh

CONSTANTS a, b, c

Both(n, m) == {<<n, m>>, <<m, n>>}
OneSecond == [n \in Nodes |-> 1]
Two(old) == [OneSecond EXCEPT ![old] = 2]

Star ==
  [links |-> Both(a, b) \union Both(a, c), ttl |-> 3, lives |-> OneSecond,
   restarts |-> {}, thefts |-> 0]

Line == Both(a, b) \union Both(b, c)

There(old) ==
  [links |-> Line \union {<<a, c>>}, ttl |-> 2, lives |-> Two(old),
   restarts |-> {}, thefts |-> 0]
Back ==
  [links |-> Line \union {<<c, a>>}, ttl |-> 3, lives |-> OneSecond,
   restarts |-> {}, thefts |-> 0]
Reset(n) ==
  [links |-> Line, ttl |-> 2, lives |-> OneSecond, restarts |-> {n},
   thefts |-> 0]
Again ==
  [links |-> Line, ttl |-> 2, lives |-> OneSecond, restarts |-> {},
   thefts |-> 1]

ThreeNodes == {Star, There(a), There(b), Back, Reset(a), Reset(b), Again}
=============================================================================
