----------------------------- MODULE MCBlockchain -----------------------------
(***************************************************************************)
(* Blockchain on a small universe: a genesis with a branch of two blocks and*)
(* a branch of one, a foreign genesis, and a block with an index too high. *)
(***************************************************************************)
EXTENDS Blockchain, TLC

CONSTANTS g, a, aa, b, h, skip

Symmetry == Permutations(Saver)

MCPrev == (g :> NoBlock) @@ (h :> NoBlock) @@ (a :> g) @@ (b :> g)
            @@ (aa :> a) @@ (skip :> a)

MCIndex == (g :> 0) @@ (h :> 0) @@ (a :> 1) @@ (b :> 1)
             @@ (aa :> 2) @@ (skip :> 7)

MCPath == (g :> <<g>>) @@ (h :> <<h>>) @@ (a :> <<g, a>>) @@ (b :> <<g, b>>)
            @@ (aa :> <<g, a, aa>>)
            @@ (skip :> <<g, a, skip>>)
==============================================================================
