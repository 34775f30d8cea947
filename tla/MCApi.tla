-------------------------------- MODULE MCApi --------------------------------
(***************************************************************************)
(* Api on a chain g - a - aa and a fork g - b - bb.                        *)
(***************************************************************************)
EXTENDS Api, TLC

CONSTANTS g, a, aa, b, bb

Symmetry == Permutations(Node)

MCPrev == (g :> NoBlock) @@ (a :> g) @@ (aa :> a) @@ (b :> g) @@ (bb :> b)
MCIndex == (g :> 0) @@ (a :> 1) @@ (aa :> 2) @@ (b :> 1) @@ (bb :> 2)
MCPath == (g :> <<g>>) @@ (a :> <<g, a>>) @@ (aa :> <<g, a, aa>>)
            @@ (b :> <<g, b>>) @@ (bb :> <<g, b, bb>>)
==============================================================================
