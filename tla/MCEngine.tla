------------------------------- MODULE MCEngine -------------------------------
(***************************************************************************)
(* Engine on a chain g - a - aa - aaa of other nodes, with a fork f of it, *)
(* a wrong-index child of a, and a block o of this node that forks the     *)
(* chain unless it is created before the others arrive.                    *)
(***************************************************************************)
EXTENDS Engine, TLC

CONSTANTS g, a, aa, aaa, f, o, skip

PrevOf == (g :> NoBlock) @@ (a :> g) @@ (aa :> a) @@ (aaa :> aa)
            @@ (f :> g) @@ (o :> g) @@ (skip :> a)
MCPrev == [x \in Block |-> PrevOf[x]]

IndexOf == (g :> 0) @@ (a :> 1) @@ (aa :> 2) @@ (aaa :> 3)
            @@ (f :> 1) @@ (o :> 1) @@ (skip :> 7)
MCIndex == [x \in Block |-> IndexOf[x]]

PathOf == (g :> <<g>>) @@ (a :> <<g, a>>) @@ (aa :> <<g, a, aa>>)
            @@ (aaa :> <<g, a, aa, aaa>>) @@ (f :> <<g, f>>) @@ (o :> <<g, o>>) @@ (skip :> <<g, a, skip>>)
MCPath == [x \in Block |-> PathOf[x]]
==============================================================================
