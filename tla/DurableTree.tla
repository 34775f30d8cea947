----------------------------- MODULE DurableTree -----------------------------
(***************************************************************************)
(* What a node's block store promises, without heads, arrays, rows or      *)
(* flags: it knows a set of blocks that forms one rooted tree; a           *)
(* successful save commits everything known at that moment; a crash        *)
(* forgets what was not committed and may keep some of it; a committed     *)
(* block is never lost.                                                    *)
(***************************************************************************)
EXTENDS BlockTree

VARIABLES
    running,   \* the process is up
    known,     \* the blocks of the in-memory tree
    committed  \* the blocks some successful save covered

durableVars == <<running, known, committed>>

RootedTree(S) ==
    /\ \A b \in S : Ancestors(b) \subseteq S
    /\ \A b, c \in S : Path[b][1] = Path[c][1]

DurableInit == running = TRUE /\ known = {} /\ committed = {}

(* A block is learnt when its parent is known, a root when nothing is.     *)
Learn(b) ==
    /\ running
    /\ b \notin known
    /\ IF known = {} THEN Prev[b] = NoBlock ELSE Prev[b] \in known
    /\ known' = known \cup {b}
    /\ UNCHANGED <<running, committed>>

Commit ==
    /\ running
    /\ committed' = committed \cup known
    /\ UNCHANGED <<running, known>>

Stop ==
    /\ running
    /\ running' = FALSE
    /\ known' = {}
    /\ UNCHANGED committed

Recover ==
    /\ ~running
    /\ running' = TRUE
    /\ \E S \in SUBSET Block :
         /\ committed \subseteq S
         /\ RootedTree(S)
         /\ known' = S
    /\ UNCHANGED committed

DurableNext == (\E b \in Block : Learn(b)) \/ Commit \/ Stop \/ Recover

DurableSpec == DurableInit /\ [][DurableNext]_durableVars
==============================================================================
