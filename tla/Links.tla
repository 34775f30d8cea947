-------------------------------- MODULE Links --------------------------------
(***************************************************************************)
(* The proactive connections of one node (network/network_manager.go) and  *)
(* its Stop.  Discovery starts a goroutine for each new peer that dials it *)
(* (establishProactiveConnection), stores the connection under the peer's  *)
(* name and starts another one that watches it (monitorConnection); when   *)
(* the connection breaks, the watcher removes what is stored under the     *)
(* name and starts the next dialer.                                        *)
(*                                                                         *)
(* A dialer and the watcher it starts never run at the same time: together *)
(* they are one life of the peer's link.  A life has at most one           *)
(* connection, which carries the life's number.                            *)
(***************************************************************************)
EXTENDS Naturals, FiniteSets

CONSTANTS
    Peer,        \* the nodes mDNS may announce
    MaxRetries,  \* maxRetries, 3 in the code
    MaxLives     \* bound: dialers started for one peer

ASSUME LinksAssumption ==
    /\ IsFiniteSet(Peer)
    /\ MaxRetries \in Nat \ {0} /\ MaxLives \in Nat \ {0}

Life == 1..MaxLives
None == 0

VARIABLES
    stop,    \* how far Stop is
    peers,   \* the keys of Peers
    stage,   \* where each life is
    failed,  \* dials that failed in each life
    conn,    \* the connection each life has dialed
    active   \* activeConnections: the life whose connection is stored, or None

linkVars == <<peers, stage, failed, conn, active>>

Running == stop = "running"

Caring == {"dial", "connected", "watch", "broken", "stopping"}
Stage == {"none", "over"} \cup Caring

LinksTypeOK ==
    /\ stop \in {"running", "signalled", "swept", "unlinked", "stopped"}
    /\ peers \subseteq Peer
    /\ stage \in [Peer -> [Life -> Stage]]
    /\ failed \in [Peer -> [Life -> 0..MaxRetries]]
    /\ conn \in [Peer -> [Life -> {"none", "open", "broken", "closed"}]]
    /\ active \in [Peer -> Life \cup {None}]

LinksInit ==
    /\ stop = "running" /\ peers = {}
    /\ stage = [p \in Peer |-> [l \in Life |-> "none"]]
    /\ failed = [p \in Peer |-> [l \in Life |-> 0]]
    /\ conn = [p \in Peer |-> [l \in Life |-> "none"]]
    /\ active = [p \in Peer |-> None]

------------------------------------------------------------------------------
(* go establishProactiveConnection: the next life.                         *)
Unborn(p, l) == /\ stage[p][l] = "none"
                /\ \A k \in Life : k < l => stage[p][k] # "none"
Enter(p, l, s) == stage' = [stage EXCEPT ![p][l] = s]

(* discoverNodes, also after a Stop.  The address of a known peer is never *)
(* renewed, and a known peer is never dialed because of an announcement.   *)
IsNewPeer_Always(p) == TRUE
IsNewPeer(p) == p \notin peers
Discover(p) ==
    /\ IsNewPeer(p)
    /\ peers' = peers \cup {p}
    /\ \E l \in Life : Unborn(p, l) /\ Enter(p, l, "dial")
    /\ UNCHANGED <<stop, failed, conn, active>>

(* An attempt fails: the next one after a pause, or the dialer gives up.   *)
TriesAgain_Inclusive(n) == n < MaxRetries
TriesAgain(n) == n + 1 < MaxRetries
DialFails(p, l) ==
    /\ stage[p][l] = "dial"
    /\ failed' = [failed EXCEPT ![p][l] = @ + 1]
    /\ IF TriesAgain(failed[p][l]) THEN UNCHANGED stage ELSE Enter(p, l, "over")
    /\ UNCHANGED <<stop, peers, conn, active>>

DialSucceeds(p, l) ==
    /\ stage[p][l] = "dial"
    /\ conn' = [conn EXCEPT ![p][l] = "open"]
    /\ Enter(p, l, "connected")
    /\ UNCHANGED <<stop, peers, failed, active>>

(* Under activeConnectionMutex: an older connection of the peer is closed, *)
(* the new one is stored; then its watcher starts.                         *)
Closed_NotAtAll(p, l) == conn
Closed(p, l) == IF l = None THEN conn ELSE [conn EXCEPT ![p][l] = "closed"]
Store(p, l) ==
    /\ stage[p][l] = "connected"
    /\ conn' = Closed(p, active[p])
    /\ active' = [active EXCEPT ![p] = l]
    /\ Enter(p, l, "watch")
    /\ UNCHANGED <<stop, peers, failed>>

(* closeActiveConnection goes by the name of the peer.                     *)
CloseActive(p) ==
    /\ conn' = Closed(p, active[p])
    /\ active' = [active EXCEPT ![p] = None]

------------------------------------------------------------------------------
(* monitorConnection: every minute a read that should time out.  It fails  *)
(* on a connection the peer or Stop has closed.  Bound: the last life's    *)
(* connection does not break, and after a Stop its watcher sees the stop.  *)
ReadFails_UseAfterClose(p, l) == conn[p][l] = "closed"
ReadFails(p, l) == conn[p][l] \in {"broken", "closed"}
CheckFails(p, l) ==
    /\ stage[p][l] = "watch" /\ ReadFails(p, l)
    /\ l # MaxLives
    /\ Enter(p, l, "broken")
    /\ UNCHANGED <<stop, peers, failed, conn, active>>

Redials_IfNotStored(p) == p \in peers /\ active[p] = None
Redials(p) == p \in peers
Reconnect(p, l) ==
    /\ stage[p][l] = "broken"
    /\ CloseActive(p)
    /\ IF Redials(p)
       THEN \E k \in Life : /\ Unborn(p, k)
                            /\ stage' = [stage EXCEPT ![p] = [@ EXCEPT ![l] = "over", ![k] = "dial"]]
       ELSE Enter(p, l, "over")
    /\ UNCHANGED <<stop, peers, failed>>

NoticeStop(p, l) ==
    /\ stage[p][l] = "watch" /\ ~Running
    /\ Enter(p, l, "stopping")
    /\ UNCHANGED <<stop, peers, failed, conn, active>>

OnStop_Return(p) == UNCHANGED <<conn, active>>
OnStop(p) == CloseActive(p)
CloseOnStop(p, l) ==
    /\ stage[p][l] = "stopping"
    /\ OnStop(p)
    /\ Enter(p, l, "over")
    /\ UNCHANGED <<stop, peers, failed>>

(* The peer goes away, or the network between the two.                     *)
Break(p, l) ==
    /\ conn[p][l] = "open" /\ l # MaxLives
    /\ conn' = [conn EXCEPT ![p][l] = "broken"]
    /\ UNCHANGED <<stop, peers, stage, failed, active>>

------------------------------------------------------------------------------
(* The part of Stop that is about links: the stop channel is closed, later *)
(* the connections that are stored are closed and the map is reset.        *)
Signal ==
    /\ stop = "running"
    /\ stop' = "signalled"
    /\ UNCHANGED linkVars

Unlink ==
    /\ stop = "swept"
    /\ stop' = "unlinked"
    /\ conn' = [p \in Peer |-> Closed(p, active[p])[p]]
    /\ active' = [p \in Peer |-> None]
    /\ UNCHANGED <<peers, stage, failed>>

------------------------------------------------------------------------------
Lives(p, l) ==
    \/ DialFails(p, l) \/ DialSucceeds(p, l) \/ Store(p, l)
    \/ CheckFails(p, l) \/ Reconnect(p, l) \/ NoticeStop(p, l) \/ CloseOnStop(p, l)

(* The goroutine that cares for a peer goes on: a dial ends by a timeout,  *)
(* the mutexes are held for one step, the minute passes, and a select that *)
(* is ready on the stop channel does not wait.                             *)
LinksFairness == \A p \in Peer : WF_linkVars(\E l \in Life : Lives(p, l))

------------------------------------------------------------------------------
(* One goroutine at a time cares for a peer's link, whatever discovery,    *)
(* broken connections and a Stop do at the same moment; two would close    *)
(* each other's connections, as they go by the name of the peer.           *)
OneCaretaker ==
    \A p \in Peer : \A k, l \in Life :
        stage[p][k] \in Caring /\ stage[p][l] \in Caring => k = l

(* A stored connection is watched, by the goroutine that was started for   *)
(* this connection: only then is a break ever noticed, and only then does  *)
(* closeActiveConnection(peerID) close the connection its caller means.    *)
StoredIsWatched ==
    \A p \in Peer :
        active[p] # None => stage[p][active[p]] \in {"watch", "broken", "stopping"}

(* A connection this node has dialed is closed in the end: while it is not,*)
(* it is stored, or its dialer is about to store it.  The map of           *)
(* connections is replaced by Stop and written by goroutines that run on.  *)
NoneLeaks ==
    \A p \in Peer, l \in Life :
        conn[p][l] \in {"open", "broken"} => active[p] = l \/ stage[p][l] = "connected"

CaredFor(p) ==
    \E l \in Life :
        stage[p][l] \in Caring \/ (stage[p][l] = "over" /\ failed[p][l] = MaxRetries)

(* While the node runs, a discovered peer has a link, or a goroutine that  *)
(* works on it, or was given up by a dialer that failed every attempt.     *)
CaredForOrGivenUp == Running => \A p \in peers : CaredFor(p)

(* A broken connection does not stay where weather broadcasts look for one.*)
StoredIsBroken(p) == active[p] # None /\ conn[p][active[p]] = "broken"
BrokenIsRemoved == \A p \in Peer : StoredIsBroken(p) ~> ~StoredIsBroken(p)

(* After a Stop no link stays up or comes back for good, although dialers  *)
(* do not look at the stop channel and discovery goes on.                  *)
Unlinked(p) == /\ active[p] = None
               /\ \A l \in Life : conn[p][l] \notin {"open", "broken"}
StopIsFinal == \A p \in Peer : stop = "unlinked" ~> []Unlinked(p)
==============================================================================
