---------------------------- MODULE MasterOverride ----------------------------
(***************************************************************************)
(* One master override, from sendMasterOverrideWithAck on the master to    *)
(* processMasterOverrideCommand on the others and back.                    *)
(*                                                                         *)
(* Commands and acknowledgments travel as message blocks on the block      *)
(* broadcast.  The master calls BroadcastBlock once for each peer, and each*)
(* call goes to all peers known when handleOutgoingBlocks gets to it; a    *)
(* copy is lost when the outgoing channel is full or a dial fails.  ReceiveBlock rejects message blocks afterwards (they  *)
(* are not signed), so they never reach a block tree.                      *)
(*                                                                         *)
(* On the master two goroutines meet: the sender, and the network bridge   *)
(* that delivers acknowledgments.  They share pendingOverrides, under      *)
(* overrideMutex, and the channel in it.                                   *)
(***************************************************************************)
EXTENDS Integers, Sequences, FiniteSets

CONSTANTS
    Peer,     \* the other nodes
    ChanSize  \* the buffer of the response channel, 10 in the code

ASSUME OverrideAssumption == IsFiniteSet(Peer) /\ ChanSize \in Nat \ {0}

VARIABLES
    known,     \* the peers the master's network layer has discovered
    queued,    \* commands in the master's outgoing channel
    copies,    \* copies of the command on their way to each peer
    workers,   \* goroutines of each peer that follow the command
    has,       \* the peers that know the canonical block
    onChain,   \* the peers whose main head is the canonical block
    acks,      \* acknowledgments on their way, by peer and success
    sender,    \* where sendMasterOverrideWithAck is, what it counts
    bridge,    \* where processMasterOverrideAck is
    mutex,     \* the holder of overrideMutex
    open,      \* the request is in pendingOverrides
    closed,    \* the response channel is closed
    chan,      \* the response channel
    counted,   \* history: the peers whose success was counted
    followed   \* history: the peers that were on the canonical chain

net == <<known, queued, copies, acks>>
peers == <<workers, has, onChain, followed>>
shared == <<mutex, open, closed, chan>>
vars == <<known, queued, copies, acks, workers, has, onChain, followed,
          mutex, open, closed, chan, sender, bridge, counted>>

Ack == [from : Peer, success : BOOLEAN]

TypeOK ==
    /\ known \subseteq Peer /\ has \subseteq Peer /\ onChain \subseteq has
    /\ queued \in 0..Cardinality(Peer)
    /\ copies \in [Peer -> 0..Cardinality(Peer)]
    /\ workers \in [Peer -> 0..Cardinality(Peer)]
    /\ acks \in [Ack -> 0..Cardinality(Peer)]
    /\ sender \in [pc : {"register", "broadcast", "count", "wait", "delete", "close", "done"},
                   expected : 0..Cardinality(Peer), successes : Nat,
                   verdict : {"none", "all", "majority", "failed"}]
    /\ bridge.pc \in {"idle", "lookup", "send"}
    /\ mutex \in {"free", "sender", "bridge"}
    /\ open \in BOOLEAN /\ closed \in BOOLEAN
    /\ chan \in Seq(Ack) /\ Len(chan) <= ChanSize
    /\ counted \subseteq Peer /\ followed \subseteq Peer

Init ==
    /\ known \in SUBSET Peer
    /\ queued = 0
    /\ copies = [p \in Peer |-> 0] /\ workers = [p \in Peer |-> 0]
    /\ has \in SUBSET Peer /\ onChain = {} /\ followed = {}
    /\ acks = [a \in Ack |-> 0]
    /\ sender = [pc |-> "register", expected |-> 0, successes |-> 0, verdict |-> "none"]
    /\ bridge = [pc |-> "idle"]
    /\ mutex = "free" /\ open = FALSE /\ closed = FALSE /\ chan = << >>
    /\ counted = {}

------------------------------------------------------------------------------
(* The master's sender.                                                    *)
Register ==
    /\ sender.pc = "register" /\ mutex = "free"
    /\ open' = TRUE
    /\ sender' = [sender EXCEPT !.pc = "broadcast"]
    /\ UNCHANGED <<net, peers, mutex, closed, chan, bridge, counted>>

(* broadcastMasterOverride: one BroadcastBlock per known peer.             *)
Broadcast ==
    /\ sender.pc = "broadcast"
    /\ queued' = Cardinality(known)
    /\ sender' = [sender EXCEPT !.pc = "count"]
    /\ UNCHANGED <<known, copies, acks, peers, shared, bridge, counted>>

(* getConnectedPeerCount is read after the broadcast.                      *)
Count ==
    /\ sender.pc = "count"
    /\ sender' = [sender EXCEPT !.pc = "wait", !.expected = Cardinality(known)]
    /\ UNCHANGED <<net, peers, shared, bridge, counted>>

(* Enough successes: as many as there are peers, whoever sent them.        *)
Collect ==
    /\ sender.pc = "wait" /\ chan # << >>
    /\ LET ack == Head(chan)
           n == sender.successes + (IF ack.success THEN 1 ELSE 0)
       IN /\ sender' = IF n >= sender.expected
                       THEN [sender EXCEPT !.pc = "delete", !.successes = n, !.verdict = "all"]
                       ELSE [sender EXCEPT !.successes = n]
          /\ counted' = IF ack.success THEN counted \cup {ack.from} ELSE counted
    /\ chan' = Tail(chan)
    /\ UNCHANGED <<net, peers, mutex, open, closed, bridge>>

(* The timer: "partial success if majority responded".                     *)
MajorityResponded_AtLeastHalf == sender.successes >= sender.expected \div 2
MajorityResponded == sender.successes > sender.expected \div 2
Timeout ==
    /\ sender.pc = "wait"
    /\ sender' = [sender EXCEPT !.pc = "delete",
                                !.verdict = IF MajorityResponded THEN "majority" ELSE "failed"]
    /\ UNCHANGED <<net, peers, shared, bridge, counted>>

(* The deferred clean-up: the request is removed under the mutex, and only *)
(* then is the channel closed.                                             *)
MayDelete_Unlocked == TRUE
MayDelete == mutex = "free"
Delete ==
    /\ sender.pc = "delete" /\ MayDelete
    /\ open' = FALSE
    /\ sender' = [sender EXCEPT !.pc = "close"]
    /\ UNCHANGED <<net, peers, mutex, closed, chan, bridge, counted>>

Close ==
    /\ sender.pc = "close"
    /\ closed' = TRUE
    /\ sender' = [sender EXCEPT !.pc = "done"]
    /\ UNCHANGED <<net, peers, mutex, open, chan, bridge, counted>>

------------------------------------------------------------------------------
(* The master's bridge: one acknowledgment at a time.                      *)
BridgeReceive(a) ==
    /\ bridge.pc = "idle" /\ acks[a] > 0
    /\ acks' = [acks EXCEPT ![a] = @ - 1]
    /\ bridge' = [pc |-> "lookup", ack |-> a]
    /\ UNCHANGED <<known, queued, copies, peers, shared, sender, counted>>

BridgeLookup ==
    /\ bridge.pc = "lookup" /\ mutex = "free"
    /\ IF open
       THEN mutex' = "bridge" /\ bridge' = [bridge EXCEPT !.pc = "send"]
       ELSE mutex' = "free" /\ bridge' = [pc |-> "idle"]
    /\ UNCHANGED <<net, peers, open, closed, chan, sender, counted>>

(* The send does not block: with the buffer full the answer is dropped.    *)
MaySend_Blocking == Len(chan) < ChanSize
MaySend == TRUE
Buffered_Unbounded(a) == Append(chan, a)
Buffered(a) == IF Len(chan) < ChanSize THEN Append(chan, a) ELSE chan
BridgeSend ==
    /\ bridge.pc = "send" /\ MaySend
    /\ chan' = Buffered(bridge.ack)
    /\ mutex' = "free"
    /\ bridge' = [pc |-> "idle"]
    /\ UNCHANGED <<net, peers, open, closed, sender, counted>>

------------------------------------------------------------------------------
(* A peer.  sendMasterOverrideAck broadcasts; the master's copy is what    *)
(* counts, the other peers know no such request.                           *)
Answer(p, ok) == acks' = [acks EXCEPT ![[from |-> p, success |-> ok]] = @ + 1]

(* processMasterOverrideCommand: an immediate answer, or a goroutine.  A   *)
(* peer without a genesis knows no master and refuses.                     *)
Handle(p) ==
    /\ copies[p] > 0
    /\ copies' = [copies EXCEPT ![p] = @ - 1]
    /\ \/ p \in onChain /\ Answer(p, TRUE) /\ UNCHANGED workers
       \/ p \notin onChain /\ workers' = [workers EXCEPT ![p] = @ + 1] /\ UNCHANGED acks
       \/ p \notin has /\ Answer(p, FALSE) /\ UNCHANGED workers
    /\ UNCHANGED <<known, queued, has, onChain, followed, shared, sender, bridge, counted>>

(* performMasterOverrideChainSync finds the block, at once or after it     *)
(* waited for it, and switches.                                            *)
Follow(p) ==
    /\ workers[p] > 0 /\ p \in has
    /\ workers' = [workers EXCEPT ![p] = @ - 1]
    /\ onChain' = onChain \cup {p} /\ followed' = followed \cup {p}
    /\ Answer(p, TRUE)
    /\ UNCHANGED <<known, queued, copies, has, shared, sender, bridge, counted>>

(* ... or does not have it after the timeout.                              *)
GiveUp(p) ==
    /\ workers[p] > 0 /\ p \notin has
    /\ workers' = [workers EXCEPT ![p] = @ - 1]
    /\ Answer(p, FALSE)
    /\ UNCHANGED <<known, queued, copies, has, onChain, followed, shared, sender, bridge, counted>>

(* The canonical block arrives (the master broadcasts the canonical chain   *)
(* beside the command); a longer chain moves the peer off it again.        *)
Learn(p) ==
    /\ p \notin has
    /\ has' = has \cup {p}
    /\ UNCHANGED <<net, workers, onChain, followed, shared, sender, bridge, counted>>

Leave(p) ==
    /\ p \in onChain
    /\ onChain' = onChain \ {p}
    /\ UNCHANGED <<net, workers, has, followed, shared, sender, bridge, counted>>

------------------------------------------------------------------------------
(* The network: a queued command goes to the peers known by now; peers are *)
(* discovered, never forgotten; copies are lost.                           *)
SendQueued ==
    /\ queued > 0
    /\ queued' = queued - 1
    /\ copies' = [p \in Peer |-> copies[p] + (IF p \in known THEN 1 ELSE 0)]
    /\ UNCHANGED <<known, acks, peers, shared, sender, bridge, counted>>

Discover(p) ==
    /\ p \notin known
    /\ known' = known \cup {p}
    /\ UNCHANGED <<queued, copies, acks, peers, shared, sender, bridge, counted>>

LoseCommand(p) ==
    /\ copies[p] > 0
    /\ copies' = [copies EXCEPT ![p] = @ - 1]
    /\ UNCHANGED <<known, queued, acks, peers, shared, sender, bridge, counted>>

LoseAck(a) ==
    /\ acks[a] > 0
    /\ acks' = [acks EXCEPT ![a] = @ - 1]
    /\ UNCHANGED <<known, queued, copies, peers, shared, sender, bridge, counted>>

------------------------------------------------------------------------------
Send == Register \/ Broadcast \/ Count \/ Collect \/ Timeout \/ Delete \/ Close
Bridge == (\E a \in Ack : BridgeReceive(a)) \/ BridgeLookup \/ BridgeSend
Follower(p) == Handle(p) \/ Follow(p) \/ GiveUp(p) \/ Learn(p) \/ Leave(p)
Network == SendQueued \/ (\E p \in Peer : Discover(p) \/ LoseCommand(p)) \/ \E a \in Ack : LoseAck(a)

Next == Send \/ Bridge \/ Network \/ \E p \in Peer : Follower(p)

(* Goroutines that can run do run, the timer fires, and overrideMutex does *)
(* not starve a waiter.  Nothing is assumed of peers or of the network.    *)
Fairness ==
    /\ WF_vars(Broadcast) /\ WF_vars(Count) /\ WF_vars(Timeout) /\ WF_vars(Close)
    /\ SF_vars(Register) /\ SF_vars(Delete)
    /\ WF_vars(BridgeSend)

Spec == Init /\ [][Next]_vars /\ Fairness

------------------------------------------------------------------------------
(* An answer is never sent on the closed channel, which would stop the     *)
(* process: who finds the request in pendingOverrides finishes his send    *)
(* before the request can be removed and the channel closed.               *)
NoSendOnClosed == bridge.pc = "send" => ~closed

(* A success verdict has a witness: some peer did follow the master.       *)
VerdictHasWitness ==
    sender.verdict \in {"all", "majority"} => counted # {} /\ counted \subseteq followed

(* The call returns, whatever the peers answer and however late.           *)
SenderReturns == (sender.pc = "register") ~> (sender.pc = "done")

(* "All nodes acknowledged master override successfully" (line 252): as    *)
(* many different nodes as the sender expected answers from.               *)
AllMeansAll == sender.verdict = "all" => Cardinality(counted) >= sender.expected
==============================================================================
