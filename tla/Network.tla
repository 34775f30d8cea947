------------------------------- MODULE Network -------------------------------
(***************************************************************************)
(* One node's connections: the proactive ones of Links, the ones it        *)
(* accepts, a BroadcastWeatherData that writes to the first kind, and a    *)
(* Stop that closes all of them (network/network_manager.go).              *)
(***************************************************************************)
EXTENDS Links

CONSTANT
    Inbound  \* bound: the connections peers open to this node

ASSUME NetworkAssumption == IsFiniteSet(Inbound)

VARIABLES
    acceptor,   \* where the accepting goroutine is, and what it has accepted
    inbound,    \* the accepted connections
    listed,     \* the connections list; nil after Stop
    expired,    \* the ten seconds of a broadcast's context are over
    sender      \* the two goroutines of a broadcast per peer: the one that
                \* writes, up to its end, and then the one that waits for it

inVars == <<acceptor, inbound, listed>>
weatherVars == <<expired, sender>>
vars == <<stop, linkVars, inVars, weatherVars>>

NoConn == [at |-> "check", conn |-> {}]
Sender(at) == [at |-> at, life |-> None, limited |-> FALSE]
Writing(l) == [at |-> "write", life |-> l, limited |-> TRUE]

TypeOK ==
    /\ LinksTypeOK
    /\ acceptor \in [at : {"check", "accept", "register", "over"}, conn : SUBSET Inbound]
    /\ inbound \in [Inbound -> {"none", "open", "closed"}]
    /\ listed \subseteq Inbound
    /\ expired \in BOOLEAN
    /\ sender \in [Peer -> [at : {"none", "look", "write", "ended", "waited"},
                            life : Life \cup {None}, limited : BOOLEAN]]

Init ==
    /\ LinksInit
    /\ acceptor = NoConn
    /\ inbound = [c \in Inbound |-> "none"] /\ listed = {}
    /\ expired = FALSE
    /\ sender = [p \in Peer |-> Sender("none")]

------------------------------------------------------------------------------
(* The accepting goroutine of Start.                                       *)
Listening == stop # "stopped"

LoopsOn_ListenerOnly == Listening
LoopsOn == Running /\ Listening
CheckRunning ==
    /\ acceptor.at = "check"
    /\ acceptor' = [acceptor EXCEPT !.at = IF LoopsOn THEN "accept" ELSE "over"]
    /\ UNCHANGED <<stop, linkVars, inbound, listed, weatherVars>>

(* A connection, or a timeout after a second or a closed listener.         *)
Accept(c) ==
    /\ acceptor.at = "accept" /\ Listening /\ inbound[c] = "none"
    /\ acceptor' = [at |-> "register", conn |-> {c}]
    /\ inbound' = [inbound EXCEPT ![c] = "open"]
    /\ UNCHANGED <<stop, linkVars, listed, weatherVars>>

AcceptNothing ==
    /\ acceptor.at = "accept"
    /\ acceptor' = NoConn
    /\ UNCHANGED <<stop, linkVars, inbound, listed, weatherVars>>

(* Append to connections, whatever Stop did meanwhile; start the handler.  *)
Register ==
    /\ acceptor.at = "register"
    /\ listed' = listed \cup acceptor.conn
    /\ acceptor' = NoConn
    /\ UNCHANGED <<stop, linkVars, inbound, weatherVars>>

(* handleConnection ends, as the peer or Stop has closed the connection:   *)
(* it closes its own end and leaves the list.                              *)
HandlerEnds(c) ==
    /\ inbound[c] # "none" /\ c \notin acceptor.conn
    /\ inbound' = [inbound EXCEPT ![c] = "none"]
    /\ listed' = listed \ {c}
    /\ UNCHANGED <<stop, linkVars, acceptor, weatherVars>>

(* Stop: the accepted connections first, the listener last.                *)
SweepAccepted ==
    /\ stop = "signalled"
    /\ stop' = "swept"
    /\ inbound' = [c \in Inbound |-> IF c \in listed THEN "closed" ELSE inbound[c]]
    /\ listed' = {}
    /\ UNCHANGED <<linkVars, acceptor, weatherVars>>

CloseListener ==
    /\ stop = "unlinked"
    /\ stop' = "stopped"
    /\ UNCHANGED <<linkVars, inVars, weatherVars>>

------------------------------------------------------------------------------
(* BroadcastWeatherData: two goroutines per peer known at this moment.  One*)
(* broadcast follows the other; what an old one left hanging in a write is *)
(* seen by nobody.                                                         *)
Broadcasting == \E p \in Peer : sender[p].at # "none"
Begin ==
    /\ ~Broadcasting /\ peers # {}
    /\ sender' = [p \in Peer |-> IF p \in peers THEN Sender("look") ELSE Sender("none")]
    /\ UNCHANGED <<stop, linkVars, inVars, expired>>

Sends(p, s) == /\ sender' = [sender EXCEPT ![p] = s]
               /\ UNCHANGED <<stop, linkVars, inVars, expired>>

(* sendWeatherDataToPeer takes the stored connection, open or not, and     *)
(* dials for this one message if there is none, for at most five seconds.  *)
(* The write has a deadline of three seconds.                              *)
Look(p) ==
    /\ sender[p].at = "look"
    /\ \/ Sends(p, Writing(active[p]))
       \/ active[p] = None /\ Sends(p, Sender("ended"))

On(p, states) == sender[p].life # None /\ conn[p][sender[p].life] \in states

(* A broken connection may still take a message.                           *)
WriteSucceeds(p) ==
    /\ sender[p].at = "write" /\ ~On(p, {"closed"})
    /\ Sends(p, Sender("ended"))

WriteFails(p) ==
    /\ sender[p].at = "write" /\ (sender[p].limited \/ On(p, {"broken", "closed"}))
    /\ Sends(p, Sender("ended"))

(* A health check that passes has taken every deadline off the connection, *)
(* that of a write under way as well.                                      *)
CheckPasses(p, l) ==
    /\ stage[p][l] = "watch" /\ conn[p][l] = "open"
    /\ sender[p].at = "write" /\ sender[p].life = l
    /\ Sends(p, [sender[p] EXCEPT !.limited = FALSE])

(* The waiter reports what the sender left in a channel with room for it,  *)
(* or that time is up; then the sender, if it still writes, is forgotten.  *)
MayReport_Result(p) == sender[p].at = "ended"
MayReport(p) == sender[p].at = "ended" \/ (sender[p].at \in {"look", "write"} /\ expired)
Report(p) == MayReport(p) /\ Sends(p, Sender("waited"))

Expire ==
    /\ Broadcasting /\ ~expired
    /\ expired' = TRUE
    /\ UNCHANGED <<stop, linkVars, inVars, sender>>

(* All waiters are done, results is closed, and the loop over it ends.     *)
Return ==
    /\ Broadcasting /\ \A p \in Peer : sender[p].at \in {"none", "waited"}
    /\ sender' = [p \in Peer |-> Sender("none")]
    /\ expired' = FALSE
    /\ UNCHANGED <<stop, linkVars, inVars>>

------------------------------------------------------------------------------
LinkStep ==
    /\ \/ \E p \in Peer : Discover(p) \/ \E l \in Life : Lives(p, l) \/ Break(p, l)
       \/ Signal \/ Unlink
    /\ UNCHANGED <<inVars, weatherVars>>
AcceptStep ==
    \/ CheckRunning \/ AcceptNothing \/ Register \/ SweepAccepted \/ CloseListener
    \/ \E c \in Inbound : Accept(c) \/ HandlerEnds(c)
WeatherStep ==
    \/ Begin \/ Expire \/ Return
    \/ \E p \in Peer : Look(p) \/ WriteSucceeds(p) \/ WriteFails(p) \/ Report(p)
                         \/ \E l \in Life : CheckPasses(p, l)
Next == LinkStep \/ AcceptStep \/ WeatherStep

(* The goroutines of a broadcast and its timer go on; a dial and a write   *)
(* with a deadline end.  A write without one may wait for a peer that does *)
(* not read; nothing is assumed of peers, or of the one who calls Stop.    *)
Fairness ==
    /\ LinksFairness
    /\ WF_vars(Expire) /\ WF_vars(Return)
    /\ \A p \in Peer : WF_vars(Look(p) \/ WriteFails(p) \/ Report(p))

Spec == Init /\ [][Next]_vars /\ Fairness

------------------------------------------------------------------------------
(* A connection that Stop finds neither in the list nor in the acceptor's  *)
(* hands stays open until the peer closes it.  There is at most one, as    *)
(* the goroutine looks at isRunning after each connection.                 *)
AtMostOneLate ==
    stop \notin {"running", "signalled"} =>
        Cardinality({c \in Inbound : inbound[c] = "open"}) <= 1

(* monitorSlots waits for the broadcast before it asks for the validator:  *)
(* the broadcast returns although a write, whose deadline a health check   *)
(* has taken away, may never end.                                          *)
BroadcastReturns == Broadcasting ~> ~Broadcasting
==============================================================================
