---------------------------- MODULE NetworkProofs ----------------------------
(***************************************************************************)
(* The safety of a node's connections for any number of peers, attempts,   *)
(* lives of a link and accepted connections.                               *)
(***************************************************************************)
EXTENDS Network, FiniteSetTheorems, TLAPS

(* A peer that was not discovered has no goroutine; a life that has not    *)
(* begun has not failed; a dialer has an attempt left; and a watcher only  *)
(* stops with the node.                                                    *)
UnknownIsUntouched == \A p \in Peer \ peers : \A l \in Life : stage[p][l] = "none"
FreshLives == \A p \in Peer, l \in Life : stage[p][l] = "none" => failed[p][l] = 0
DialersMayDial == \A p \in Peer, l \in Life : stage[p][l] = "dial" => failed[p][l] < MaxRetries
OnlyStopStops == \A p \in Peer, l \in Life : stage[p][l] = "stopping" => ~Running

LinksInv ==
    /\ LinksTypeOK
    /\ UnknownIsUntouched /\ FreshLives /\ DialersMayDial /\ OnlyStopStops
    /\ OneCaretaker /\ StoredIsWatched /\ NoneLeaks /\ CaredForOrGivenUp

USE DEF Life, None, Caring, Stage, Running

LEMMA LinksInitially == LinksInit => LinksInv
BY LinksAssumption
   DEF LinksInit, LinksInv, LinksTypeOK, UnknownIsUntouched, FreshLives, DialersMayDial,
       OnlyStopStops, OneCaretaker, StoredIsWatched, NoneLeaks, CaredForOrGivenUp

------------------------------------------------------------------------------
(* A step that touches one peer has to look after this peer only.          *)
LEMMA CareIsPerPeer ==
  ASSUME CaredForOrGivenUp, NEW p \in Peer, UNCHANGED stop,
         peers \subseteq Peer, peers' \subseteq peers \cup {p},
         \A q \in Peer \ {p} : stage'[q] = stage[q] /\ failed'[q] = failed[q],
         Running /\ p \in peers' => CaredFor(p)'
  PROVE  CaredForOrGivenUp'
<1>. SUFFICES ASSUME Running', NEW q \in peers' PROVE CaredFor(q)'
  BY DEF CaredForOrGivenUp, CaredFor
<1>1. CASE q = p
  BY <1>1
<1>2. CASE q # p
  BY <1>2 DEF CaredForOrGivenUp, CaredFor
<1>. QED  BY <1>1, <1>2

LEMMA DiscoverKeeps ==
  ASSUME LinksInv, NEW p \in Peer, Discover(p)
  PROVE  LinksInv'
<1>. USE LinksAssumption DEF LinksInv, Discover, IsNewPeer, Enter, Unborn
<1>1. LinksTypeOK'
  BY DEF LinksTypeOK, DialersMayDial
<1>2. UnknownIsUntouched' /\ FreshLives' /\ OnlyStopStops'
  BY DEF LinksTypeOK, UnknownIsUntouched, FreshLives, OnlyStopStops
<1>3. DialersMayDial'
  BY DEF LinksTypeOK, FreshLives, DialersMayDial
<1>4. OneCaretaker'
  BY DEF LinksTypeOK, UnknownIsUntouched, OneCaretaker
<1>5. StoredIsWatched' /\ NoneLeaks'
  BY DEF LinksTypeOK, OneCaretaker, StoredIsWatched, NoneLeaks
<1>6. CaredForOrGivenUp'
  <2>1. Running /\ p \in peers' => CaredFor(p)'
    BY DEF LinksTypeOK, CaredForOrGivenUp, CaredFor, OnlyStopStops
  <2>. QED  BY <2>1, CareIsPerPeer DEF LinksTypeOK
<1>. QED  BY <1>1, <1>2, <1>3, <1>4, <1>5, <1>6

LEMMA RetryKeeps ==
  ASSUME LinksInv, NEW p \in Peer, NEW l \in Life, DialFails(p, l), TriesAgain(failed[p][l])
  PROVE  LinksInv'
<1>. USE LinksAssumption DEF LinksInv, LinksTypeOK
<1>a. /\ stage[p][l] = "dial" /\ failed[p][l] \in Nat /\ failed[p][l] + 1 < MaxRetries
      /\ failed' = [failed EXCEPT ![p][l] = failed[p][l] + 1]
      /\ UNCHANGED <<stop, peers, conn, active, stage>>
  BY DEF DialFails, TriesAgain
<1>1. LinksTypeOK'
  BY <1>a DEF LinksTypeOK, DialersMayDial
<1>2. UnknownIsUntouched' /\ FreshLives' /\ OnlyStopStops'
  BY <1>a DEF LinksTypeOK, UnknownIsUntouched, FreshLives, OnlyStopStops
<1>3. DialersMayDial'
  BY <1>a DEF LinksTypeOK, FreshLives, DialersMayDial
<1>4. OneCaretaker'
  BY <1>a DEF LinksTypeOK, UnknownIsUntouched, OneCaretaker
<1>5. StoredIsWatched' /\ NoneLeaks'
  BY <1>a DEF LinksTypeOK, OneCaretaker, StoredIsWatched, NoneLeaks
<1>6. CaredForOrGivenUp'
  <2>1. Running /\ p \in peers' => CaredFor(p)'
    BY <1>a DEF LinksTypeOK, CaredForOrGivenUp, CaredFor, OnlyStopStops
  <2>. QED  BY <1>a, <2>1, CareIsPerPeer DEF LinksTypeOK
<1>. QED  BY <1>1, <1>2, <1>3, <1>4, <1>5, <1>6

LEMMA GiveUpKeeps ==
  ASSUME LinksInv, NEW p \in Peer, NEW l \in Life, DialFails(p, l), ~TriesAgain(failed[p][l])
  PROVE  LinksInv'
<1>. USE LinksAssumption DEF LinksInv, LinksTypeOK
<1>a. /\ stage[p][l] = "dial" /\ failed[p][l] \in Nat /\ failed[p][l] + 1 = MaxRetries
      /\ failed' = [failed EXCEPT ![p][l] = failed[p][l] + 1]
      /\ stage' = [stage EXCEPT ![p][l] = "over"]
      /\ UNCHANGED <<stop, peers, conn, active>>
  BY DEF DialFails, TriesAgain, DialersMayDial, Enter
<1>1. LinksTypeOK'
  BY <1>a DEF LinksTypeOK, DialersMayDial
<1>2. UnknownIsUntouched' /\ FreshLives' /\ OnlyStopStops'
  BY <1>a DEF LinksTypeOK, UnknownIsUntouched, FreshLives, OnlyStopStops
<1>3. DialersMayDial'
  BY <1>a DEF LinksTypeOK, FreshLives, DialersMayDial
<1>4. OneCaretaker'
  BY <1>a DEF LinksTypeOK, UnknownIsUntouched, OneCaretaker
<1>5. StoredIsWatched' /\ NoneLeaks'
  BY <1>a DEF LinksTypeOK, OneCaretaker, StoredIsWatched, NoneLeaks
<1>6. CaredForOrGivenUp'
  <2>1. Running /\ p \in peers' => CaredFor(p)'
    BY <1>a DEF LinksTypeOK, CaredForOrGivenUp, CaredFor, OnlyStopStops
  <2>. QED  BY <1>a, <2>1, CareIsPerPeer DEF LinksTypeOK
<1>. QED  BY <1>1, <1>2, <1>3, <1>4, <1>5, <1>6

LEMMA DialSucceedsKeeps ==
  ASSUME LinksInv, NEW p \in Peer, NEW l \in Life, DialSucceeds(p, l)
  PROVE  LinksInv'
<1>. USE LinksAssumption DEF LinksInv, DialSucceeds, Enter
<1>1. LinksTypeOK'
  BY DEF LinksTypeOK, DialersMayDial
<1>2. UnknownIsUntouched' /\ FreshLives' /\ OnlyStopStops'
  BY DEF LinksTypeOK, UnknownIsUntouched, FreshLives, OnlyStopStops
<1>3. DialersMayDial'
  BY DEF LinksTypeOK, FreshLives, DialersMayDial
<1>4. OneCaretaker'
  BY DEF LinksTypeOK, UnknownIsUntouched, OneCaretaker
<1>5. StoredIsWatched' /\ NoneLeaks'
  BY SMTT(30) DEF LinksTypeOK, OneCaretaker, StoredIsWatched, NoneLeaks
<1>6. CaredForOrGivenUp'
  <2>1. Running /\ p \in peers' => CaredFor(p)'
    BY DEF LinksTypeOK, CaredForOrGivenUp, CaredFor, OnlyStopStops
  <2>. QED  BY <2>1, CareIsPerPeer DEF LinksTypeOK
<1>. QED  BY <1>1, <1>2, <1>3, <1>4, <1>5, <1>6

LEMMA StoreKeeps ==
  ASSUME LinksInv, NEW p \in Peer, NEW l \in Life, Store(p, l)
  PROVE  LinksInv'
<1>. USE LinksAssumption DEF LinksInv, Store, Closed, Enter
<1>1. LinksTypeOK'
  BY DEF LinksTypeOK, DialersMayDial
<1>2. UnknownIsUntouched' /\ FreshLives' /\ OnlyStopStops'
  BY DEF LinksTypeOK, UnknownIsUntouched, FreshLives, OnlyStopStops
<1>3. DialersMayDial'
  BY DEF LinksTypeOK, FreshLives, DialersMayDial
<1>4. OneCaretaker'
  BY DEF LinksTypeOK, UnknownIsUntouched, OneCaretaker
<1>5. StoredIsWatched' /\ NoneLeaks'
  BY SMTT(30) DEF LinksTypeOK, OneCaretaker, StoredIsWatched, NoneLeaks
<1>6. CaredForOrGivenUp'
  <2>1. Running /\ p \in peers' => CaredFor(p)'
    BY DEF LinksTypeOK, CaredForOrGivenUp, CaredFor, OnlyStopStops
  <2>. QED  BY <2>1, CareIsPerPeer DEF LinksTypeOK
<1>. QED  BY <1>1, <1>2, <1>3, <1>4, <1>5, <1>6

LEMMA ReconnectKeeps ==
  ASSUME LinksInv, NEW p \in Peer, NEW l \in Life, Reconnect(p, l)
  PROVE  LinksInv'
<1>. USE LinksAssumption DEF LinksInv, Closed
<1>a. p \in peers
  BY DEF Reconnect, LinksTypeOK, UnknownIsUntouched
<1>b. PICK k \in Life : /\ stage[p][k] = "none" /\ stage[p][l] = "broken"
                        /\ stage' = [stage EXCEPT ![p] = [@ EXCEPT ![l] = "over", ![k] = "dial"]]
  BY <1>a DEF Reconnect, Redials, Unborn
<1>c. /\ conn' = IF active[p] = None THEN conn ELSE [conn EXCEPT ![p][active[p]] = "closed"]
      /\ active' = [active EXCEPT ![p] = None]
      /\ UNCHANGED <<stop, peers, failed>>
  BY DEF Reconnect, CloseActive
<1>1. LinksTypeOK'
  BY <1>a, <1>b, <1>c DEF LinksTypeOK, DialersMayDial
<1>2. UnknownIsUntouched' /\ FreshLives' /\ OnlyStopStops'
  BY <1>a, <1>b, <1>c DEF LinksTypeOK, UnknownIsUntouched, FreshLives, OnlyStopStops
<1>3. DialersMayDial'
  BY <1>a, <1>b, <1>c DEF LinksTypeOK, FreshLives, DialersMayDial
<1>4. OneCaretaker'
  BY <1>a, <1>b, <1>c, SMTT(30) DEF LinksTypeOK, UnknownIsUntouched, OneCaretaker
<1>5. StoredIsWatched' /\ NoneLeaks'
  BY <1>a, <1>b, <1>c, SMTT(30) DEF LinksTypeOK, OneCaretaker, StoredIsWatched, NoneLeaks
<1>6. CaredForOrGivenUp'
  <2>1. Running /\ p \in peers' => CaredFor(p)'
    BY <1>a, <1>b, <1>c DEF LinksTypeOK, CaredForOrGivenUp, CaredFor, OnlyStopStops
  <2>. QED  BY <1>a, <1>b, <1>c, <2>1, CareIsPerPeer DEF LinksTypeOK
<1>. QED  BY <1>1, <1>2, <1>3, <1>4, <1>5, <1>6

LEMMA CheckFailsKeeps ==
  ASSUME LinksInv, NEW p \in Peer, NEW l \in Life, CheckFails(p, l)
  PROVE  LinksInv'
<1>. USE LinksAssumption DEF LinksInv, CheckFails, ReadFails, Enter
<1>1. LinksTypeOK'
  BY DEF LinksTypeOK, DialersMayDial
<1>2. UnknownIsUntouched' /\ FreshLives' /\ OnlyStopStops'
  BY DEF LinksTypeOK, UnknownIsUntouched, FreshLives, OnlyStopStops
<1>3. DialersMayDial'
  BY DEF LinksTypeOK, FreshLives, DialersMayDial
<1>4. OneCaretaker'
  BY DEF LinksTypeOK, UnknownIsUntouched, OneCaretaker
<1>5. StoredIsWatched' /\ NoneLeaks'
  BY SMTT(30) DEF LinksTypeOK, OneCaretaker, StoredIsWatched, NoneLeaks
<1>6. CaredForOrGivenUp'
  <2>1. Running /\ p \in peers' => CaredFor(p)'
    BY DEF LinksTypeOK, CaredForOrGivenUp, CaredFor, OnlyStopStops
  <2>. QED  BY <2>1, CareIsPerPeer DEF LinksTypeOK
<1>. QED  BY <1>1, <1>2, <1>3, <1>4, <1>5, <1>6

LEMMA NoticeStopKeeps ==
  ASSUME LinksInv, NEW p \in Peer, NEW l \in Life, NoticeStop(p, l)
  PROVE  LinksInv'
<1>. USE LinksAssumption DEF LinksInv, NoticeStop, Enter
<1>1. LinksTypeOK'
  BY DEF LinksTypeOK, DialersMayDial
<1>2. UnknownIsUntouched' /\ FreshLives' /\ OnlyStopStops'
  BY DEF LinksTypeOK, UnknownIsUntouched, FreshLives, OnlyStopStops
<1>3. DialersMayDial'
  BY DEF LinksTypeOK, FreshLives, DialersMayDial
<1>4. OneCaretaker'
  BY DEF LinksTypeOK, UnknownIsUntouched, OneCaretaker
<1>5. StoredIsWatched' /\ NoneLeaks'
  BY SMTT(30) DEF LinksTypeOK, OneCaretaker, StoredIsWatched, NoneLeaks
<1>6. CaredForOrGivenUp'
  <2>1. Running /\ p \in peers' => CaredFor(p)'
    BY DEF LinksTypeOK, CaredForOrGivenUp, CaredFor, OnlyStopStops
  <2>. QED  BY <2>1, CareIsPerPeer DEF LinksTypeOK
<1>. QED  BY <1>1, <1>2, <1>3, <1>4, <1>5, <1>6

LEMMA BreakKeeps ==
  ASSUME LinksInv, NEW p \in Peer, NEW l \in Life, Break(p, l)
  PROVE  LinksInv'
<1>. USE LinksAssumption DEF LinksInv, Break
<1>1. LinksTypeOK'
  BY DEF LinksTypeOK, DialersMayDial
<1>2. UnknownIsUntouched' /\ FreshLives' /\ OnlyStopStops'
  BY DEF LinksTypeOK, UnknownIsUntouched, FreshLives, OnlyStopStops
<1>3. DialersMayDial'
  BY DEF LinksTypeOK, FreshLives, DialersMayDial
<1>4. OneCaretaker'
  BY DEF LinksTypeOK, UnknownIsUntouched, OneCaretaker
<1>5. StoredIsWatched' /\ NoneLeaks'
  BY SMTT(30) DEF LinksTypeOK, OneCaretaker, StoredIsWatched, NoneLeaks
<1>6. CaredForOrGivenUp'
  <2>1. Running /\ p \in peers' => CaredFor(p)'
    BY DEF LinksTypeOK, CaredForOrGivenUp, CaredFor, OnlyStopStops
  <2>. QED  BY <2>1, CareIsPerPeer DEF LinksTypeOK
<1>. QED  BY <1>1, <1>2, <1>3, <1>4, <1>5, <1>6

LEMMA CloseOnStopKeeps ==
  ASSUME LinksInv, NEW p \in Peer, NEW l \in Life, CloseOnStop(p, l)
  PROVE  LinksInv'
<1>. USE LinksAssumption DEF LinksInv, CloseOnStop, OnStop, CloseActive, Closed, Enter
<1>1. LinksTypeOK'
  BY DEF LinksTypeOK, DialersMayDial
<1>2. UnknownIsUntouched' /\ FreshLives' /\ OnlyStopStops'
  BY DEF LinksTypeOK, UnknownIsUntouched, FreshLives, OnlyStopStops
<1>3. DialersMayDial'
  BY DEF LinksTypeOK, FreshLives, DialersMayDial
<1>4. OneCaretaker'
  BY DEF LinksTypeOK, UnknownIsUntouched, OneCaretaker
<1>5. StoredIsWatched' /\ NoneLeaks'
  BY SMTT(30) DEF LinksTypeOK, OneCaretaker, StoredIsWatched, NoneLeaks
<1>6. CaredForOrGivenUp'
  <2>1. Running /\ p \in peers' => CaredFor(p)'
    BY DEF LinksTypeOK, CaredForOrGivenUp, CaredFor, OnlyStopStops
  <2>. QED  BY <2>1, CareIsPerPeer DEF LinksTypeOK
<1>. QED  BY <1>1, <1>2, <1>3, <1>4, <1>5, <1>6

LEMMA SignalKeeps == LinksInv /\ Signal => LinksInv'
<1>. SUFFICES ASSUME LinksInv, Signal PROVE LinksInv'
  OBVIOUS
<1>. USE DEF LinksInv, Signal, linkVars
<1>1. LinksTypeOK' /\ UnknownIsUntouched' /\ FreshLives' /\ DialersMayDial' /\ OnlyStopStops'
  BY DEF LinksTypeOK, UnknownIsUntouched, FreshLives, DialersMayDial, OnlyStopStops
<1>2. OneCaretaker' /\ StoredIsWatched' /\ NoneLeaks' /\ CaredForOrGivenUp'
  BY DEF OneCaretaker, StoredIsWatched, NoneLeaks, CaredForOrGivenUp, CaredFor
<1>. QED  BY <1>1, <1>2

LEMMA UnlinkKeeps == LinksInv /\ Unlink => LinksInv'
<1>. SUFFICES ASSUME LinksInv, Unlink PROVE LinksInv'
  OBVIOUS
<1>. USE DEF LinksInv
<1>1. /\ stop' = "unlinked"
      /\ active' = [p \in Peer |-> None]
      /\ UNCHANGED <<peers, stage, failed>>
  BY DEF Unlink
<1>2. \A p \in Peer : conn'[p] = IF active[p] = None THEN conn[p]
                                 ELSE [conn[p] EXCEPT ![active[p]] = "closed"]
  BY DEF Unlink, Closed, LinksTypeOK
<1>3. conn' = [p \in Peer |-> conn'[p]]
  BY DEF Unlink
<1>4. LinksTypeOK'
  <2>1. ASSUME NEW p \in Peer
        PROVE  conn'[p] \in [Life -> {"none", "open", "broken", "closed"}]
    <3>1. conn[p] \in [Life -> {"none", "open", "broken", "closed"}]
      BY DEF LinksTypeOK
    <3>2. CASE active[p] = None
      BY <3>1, <3>2, <1>2
    <3>3. CASE active[p] # None
      <4>1. conn'[p] = [conn[p] EXCEPT ![active[p]] = "closed"]
        BY <3>3, <1>2
      <4>. QED  BY <4>1, <3>1
    <3>. QED  BY <3>2, <3>3
  <2>. QED  BY <2>1, <1>1, <1>3 DEF LinksTypeOK
<1>5. UnknownIsUntouched' /\ FreshLives' /\ DialersMayDial' /\ OnlyStopStops'
  BY <1>1 DEF UnknownIsUntouched, FreshLives, DialersMayDial, OnlyStopStops
<1>6. OneCaretaker' /\ StoredIsWatched' /\ CaredForOrGivenUp'
  BY <1>1 DEF OneCaretaker, StoredIsWatched, CaredForOrGivenUp, CaredFor
<1>7. NoneLeaks'
  <2>. SUFFICES ASSUME NEW p \in Peer, NEW l \in Life, conn'[p][l] \in {"open", "broken"}
                PROVE  stage[p][l] = "connected"
    BY <1>1 DEF NoneLeaks
  <2>1. conn[p] \in [Life -> {"none", "open", "broken", "closed"}]
    BY DEF LinksTypeOK
  <2>2. CASE active[p] = None
    <3>1. conn'[p] = conn[p]
      BY <2>2, <1>2
    <3>2. active[p] # l
      BY <2>2, LinksAssumption
    <3>. QED  BY <3>1, <3>2 DEF NoneLeaks
  <2>3. CASE active[p] # None
    <3>1. conn'[p] = [conn[p] EXCEPT ![active[p]] = "closed"]
      BY <2>3, <1>2
    <3>2. active[p] # l /\ conn'[p][l] = conn[p][l]
      BY <2>1, <3>1
    <3>. QED  BY <3>2 DEF NoneLeaks
  <2>. QED  BY <2>2, <2>3
<1>. QED  BY <1>4, <1>5, <1>6, <1>7

(* A step of the acceptor, of a broadcast or of the rest of Stop.          *)
LEMMA OthersKeep ==
  ASSUME LinksInv, UNCHANGED linkVars, stop' = stop \/ stop' \in {"swept", "stopped"}
  PROVE  LinksInv'
<1>. USE DEF LinksInv, linkVars
<1>1. LinksTypeOK' /\ UnknownIsUntouched' /\ FreshLives' /\ DialersMayDial' /\ OnlyStopStops'
  BY DEF LinksTypeOK, UnknownIsUntouched, FreshLives, DialersMayDial, OnlyStopStops
<1>2. OneCaretaker' /\ StoredIsWatched' /\ NoneLeaks' /\ CaredForOrGivenUp'
  BY DEF OneCaretaker, StoredIsWatched, NoneLeaks, CaredForOrGivenUp, CaredFor
<1>. QED  BY <1>1, <1>2

LEMMA LinkStepKeeps == LinksInv /\ LinkStep => LinksInv'
<1>. SUFFICES ASSUME LinksInv, LinkStep PROVE LinksInv'
  OBVIOUS
<1>1. ASSUME NEW p \in Peer, Discover(p) PROVE LinksInv'
  BY <1>1, DiscoverKeeps
<1>2. ASSUME NEW p \in Peer, NEW l \in Life, Lives(p, l) PROVE LinksInv'
  BY <1>2, RetryKeeps, GiveUpKeeps, DialSucceedsKeeps, StoreKeeps, CheckFailsKeeps,
     ReconnectKeeps, NoticeStopKeeps, CloseOnStopKeeps DEF Lives
<1>3. ASSUME NEW p \in Peer, NEW l \in Life, Break(p, l) PROVE LinksInv'
  BY <1>3, BreakKeeps
<1>4. CASE Signal
  BY <1>4, SignalKeeps
<1>5. CASE Unlink
  BY <1>5, UnlinkKeeps
<1>. QED  BY <1>1, <1>2, <1>3, <1>4, <1>5 DEF LinkStep

------------------------------------------------------------------------------
(* Until the sweep every open connection is in the list or in the          *)
(* acceptor's hands.  From then on the acceptor gets one more at most: it  *)
(* may have looked at isRunning before, but not again after it.            *)
Open == {c \in Inbound : inbound[c] = "open"}
OneLate ==
    /\ acceptor.at # "register" => acceptor.conn = {}
    /\ \A c, d \in acceptor.conn : c = d
    /\ stop \in {"running", "signalled"} => Open \subseteq listed \cup acceptor.conn
    /\ stop \notin {"running", "signalled"} =>
         /\ \A c, d \in Open : c = d
         /\ acceptor.at = "accept" => Open = {}

NetworkInv == TypeOK /\ LinksInv /\ OneLate

SenderStage == {"none", "look", "write", "ended", "waited"}
SenderType == [at : SenderStage, life : Life \cup {None}, limited : BOOLEAN]

LEMMA TypeStep == TypeOK /\ LinksInv' /\ Next => TypeOK'
<1>. SUFFICES ASSUME TypeOK, LinksTypeOK', Next PROVE TypeOK'
  BY DEF LinksInv
<1>. USE DEF TypeOK
<1>1. CASE LinkStep
  BY <1>1 DEF LinkStep, inVars, weatherVars
<1>2. CASE AcceptStep
  <2>. USE DEF weatherVars, linkVars, NoConn
  <2>1. CASE CheckRunning \/ AcceptNothing \/ Register
    BY <2>1 DEF CheckRunning, AcceptNothing, Register
  <2>2. CASE SweepAccepted \/ CloseListener
    BY <2>2 DEF SweepAccepted, CloseListener, inVars
  <2>3. ASSUME NEW c \in Inbound, Accept(c) \/ HandlerEnds(c) PROVE TypeOK'
    BY <2>3 DEF Accept, HandlerEnds
  <2>. QED  BY <1>2, <2>1, <2>2, <2>3 DEF AcceptStep
<1>3. CASE WeatherStep
  <2>. USE DEF inVars, linkVars
  <2>1. ASSUME NEW p \in Peer, NEW s \in SenderType, Sends(p, s) PROVE TypeOK'
    BY <2>1 DEF Sends, SenderType, SenderStage
  <2>2. \A at \in SenderStage : Sender(at) \in SenderType
    BY DEF Sender, SenderType, SenderStage
  <2>3. CASE Expire
    BY <2>3 DEF Expire
  <2>4. CASE Begin \/ Return
    <3>1. sender' \in [Peer -> SenderType]
      BY <2>4, <2>2 DEF Begin, Return, SenderStage
    <3>. QED  BY <2>4, <3>1 DEF Begin, Return, SenderType, SenderStage
  <2>5. ASSUME NEW p \in Peer, Look(p) PROVE TypeOK'
    <3>1. Writing(active[p]) \in SenderType
      BY DEF Writing, SenderType, SenderStage, LinksTypeOK
    <3>. QED  BY <2>5, <2>1, <2>2, <3>1 DEF Look, SenderStage
  <2>6. ASSUME NEW p \in Peer, WriteSucceeds(p) \/ WriteFails(p) \/ Report(p) PROVE TypeOK'
    BY <2>6, <2>1, <2>2 DEF WriteSucceeds, WriteFails, Report, SenderStage
  <2>7. ASSUME NEW p \in Peer, NEW l \in Life, CheckPasses(p, l) PROVE TypeOK'
    <3>1. [sender[p] EXCEPT !.limited = FALSE] \in SenderType
      BY DEF SenderType, SenderStage
    <3>. QED  BY <2>7, <2>1, <3>1 DEF CheckPasses
  <2>. QED  BY <1>3, <2>3, <2>4, <2>5, <2>6, <2>7 DEF WeatherStep
<1>. QED  BY <1>1, <1>2, <1>3 DEF Next

LEMMA LateStep == TypeOK /\ OneLate /\ Next => OneLate'
<1>. SUFFICES ASSUME TypeOK, OneLate, Next PROVE OneLate'
  OBVIOUS
<1>. USE DEF OneLate, Open, TypeOK
<1>1. CASE LinkStep
  <2>1. UNCHANGED inVars /\ (stop' = stop \/ Signal \/ Unlink)
    BY <1>1 DEF LinkStep, Discover, Lives, DialFails, DialSucceeds, Store, CheckFails,
                Reconnect, NoticeStop, CloseOnStop, Break
  <2>. QED  BY <2>1 DEF Signal, Unlink, inVars
<1>2. CASE AcceptStep
  <2>. USE DEF NoConn
  <2>1. CASE CheckRunning
    BY <2>1 DEF CheckRunning, LoopsOn
  <2>2. CASE AcceptNothing
    BY <2>2 DEF AcceptNothing
  <2>3. CASE Register
    BY <2>3 DEF Register
  <2>4. CASE SweepAccepted
    BY <2>4 DEF SweepAccepted
  <2>5. CASE CloseListener
    BY <2>5 DEF CloseListener, inVars
  <2>6. ASSUME NEW c \in Inbound, Accept(c) PROVE OneLate'
    BY <2>6 DEF Accept
  <2>7. ASSUME NEW c \in Inbound, HandlerEnds(c) PROVE OneLate'
    BY <2>7 DEF HandlerEnds
  <2>. QED  BY <1>2, <2>1, <2>2, <2>3, <2>4, <2>5, <2>6, <2>7 DEF AcceptStep
<1>3. CASE WeatherStep
  <2>1. UNCHANGED <<stop, inVars>>
    BY <1>3 DEF WeatherStep, Begin, Expire, Return, Look, WriteSucceeds, WriteFails, Report,
                CheckPasses, Sends
  <2>. QED  BY <2>1 DEF inVars
<1>. QED  BY <1>1, <1>2, <1>3 DEF Next

(* No step of the acceptor, of a broadcast or of Stop breaks it.           *)
THEOREM NetworkInductive == Spec => []NetworkInv
<1>1. Init => NetworkInv
  <2>. SUFFICES ASSUME Init PROVE NetworkInv
    OBVIOUS
  <2>1. LinksInv /\ stop = "running"
    BY LinksInitially DEF Init, LinksInit
  <2>2. TypeOK
    BY <2>1 DEF Init, TypeOK, LinksInv, NoConn, Sender
  <2>3. OneLate
    BY <2>1 DEF Init, OneLate, Open, NoConn
  <2>. QED  BY <2>1, <2>2, <2>3 DEF NetworkInv
<1>2. NetworkInv /\ [Next]_vars => NetworkInv'
  <2>. SUFFICES ASSUME NetworkInv, [Next]_vars PROVE NetworkInv'
    OBVIOUS
  <2>1. CASE Next
    <3>1. LinksInv'
      <4>1. CASE LinkStep
        BY <4>1, LinkStepKeeps DEF NetworkInv
      <4>2. CASE AcceptStep
        BY <4>2, OthersKeep
           DEF NetworkInv, AcceptStep, CheckRunning, AcceptNothing, Register, SweepAccepted,
               CloseListener, Accept, HandlerEnds
      <4>3. CASE WeatherStep
        BY <4>3, OthersKeep
           DEF NetworkInv, WeatherStep, Begin, Expire, Return, Look, WriteSucceeds,
               WriteFails, Report, CheckPasses, Sends
      <4>. QED  BY <2>1, <4>1, <4>2, <4>3 DEF Next
    <3>. QED  BY <2>1, <3>1, TypeStep, LateStep DEF NetworkInv
  <2>2. CASE UNCHANGED vars
    <3>1. LinksInv'
      BY <2>2, OthersKeep DEF NetworkInv, vars
    <3>. QED  BY <2>2, <3>1
              DEF NetworkInv, vars, inVars, weatherVars, TypeOK, LinksInv, OneLate, Open
  <2>. QED  BY <2>1, <2>2
<1>. QED  BY <1>1, <1>2, PTL DEF Spec

(* Types: in particular no dialer makes more attempts than maxRetries.     *)
THEOREM NetworkTypeCorrect == Spec => []TypeOK
BY NetworkInductive, PTL DEF NetworkInv

(* Never two goroutines for one link, with discovery, breaks and a Stop in *)
(* any order.                                                              *)
THEOREM AlwaysOneCaretaker == Spec => []OneCaretaker
BY NetworkInductive, PTL DEF NetworkInv, LinksInv

(* Every stored connection is watched by its own goroutine, so that        *)
(* closing by the name of the peer never closes somebody else's.           *)
THEOREM AlwaysStoredIsWatched == Spec => []StoredIsWatched
BY NetworkInductive, PTL DEF NetworkInv, LinksInv

(* No connection is forgotten open, also when Stop replaces the map.       *)
THEOREM NeverLeaks == Spec => []NoneLeaks
BY NetworkInductive, PTL DEF NetworkInv, LinksInv

(* A discovered peer is cared for until a dialer fails every attempt.      *)
THEOREM AlwaysCaredFor == Spec => []CaredForOrGivenUp
BY NetworkInductive, PTL DEF NetworkInv, LinksInv

(* Stop leaves at most one accepted connection open.                       *)
THEOREM OneLateConnection == Spec => []AtMostOneLate
<1>1. NetworkInv => AtMostOneLate
  <2>. SUFFICES ASSUME NetworkInv, stop \notin {"running", "signalled"}
                PROVE  Cardinality(Open) <= 1
    BY DEF AtMostOneLate, Open
  <2>1. CASE Open = {}
    BY <2>1, FS_EmptySet
  <2>2. CASE Open # {}
    <3>1. PICK c \in Open : Open = {c}
      BY <2>2 DEF NetworkInv, OneLate
    <3>. QED  BY <3>1, FS_Singleton
  <2>. QED  BY <2>1, <2>2
<1>. QED  BY <1>1, NetworkInductive, PTL
==============================================================================
