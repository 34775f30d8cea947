------------------------- MODULE MasterOverrideProofs -------------------------
(***************************************************************************)
(* The safety of a master override for any number of peers and any size of *)
(* the response channel.                                                   *)
(***************************************************************************)
EXTENDS MasterOverride, FiniteSetTheorems, TLAPS

BridgeTyped ==
    \/ bridge = [pc |-> "idle"]
    \/ \E a \in Ack, pc \in {"lookup", "send"} : bridge = [pc |-> pc, ack |-> a]

(* The bridge sends under the mutex, and only what it found in             *)
(* pendingOverrides; the sender closes the channel after it left the map.  *)
Lifetimes ==
    /\ bridge.pc = "send" <=> mutex = "bridge"
    /\ mutex # "sender"
    /\ bridge.pc = "send" => open
    /\ sender.pc \in {"close", "done"} => ~open
    /\ closed => sender.pc = "done"

(* Wherever an answer is on its way, a success comes from a peer that      *)
(* followed the master.                                                    *)
Evidence ==
    /\ onChain \subseteq followed
    /\ \A a \in Ack : a.success /\ acks[a] > 0 => a.from \in followed
    /\ bridge.pc # "idle" /\ bridge.ack.success => bridge.ack.from \in followed
    /\ \A i \in 1..Len(chan) : chan[i].success => chan[i].from \in followed
    /\ counted \subseteq followed
    /\ sender.successes > 0 => counted # {}
    /\ sender.verdict \in {"all", "majority"} => counted # {}

(* Nobody answers a command that was sent to nobody.                       *)
Silent ==
    /\ queued = 0
    /\ \A p \in Peer : copies[p] = 0 /\ workers[p] = 0
    /\ \A a \in Ack : acks[a] = 0
    /\ bridge = [pc |-> "idle"]
    /\ chan = << >>
Quiet ==
    \/ sender.pc \in {"register", "broadcast"}
    \/ sender.pc = "count" /\ known = {}
    \/ sender.pc = "wait" /\ sender.expected = 0
    => Silent

(* A queued command becomes one copy for a peer at most, and a copy one    *)
(* goroutine or one answer.                                                *)
Ok(p) == [from |-> p, success |-> TRUE]
Refused(p) == [from |-> p, success |-> FALSE]
Budget ==
    \A p \in Peer :
        queued + copies[p] + workers[p] + acks[Ok(p)] + acks[Refused(p)] <= Cardinality(Peer)

OverrideInv ==
    /\ TypeOK
    /\ BridgeTyped
    /\ Lifetimes
    /\ Evidence
    /\ Quiet
    /\ Budget

------------------------------------------------------------------------------
(* The number of known peers is a number, at most that of all peers, and   *)
(* zero only if none is known.                                             *)
LEMMA Counting ==
  ASSUME known \subseteq Peer
  PROVE  /\ Cardinality(Peer) \in Nat
         /\ Cardinality(known) \in 0..Cardinality(Peer)
         /\ Cardinality(known) = 0 <=> known = {}
<1>1. IsFiniteSet(Peer)
  BY OverrideAssumption
<1>2. IsFiniteSet(known) /\ Cardinality(known) <= Cardinality(Peer)
  BY <1>1, FS_Subset
<1>3. Cardinality(Peer) \in Nat /\ Cardinality(known) \in Nat
  BY <1>1, <1>2, FS_CardinalityType
<1>4. Cardinality(known) = 0 <=> known = {}
  BY <1>2, FS_EmptySet
<1> QED
  BY <1>2, <1>3, <1>4

(* An answer of p is one of two, and no answer of another peer.            *)
LEMMA AnswersOf ==
  /\ \A p \in Peer : Ok(p) \in Ack /\ Refused(p) \in Ack /\ Ok(p) # Refused(p)
  /\ \A p, q \in Peer : p # q => /\ Ok(p) # Ok(q) /\ Refused(p) # Refused(q)
                                 /\ Ok(p) # Refused(q)
  /\ \A a \in Ack : a.from \in Peer /\ (a = Ok(a.from) \/ a = Refused(a.from))
BY DEF Ack, Ok, Refused

(* Counts that keep the budget are within it one by one.                   *)
LEMMA WithinBudget ==
  ASSUME NEW C \in [Peer -> Nat], NEW W \in [Peer -> Nat], NEW A \in [Ack -> Nat],
         \A p \in Peer : C[p] + W[p] + A[Ok(p)] + A[Refused(p)] <= Cardinality(Peer)
  PROVE  /\ C \in [Peer -> 0..Cardinality(Peer)]
         /\ W \in [Peer -> 0..Cardinality(Peer)]
         /\ A \in [Ack -> 0..Cardinality(Peer)]
<1>1. Cardinality(Peer) \in Nat
  BY OverrideAssumption, FS_CardinalityType
<1>2. \A p \in Peer : C[p] <= Cardinality(Peer) /\ W[p] <= Cardinality(Peer)
  BY <1>1, AnswersOf
<1>3. \A p \in Peer : A[Ok(p)] <= Cardinality(Peer) /\ A[Refused(p)] <= Cardinality(Peer)
  BY <1>1, AnswersOf
<1>4. \A a \in Ack : A[a] <= Cardinality(Peer)
  BY <1>3, AnswersOf
<1> QED
  BY <1>1, <1>2, <1>4

(* Answer adds one answer of p.                                            *)
LEMMA AnswerAdds ==
  ASSUME acks \in [Ack -> Nat], NEW p \in Peer, NEW ok \in BOOLEAN, Answer(p, ok)
  PROVE  /\ acks' \in [Ack -> Nat]
         /\ acks'[Ok(p)] + acks'[Refused(p)] = acks[Ok(p)] + acks[Refused(p)] + 1
         /\ \A q \in Peer \ {p} : acks'[Ok(q)] = acks[Ok(q)] /\ acks'[Refused(q)] = acks[Refused(q)]
         /\ \A a \in Ack : a # [from |-> p, success |-> ok] => acks'[a] = acks[a]
<1>1. [from |-> p, success |-> ok] \in Ack
  BY DEF Ack
<1>2. CASE ok
  <2>1. [from |-> p, success |-> ok] = Ok(p)
    BY <1>2 DEF Ok
  <2> QED
    BY <1>1, <2>1, AnswersOf DEF Answer
<1>3. CASE ~ok
  <2>1. [from |-> p, success |-> ok] = Refused(p)
    BY <1>3 DEF Refused
  <2> QED
    BY <1>1, <2>1, AnswersOf DEF Answer
<1> QED
  BY <1>2, <1>3

(* A copy or a goroutine of p that is used up leaves room for its answer.  *)
LEMMA Spends ==
  ASSUME TypeOK, Budget, NEW p \in Peer, NEW ok \in BOOLEAN, Answer(p, ok),
         \/ copies[p] > 0 /\ copies' = [copies EXCEPT ![p] = @ - 1] /\ workers' = workers
         \/ workers[p] > 0 /\ workers' = [workers EXCEPT ![p] = @ - 1] /\ copies' = copies,
         queued' = queued
  PROVE  /\ Budget'
         /\ copies' \in [Peer -> 0..Cardinality(Peer)]
         /\ workers' \in [Peer -> 0..Cardinality(Peer)]
         /\ acks' \in [Ack -> 0..Cardinality(Peer)]
<1>1. /\ Cardinality(Peer) \in Nat
      /\ copies \in [Peer -> Nat] /\ workers \in [Peer -> Nat] /\ acks \in [Ack -> Nat]
  BY Counting DEF TypeOK
<1>2. /\ acks' \in [Ack -> Nat]
      /\ acks'[Ok(p)] + acks'[Refused(p)] = acks[Ok(p)] + acks[Refused(p)] + 1
      /\ \A q \in Peer \ {p} : acks'[Ok(q)] = acks[Ok(q)] /\ acks'[Refused(q)] = acks[Refused(q)]
  BY <1>1, AnswerAdds
<1>3. /\ copies' \in [Peer -> Nat] /\ workers' \in [Peer -> Nat]
      /\ copies'[p] + workers'[p] + 1 = copies[p] + workers[p]
      /\ \A q \in Peer \ {p} : copies'[q] = copies[q] /\ workers'[q] = workers[q]
  BY <1>1
<1>4. ASSUME NEW q \in Peer
      PROVE  queued' + copies'[q] + workers'[q] + acks'[Ok(q)] + acks'[Refused(q)] <= Cardinality(Peer)
  <2>1. /\ queued + copies[q] + workers[q] + acks[Ok(q)] + acks[Refused(q)] <= Cardinality(Peer)
        /\ queued \in Nat /\ queued' = queued
    BY Counting DEF Budget, TypeOK
  <2>2. CASE q # p
    BY <2>1, <2>2, <1>2, <1>3
  <2>3. CASE q = p
    BY <2>1, <2>3, <1>1, <1>2, <1>3, AnswersOf
  <2> QED
    BY <2>2, <2>3
<1>5. Budget'
  BY <1>4 DEF Budget
<1>6. \A q \in Peer : copies'[q] + workers'[q] + acks'[Ok(q)] + acks'[Refused(q)] <= Cardinality(Peer)
  <2>1. queued' \in Nat
    BY DEF TypeOK
  <2>2. \A q \in Peer : /\ copies'[q] \in Nat /\ workers'[q] \in Nat
                        /\ acks'[Ok(q)] \in Nat /\ acks'[Refused(q)] \in Nat
    BY <1>2, <1>3, AnswersOf
  <2> QED
    BY <1>1, <1>4, <2>1, <2>2
<1> QED
  BY <1>2, <1>3, <1>5, <1>6, WithinBudget

(* Nothing is sent, waiting or counted at the start.                       *)
LEMMA InitHolds == Init => OverrideInv
<1> SUFFICES ASSUME Init PROVE OverrideInv
  OBVIOUS
<1>1. Cardinality(Peer) \in Nat
  BY OverrideAssumption, FS_CardinalityType
<1>2. TypeOK
  <2>1. 0 \in 0..Cardinality(Peer)
    BY <1>1
  <2>2. acks \in [Ack -> 0..Cardinality(Peer)] /\ workers \in [Peer -> 0..Cardinality(Peer)]
    BY <2>1 DEF Init
  <2>3. sender \in [pc : {"register", "broadcast", "count", "wait", "delete", "close", "done"},
                   expected : 0..Cardinality(Peer), successes : Nat,
                   verdict : {"none", "all", "majority", "failed"}]
    BY <2>1 DEF Init
  <2>4. chan \in Seq(Ack) /\ Len(chan) <= ChanSize
    BY OverrideAssumption DEF Init
  <2> QED
    BY <2>1, <2>2, <2>3, <2>4 DEF Init, TypeOK
<1>3. BridgeTyped /\ Lifetimes /\ Quiet
  BY DEF Init, BridgeTyped, Lifetimes, Quiet, Silent
<1>4. Evidence
  BY DEF Init, Evidence
<1>5. Budget
  BY <1>1, AnswersOf DEF Init, Budget
<1> QED
  BY <1>2, <1>3, <1>4, <1>5 DEF OverrideInv

(* The request enters pendingOverrides before anything is sent.            *)
LEMMA RegisterHolds ==
  ASSUME OverrideInv, Register
  PROVE  OverrideInv'
<1> USE DEF OverrideInv, Register, net, peers, shared
<1>1. TypeOK'
  BY DEF TypeOK
<1>2. BridgeTyped'
  BY DEF BridgeTyped
<1>3. Lifetimes'
  BY DEF Lifetimes
<1>4. Evidence'
  BY DEF Evidence
<1>5. Quiet'
  BY DEF Silent, Quiet
<1>6. Budget'
  BY DEF Budget
<1> QED
  BY <1>1, <1>2, <1>3, <1>4, <1>5, <1>6

(* One command is queued for each known peer.                              *)
LEMMA BroadcastHolds ==
  ASSUME OverrideInv, Broadcast
  PROVE  OverrideInv'
<1> USE DEF OverrideInv, Broadcast, net, peers, shared
<1>1. TypeOK'
  <2>1. queued' \in 0..Cardinality(Peer)
    BY Counting DEF TypeOK
  <2> QED
    BY <2>1 DEF TypeOK
<1>2. BridgeTyped'
  BY DEF BridgeTyped
<1>3. Lifetimes'
  BY DEF Lifetimes
<1>4. Evidence'
  BY DEF Evidence
<1>5. Quiet'
  BY Counting DEF TypeOK, Silent, Quiet
<1>6. Budget'
  <2>1. Silent
    BY DEF Quiet
  <2>2. queued' \in 0..Cardinality(Peer) /\ Cardinality(Peer) \in Nat
    BY Counting DEF TypeOK
  <2>3. \A p \in Peer : copies'[p] = 0 /\ workers'[p] = 0 /\ acks'[Ok(p)] = 0 /\ acks'[Refused(p)] = 0
    BY <2>1, AnswersOf DEF Silent
  <2> QED
    BY <2>2, <2>3 DEF Budget
<1> QED
  BY <1>1, <1>2, <1>3, <1>4, <1>5, <1>6

(* Zero answers are expected only if nobody is known.                      *)
LEMMA CountHolds ==
  ASSUME OverrideInv, Count
  PROVE  OverrideInv'
<1> USE DEF OverrideInv, Count, net, peers, shared
<1>1. TypeOK'
  BY Counting DEF TypeOK
<1>2. BridgeTyped'
  BY DEF BridgeTyped
<1>3. Lifetimes'
  BY DEF Lifetimes
<1>4. Evidence'
  BY DEF Evidence
<1>5. Quiet'
  BY Counting DEF TypeOK, Silent, Quiet
<1>6. Budget'
  BY DEF Budget
<1> QED
  BY <1>1, <1>2, <1>3, <1>4, <1>5, <1>6

(* Only a success counts its peer, and no verdict comes without one.       *)
LEMMA CollectHolds ==
  ASSUME OverrideInv, Collect
  PROVE  OverrideInv'
<1> USE DEF OverrideInv, Collect, net, peers, shared
<1> DEFINE n == sender.successes + (IF Head(chan).success THEN 1 ELSE 0)
<1>0. /\ Head(chan) \in Ack /\ Head(chan).from \in Peer /\ Head(chan).success \in BOOLEAN
      /\ Tail(chan) \in Seq(Ack) /\ Len(Tail(chan)) = Len(chan) - 1
      /\ n \in Nat
  <2>1. chan \in Seq(Ack) /\ chan # << >> /\ sender.successes \in Nat
    BY DEF TypeOK
  <2>2. Head(chan) \in Ack /\ Tail(chan) \in Seq(Ack) /\ Len(Tail(chan)) = Len(chan) - 1
    BY <2>1
  <2> QED
    BY <2>1, <2>2 DEF Ack
<1>1. TypeOK'
  <2>1. sender' = [sender EXCEPT !.pc = "delete", !.successes = n, !.verdict = "all"]
        \/ sender' = [sender EXCEPT !.successes = n]
    OBVIOUS
  <2>2. sender' \in [pc : {"register", "broadcast", "count", "wait", "delete", "close", "done"},
                     expected : 0..Cardinality(Peer), successes : Nat,
                     verdict : {"none", "all", "majority", "failed"}]
    BY <1>0, <2>1 DEF TypeOK
  <2>3. counted' \subseteq Peer
    BY <1>0 DEF TypeOK
  <2>4. chan' \in Seq(Ack) /\ Len(chan') <= ChanSize
    BY <1>0, OverrideAssumption DEF TypeOK
  <2> QED
    BY <2>2, <2>3, <2>4 DEF TypeOK
<1>2. BridgeTyped'
  BY DEF BridgeTyped
<1>3. Lifetimes'
  BY DEF Lifetimes
<1>4. Evidence'
  <2>1. Head(chan).success => Head(chan).from \in followed
    BY <1>0 DEF Evidence
  <2>2. \A i \in 1..Len(chan') : chan'[i] = chan[i + 1] /\ i + 1 \in 1..Len(chan)
    BY <1>0
  <2>3. \A i \in 1..Len(chan') : chan'[i].success => chan'[i].from \in followed
    BY <2>2 DEF Evidence
  <2>4. sender.expected # 0
    BY DEF Quiet, Silent
  <2>5. sender'.successes = n /\ (sender'.verdict = sender.verdict \/ n >= sender.expected)
    OBVIOUS
  <2>6. n > 0 => counted' # {}
    <3>1. sender.successes \in Nat
      BY DEF TypeOK
    <3>2. CASE Head(chan).success
      BY <3>2
    <3>3. CASE ~Head(chan).success
      BY <3>1, <3>3 DEF Evidence
    <3> QED
      BY <3>2, <3>3
  <2>7. sender'.verdict \in {"all", "majority"} => counted' # {}
    <3>1. sender.expected \in Nat /\ (n >= sender.expected => n > 0)
      BY <1>0, <2>4 DEF TypeOK
    <3>2. CASE sender'.verdict = sender.verdict
      BY <3>2 DEF Evidence
    <3>3. CASE n >= sender.expected
      BY <3>1, <3>3, <2>6
    <3> QED
      BY <2>5, <3>2, <3>3
  <2> QED
    BY <2>1, <2>3, <2>5, <2>6, <2>7 DEF Evidence
<1>5. Quiet'
  BY DEF TypeOK, Quiet
<1>6. Budget'
  BY DEF Budget
<1> QED
  BY <1>1, <1>2, <1>3, <1>4, <1>5, <1>6

(* The timer reports no success.                                           *)
LEMMA TimeoutHolds ==
  ASSUME OverrideInv, Timeout
  PROVE  OverrideInv'
<1> USE DEF OverrideInv, Timeout, net, peers, shared, MajorityResponded
<1>1. TypeOK'
  BY DEF TypeOK
<1>2. BridgeTyped'
  BY DEF BridgeTyped
<1>3. Lifetimes'
  BY DEF Lifetimes
<1>4. Evidence'
  BY DEF TypeOK, Evidence
<1>5. Quiet'
  BY DEF Quiet
<1>6. Budget'
  BY DEF Budget
<1> QED
  BY <1>1, <1>2, <1>3, <1>4, <1>5, <1>6

(* The entry leaves the map while the bridge is not sending.               *)
LEMMA DeleteHolds ==
  ASSUME OverrideInv, Delete
  PROVE  OverrideInv'
<1> USE DEF OverrideInv, Delete, net, peers, shared, MayDelete
<1>1. TypeOK'
  BY DEF TypeOK
<1>2. BridgeTyped'
  BY DEF BridgeTyped
<1>3. Lifetimes'
  BY DEF Lifetimes
<1>4. Evidence'
  BY DEF Evidence
<1>5. Quiet'
  BY DEF Quiet
<1>6. Budget'
  BY DEF Budget
<1> QED
  BY <1>1, <1>2, <1>3, <1>4, <1>5, <1>6

(* The channel is closed once the entry has left the map.                  *)
LEMMA CloseHolds ==
  ASSUME OverrideInv, Close
  PROVE  OverrideInv'
<1> USE DEF OverrideInv, Close, net, peers, shared
<1>1. TypeOK'
  BY DEF TypeOK
<1>2. BridgeTyped'
  BY DEF BridgeTyped
<1>3. Lifetimes'
  BY DEF Lifetimes
<1>4. Evidence'
  BY DEF Evidence
<1>5. Quiet'
  BY DEF Quiet
<1>6. Budget'
  BY DEF Budget
<1> QED
  BY <1>1, <1>2, <1>3, <1>4, <1>5, <1>6

(* The bridge takes an answer over with its evidence.                      *)
LEMMA BridgeReceiveHolds ==
  ASSUME OverrideInv, NEW a \in Ack, BridgeReceive(a)
  PROVE  OverrideInv'
<1> USE DEF OverrideInv, BridgeReceive, net, peers, shared
<1>1. TypeOK'
  BY Counting DEF TypeOK
<1>2. BridgeTyped'
  BY DEF BridgeTyped
<1>3. Lifetimes'
  BY DEF Lifetimes
<1>4. Evidence'
  BY DEF Evidence
<1>5. Quiet'
  BY DEF Silent, Quiet
<1>6. Budget'
  BY Counting, AnswersOf, SMTT(30) DEF TypeOK, Budget
<1> QED
  BY <1>1, <1>2, <1>3, <1>4, <1>5, <1>6

(* What the bridge finds in the map stays open while it has the mutex.     *)
LEMMA BridgeLookupHolds ==
  ASSUME OverrideInv, BridgeLookup
  PROVE  OverrideInv'
<1> USE DEF OverrideInv, BridgeLookup, net, peers, shared
<1>0. PICK a \in Ack : bridge = [pc |-> "lookup", ack |-> a]
  BY DEF BridgeTyped
<1>1. TypeOK'
  <2>1. bridge' = [pc |-> "send", ack |-> a] \/ bridge' = [pc |-> "idle"]
    BY <1>0
  <2> QED
    BY <2>1 DEF TypeOK
<1>2. BridgeTyped'
  BY <1>0 DEF BridgeTyped
<1>3. Lifetimes'
  BY DEF BridgeTyped, Lifetimes
<1>4. Evidence'
  <2>1. bridge'.pc # "idle" => bridge'.ack = bridge.ack
    BY <1>0
  <2> QED
    BY <1>0, <2>1 DEF Evidence
<1>5. Quiet'
  BY DEF Silent, Quiet
<1>6. Budget'
  BY DEF Budget
<1> QED
  BY <1>1, <1>2, <1>3, <1>4, <1>5, <1>6

(* The answer enters the channel, or is dropped when it is full.           *)
LEMMA BridgeSendHolds ==
  ASSUME OverrideInv, BridgeSend
  PROVE  OverrideInv'
<1> USE DEF OverrideInv, BridgeSend, net, peers, shared, MaySend, Buffered
<1>0. PICK a \in Ack : bridge = [pc |-> "send", ack |-> a]
  BY DEF BridgeTyped
<1>1. TypeOK'
  <2>1. chan' = chan \/ (Len(chan) < ChanSize /\ chan' = Append(chan, a))
    BY <1>0
  <2>2. chan' \in Seq(Ack) /\ Len(chan') <= ChanSize
    BY <2>1, OverrideAssumption DEF TypeOK
  <2> QED
    BY <2>2 DEF TypeOK
<1>2. BridgeTyped'
  BY DEF BridgeTyped
<1>3. Lifetimes'
  BY DEF Lifetimes
<1>4. Evidence'
  BY DEF Evidence
<1>5. Quiet'
  BY DEF Silent, Quiet
<1>6. Budget'
  BY DEF Budget
<1> QED
  BY <1>1, <1>2, <1>3, <1>4, <1>5, <1>6

(* A follower turns a copy into a goroutine or an answer.                  *)
LEMMA HandleHolds ==
  ASSUME OverrideInv, NEW p \in Peer, Handle(p)
  PROVE  OverrideInv'
<1> USE DEF OverrideInv, Handle, net, peers, shared
<1>1. /\ Budget'
      /\ copies' \in [Peer -> 0..Cardinality(Peer)]
      /\ workers' \in [Peer -> 0..Cardinality(Peer)]
      /\ acks' \in [Ack -> 0..Cardinality(Peer)]
  <2>1. ASSUME NEW ok \in BOOLEAN, Answer(p, ok), workers' = workers
        PROVE  /\ Budget'
               /\ copies' \in [Peer -> 0..Cardinality(Peer)]
               /\ workers' \in [Peer -> 0..Cardinality(Peer)]
               /\ acks' \in [Ack -> 0..Cardinality(Peer)]
    BY <2>1, Spends
  <2>2. CASE workers' = [workers EXCEPT ![p] = @ + 1] /\ acks' = acks
    <3>1. /\ copies \in [Peer -> Nat] /\ workers \in [Peer -> Nat] /\ acks \in [Ack -> Nat]
          /\ copies' \in [Peer -> Nat] /\ workers' \in [Peer -> Nat] /\ acks' \in [Ack -> Nat]
      BY <2>2 DEF TypeOK
    <3>2. \A q \in Peer : copies'[q] + workers'[q] = copies[q] + workers[q]
      BY <2>2, <3>1
    <3>3. ASSUME NEW q \in Peer
          PROVE  /\ queued' + copies'[q] + workers'[q] + acks'[Ok(q)] + acks'[Refused(q)]
                      <= Cardinality(Peer)
                 /\ copies'[q] + workers'[q] + acks'[Ok(q)] + acks'[Refused(q)]
                      <= Cardinality(Peer)
      <4>1. queued + copies[q] + workers[q] + acks[Ok(q)] + acks[Refused(q)] <= Cardinality(Peer)
        BY DEF Budget
      <4>2. /\ queued \in Nat /\ queued' = queued /\ Cardinality(Peer) \in Nat
            /\ acks'[Ok(q)] = acks[Ok(q)] /\ acks'[Refused(q)] = acks[Refused(q)]
            /\ acks[Ok(q)] \in Nat /\ acks[Refused(q)] \in Nat
        BY <2>2, <3>1, Counting, AnswersOf DEF TypeOK
      <4>3. /\ copies'[q] + workers'[q] = copies[q] + workers[q]
            /\ copies[q] \in Nat /\ workers[q] \in Nat
            /\ copies'[q] \in Nat /\ workers'[q] \in Nat
        BY <3>1, <3>2
      <4> HIDE DEF OverrideInv, Handle
      <4> QED
        BY <4>1, <4>2, <4>3
    <3>4. Budget'
      BY <3>3 DEF Budget
    <3> QED
      BY <3>1, <3>3, <3>4, WithinBudget, ZenonT(30)
  <2> QED
    BY <2>1, <2>2
<1>2. TypeOK'
  BY <1>1 DEF TypeOK
<1>3. BridgeTyped' /\ Lifetimes'
  BY DEF BridgeTyped, Lifetimes
<1>4. Evidence'
  <2>1. CASE Answer(p, TRUE) /\ p \in onChain
    BY <2>1 DEF Evidence, Answer
  <2>2. CASE Answer(p, FALSE)
    BY <2>2 DEF Evidence, Answer
  <2>3. CASE acks' = acks
    BY <2>3 DEF Evidence
  <2> QED
    BY <2>1, <2>2, <2>3
<1>5. Quiet'
  BY DEF Quiet, Silent
<1> QED
  BY <1>1, <1>2, <1>3, <1>4, <1>5

(* A goroutine that ends answers what it did.                              *)
LEMMA FollowHolds ==
  ASSUME OverrideInv, NEW p \in Peer, Follow(p)
  PROVE  OverrideInv'
<1> USE DEF OverrideInv, Follow, net, peers, shared
<1>1. /\ Budget'
      /\ copies' \in [Peer -> 0..Cardinality(Peer)]
      /\ workers' \in [Peer -> 0..Cardinality(Peer)]
      /\ acks' \in [Ack -> 0..Cardinality(Peer)]
  BY Spends
<1>2. TypeOK'
  BY <1>1 DEF TypeOK
<1>3. BridgeTyped' /\ Lifetimes'
  BY DEF BridgeTyped, Lifetimes
<1>4. Evidence'
  BY DEF Evidence, Answer
<1>5. Quiet'
  BY DEF Quiet, Silent
<1> QED
  BY <1>1, <1>2, <1>3, <1>4, <1>5

(* A goroutine that gives up answers a failure.                            *)
LEMMA GiveUpHolds ==
  ASSUME OverrideInv, NEW p \in Peer, GiveUp(p)
  PROVE  OverrideInv'
<1> USE DEF OverrideInv, GiveUp, net, peers, shared
<1>1. /\ Budget'
      /\ copies' \in [Peer -> 0..Cardinality(Peer)]
      /\ workers' \in [Peer -> 0..Cardinality(Peer)]
      /\ acks' \in [Ack -> 0..Cardinality(Peer)]
  BY Spends
<1>2. TypeOK'
  BY <1>1 DEF TypeOK
<1>3. BridgeTyped' /\ Lifetimes'
  BY DEF BridgeTyped, Lifetimes
<1>4. Evidence'
  BY DEF Evidence, Answer
<1>5. Quiet'
  BY DEF Quiet, Silent
<1> QED
  BY <1>1, <1>2, <1>3, <1>4, <1>5

(* The canonical block's arrival changes no evidence.                      *)
LEMMA LearnHolds ==
  ASSUME OverrideInv, NEW p \in Peer, Learn(p)
  PROVE  OverrideInv'
<1> USE DEF OverrideInv, Learn, net, peers, shared
<1>1. TypeOK'
  BY DEF TypeOK
<1>2. BridgeTyped'
  BY DEF BridgeTyped
<1>3. Lifetimes'
  BY DEF Lifetimes
<1>4. Evidence'
  BY DEF Evidence
<1>5. Quiet'
  BY DEF Silent, Quiet
<1>6. Budget'
  BY DEF Budget
<1> QED
  BY <1>1, <1>2, <1>3, <1>4, <1>5, <1>6

(* A peer that moves off the chain again has followed nonetheless.         *)
LEMMA LeaveHolds ==
  ASSUME OverrideInv, NEW p \in Peer, Leave(p)
  PROVE  OverrideInv'
<1> USE DEF OverrideInv, Leave, net, peers, shared
<1>1. TypeOK'
  BY DEF TypeOK
<1>2. BridgeTyped'
  BY DEF BridgeTyped
<1>3. Lifetimes'
  BY DEF Lifetimes
<1>4. Evidence'
  BY DEF Evidence
<1>5. Quiet'
  BY DEF Silent, Quiet
<1>6. Budget'
  BY DEF Budget
<1> QED
  BY <1>1, <1>2, <1>3, <1>4, <1>5, <1>6

(* A discovered peer makes known larger, never empty; counts are unaffected. *)
LEMMA DiscoverHolds ==
  ASSUME OverrideInv, NEW p \in Peer, Discover(p)
  PROVE  OverrideInv'
<1> USE DEF OverrideInv, Discover, net, peers, shared
<1>1. TypeOK'
  BY DEF TypeOK
<1>2. BridgeTyped'
  BY DEF BridgeTyped
<1>3. Lifetimes'
  BY DEF Lifetimes
<1>4. Evidence'
  BY DEF Evidence
<1>5. Quiet'
  BY DEF Silent, Quiet
<1>6. Budget'
  BY DEF Budget
<1> QED
  BY <1>1, <1>2, <1>3, <1>4, <1>5, <1>6

(* A command that leaves the channel becomes a copy for each peer known.   *)
LEMMA SendQueuedHolds ==
  ASSUME OverrideInv, SendQueued
  PROVE  OverrideInv'
<1> USE DEF OverrideInv, SendQueued, net, peers, shared
<1>1. /\ Cardinality(Peer) \in Nat /\ queued \in Nat /\ queued' = queued - 1
      /\ queued' \in 0..Cardinality(Peer)
      /\ copies \in [Peer -> Nat] /\ workers \in [Peer -> Nat] /\ acks \in [Ack -> Nat]
      /\ workers' = workers /\ acks' = acks
  BY Counting DEF TypeOK
<1>2. /\ copies' \in [Peer -> Nat]
      /\ \A q \in Peer : copies'[q] = copies[q] \/ copies'[q] = copies[q] + 1
  BY <1>1
<1>3. ASSUME NEW q \in Peer
      PROVE  /\ queued' + copies'[q] + workers[q] + acks[Ok(q)] + acks[Refused(q)]
                  <= Cardinality(Peer)
             /\ copies'[q] + workers[q] + acks[Ok(q)] + acks[Refused(q)] <= Cardinality(Peer)
  <2>1. queued + copies[q] + workers[q] + acks[Ok(q)] + acks[Refused(q)] <= Cardinality(Peer)
    BY DEF Budget
  <2>2. /\ copies[q] \in Nat /\ workers[q] \in Nat
        /\ acks[Ok(q)] \in Nat /\ acks[Refused(q)] \in Nat
        /\ copies'[q] = copies[q] \/ copies'[q] = copies[q] + 1
    BY <1>1, <1>2, AnswersOf
  <2>3. queued' \in Nat
    BY <1>1
  <2> HIDE DEF OverrideInv, SendQueued
  <2> QED
    BY <1>1, <2>1, <2>2, <2>3
<1>4. Budget'
  BY <1>1, <1>3 DEF Budget
<1>5. copies' \in [Peer -> 0..Cardinality(Peer)]
  BY <1>1, <1>2, <1>3, WithinBudget
<1>6. TypeOK'
  BY <1>1, <1>5 DEF TypeOK
<1>7. BridgeTyped' /\ Lifetimes'
  BY DEF BridgeTyped, Lifetimes
<1>8. Evidence'
  BY DEF Evidence
<1>9. Quiet'
  BY DEF Silent, Quiet
<1> QED
  BY <1>4, <1>6, <1>7, <1>8, <1>9

(* A lost copy leaves room.                                                *)
LEMMA LoseCommandHolds ==
  ASSUME OverrideInv, NEW p \in Peer, LoseCommand(p)
  PROVE  OverrideInv'
<1> USE DEF OverrideInv, LoseCommand, net, peers, shared
<1>1. TypeOK'
  <2>1. /\ Cardinality(Peer) \in Nat
        /\ copies \in [Peer -> 0..Cardinality(Peer)]
    BY Counting DEF TypeOK
  <2>2. copies' \in [Peer -> 0..Cardinality(Peer)]
    BY <2>1
  <2> QED
    BY <2>2 DEF TypeOK
<1>2. BridgeTyped'
  BY DEF BridgeTyped
<1>3. Lifetimes'
  BY DEF Lifetimes
<1>4. Evidence'
  BY DEF Evidence
<1>5. Quiet'
  BY DEF Silent, Quiet
<1>6. Budget'
  <2>1. \A q \in Peer : /\ copies[q] \in Nat /\ workers[q] \in Nat
                        /\ acks[Ok(q)] \in Nat /\ acks[Refused(q)] \in Nat
    BY AnswersOf DEF TypeOK
  <2>2. \A q \in Peer : copies'[q] \in Nat /\ copies'[q] <= copies[q]
    BY <2>1
  <2>3. ASSUME NEW q \in Peer
        PROVE  queued' + copies'[q] + workers'[q] + acks'[Ok(q)] + acks'[Refused(q)]
                 <= Cardinality(Peer)
    <3>1. queued + copies[q] + workers[q] + acks[Ok(q)] + acks[Refused(q)] <= Cardinality(Peer)
      BY DEF Budget
    <3>2. /\ Cardinality(Peer) \in Nat
          /\ queued \in Nat /\ queued' = queued
          /\ workers'[q] = workers[q] /\ acks'[Ok(q)] = acks[Ok(q)] /\ acks'[Refused(q)] = acks[Refused(q)]
      BY Counting DEF TypeOK
    <3> HIDE DEF OverrideInv, LoseCommand
    <3> QED
      BY <2>1, <2>2, <3>1, <3>2
  <2> QED
    BY <2>3 DEF Budget
<1> QED
  BY <1>1, <1>2, <1>3, <1>4, <1>5, <1>6

(* A lost answer leaves room.                                              *)
LEMMA LoseAckHolds ==
  ASSUME OverrideInv, NEW a \in Ack, LoseAck(a)
  PROVE  OverrideInv'
<1> USE DEF OverrideInv, LoseAck, net, peers, shared
<1>1. TypeOK'
  <2>1. /\ Cardinality(Peer) \in Nat
        /\ acks \in [Ack -> 0..Cardinality(Peer)]
    BY Counting DEF TypeOK
  <2>2. acks' \in [Ack -> 0..Cardinality(Peer)]
    BY <2>1
  <2> QED
    BY <2>2 DEF TypeOK
<1>2. BridgeTyped'
  BY DEF BridgeTyped
<1>3. Lifetimes'
  BY DEF Lifetimes
<1>4. Evidence'
  BY DEF Evidence
<1>5. Quiet'
  BY DEF Silent, Quiet
<1>6. Budget'
  BY Counting, AnswersOf, SMTT(30) DEF TypeOK, Budget
<1> QED
  BY <1>1, <1>2, <1>3, <1>4, <1>5, <1>6

------------------------------------------------------------------------------
(* Every step of the sender, the bridge, a follower or the network.        *)
LEMMA StepHolds == OverrideInv /\ [Next]_vars => OverrideInv'
<1> SUFFICES ASSUME OverrideInv, [Next]_vars PROVE OverrideInv'
  OBVIOUS
<1>1. CASE Send
  BY <1>1, RegisterHolds, BroadcastHolds, CountHolds, CollectHolds, TimeoutHolds,
     DeleteHolds, CloseHolds DEF Send
<1>2. CASE Bridge
  BY <1>2, BridgeReceiveHolds, BridgeLookupHolds, BridgeSendHolds DEF Bridge
<1>3. CASE Network
  BY <1>3, SendQueuedHolds, DiscoverHolds, LoseCommandHolds, LoseAckHolds DEF Network
<1>4. ASSUME NEW p \in Peer, Follower(p) PROVE OverrideInv'
  BY <1>4, HandleHolds, FollowHolds, GiveUpHolds, LearnHolds, LeaveHolds DEF Follower
<1>5. CASE UNCHANGED vars
  BY <1>5 DEF vars, OverrideInv, TypeOK, BridgeTyped, Lifetimes, Evidence, Quiet, Silent, Budget
<1> QED
  BY <1>1, <1>2, <1>3, <1>4, <1>5 DEF Next

(* OverrideInv holds in every reachable state.                             *)
THEOREM OverrideInductive == Spec => []OverrideInv
<1>1. Init => OverrideInv
  BY InitHolds
<1>2. OverrideInv /\ [Next]_vars => OverrideInv'
  BY StepHolds
<1> QED
  BY <1>1, <1>2, PTL DEF Spec

(* The types, with the bounds on copies, goroutines and answers per peer   *)
(* and on the response channel (sendMasterOverrideWithAck and followers).  *)
THEOREM OverrideTypeCorrect == Spec => []TypeOK
<1>1. OverrideInv => TypeOK
  BY DEF OverrideInv
<1> QED
  BY <1>1, OverrideInductive, PTL

(* processMasterOverrideAck never sends on the closed response channel.    *)
THEOREM NeverSendsOnClosed == Spec => []NoSendOnClosed
<1>1. OverrideInv => NoSendOnClosed
  BY DEF OverrideInv, Lifetimes, NoSendOnClosed
<1> QED
  BY <1>1, OverrideInductive, PTL

(* waitForOverrideAcknowledgments reports no success without a peer that   *)
(* followed the master.                                                    *)
THEOREM VerdictsHaveWitnesses == Spec => []VerdictHasWitness
<1>1. OverrideInv => VerdictHasWitness
  BY DEF OverrideInv, Evidence, VerdictHasWitness
<1> QED
  BY <1>1, OverrideInductive, PTL
==============================================================================
