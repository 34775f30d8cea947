-------------------------------- MODULE Slots --------------------------------
(***************************************************************************)
(* Who creates the block of a slot, and from which weather reports:        *)
(* the slot arithmetic of network/time_sync.go, the selection of           *)
(* network/validator_selection.go, monitorSlots, handleValidatorSlot and   *)
(* the weather map of consensus/consensus.go, on several nodes.            *)
(*                                                                         *)
(* Time is counted in ticks of SlotDuration / SlotLen.  Each node has its  *)
(* own clock (local clock plus timeOffset); a sleeping goroutine counts    *)
(* down what is left of its sleep, whatever NTP does to the clock meanwhile.*)
(* The participants are the discovered peers and the node itself: the      *)
(* assertion getDeterministicParticipantsForSlot makes on the blockchain   *)
(* asks for GetLatestBlock() interface{} and so never holds.               *)
(***************************************************************************)
EXTENDS Integers, Sequences, FiniteSets, SequencesExt

CONSTANTS
    Node,           \* node identifiers, ordered as the code sorts their strings
    Reporter,       \* the nodes whose weather service has data
    Hash,           \* Hash[s, P]: the number hashed from slot s and participants P
    SlotLen,        \* ticks in a slot
    MaxSlotHistory, \* maxSlotHistory, 3 in the code
    MaxSlot,        \* bound: the last slot
    MaxSkew,        \* bound: ticks two clocks may be apart
    MaxAdjust,      \* bound: adjustments of a clock by NTP
    OnTime          \* the work at the start of a slot ends within the slot

Slot == 1..MaxSlot

ASSUME SlotsAssumption ==
    /\ Node \subseteq Nat /\ IsFiniteSet(Node) /\ Node # {}
    /\ Reporter \subseteq Node
    /\ Hash \in [Slot \X SUBSET Node -> Nat]
    /\ SlotLen \in Nat \ {0, 1} /\ MaxSlotHistory \in Nat \ {0}
    /\ MaxSlot \in Nat \ {0} /\ MaxSkew \in Nat /\ MaxAdjust \in Nat
    /\ OnTime \in BOOLEAN

VARIABLES
    clock,     \* network time of each node, in ticks
    adjusted,  \* how often NTP has adjusted it
    peers,     \* the peers each node has discovered
    monitor,   \* where monitorSlots is, the slot it works on, its sleep
    lastSlot,  \* lastSlot of monitorSlots
    handlers,  \* the handleValidatorSlot goroutines
    weather,   \* currentSlotWeatherData: the validators heard of, by slot
    sent,      \* weather messages on their way; one may stay there for ever
    received,  \* history: the reports OnWeatherDataReceived was given
    created    \* history: the blocks created

vars == <<clock, adjusted, peers, monitor, lastSlot, handlers, weather, sent, received, created>>

Message == [to : Node, from : Node, slot : Slot]
Handler == [slot : Slot, left : Nat, view : SUBSET Node]

TypeOK ==
    /\ clock \in [Node -> SlotLen..((MaxSlot + 1) * SlotLen - 1)]
    /\ adjusted \in [Node -> 0..MaxAdjust]
    /\ peers \in [Node -> SUBSET Node]
    /\ monitor \in [Node -> [pc : {"sleep", "weather", "check"}, slot : 0..MaxSlot, left : 0..SlotLen]]
    /\ lastSlot \in [Node -> 0..MaxSlot]
    /\ handlers \in [Node -> SUBSET Handler]
    /\ weather \in [Node -> [Slot -> SUBSET Node]]
    /\ sent \subseteq Message
    /\ received \in [Node -> SUBSET (Slot \X Node)]
    /\ created \subseteq [by : Node, slot : Slot, view : SUBSET Node]

------------------------------------------------------------------------------
(* GetCurrentSlot, GetTimeToNextSlot and the wait for the slot's midpoint. *)
SlotAt(t) == t \div SlotLen
CurrentSlot(n) == SlotAt(clock[n])
TimeToNextSlot_FromLast(n) == (lastSlot[n] + 1) * SlotLen - clock[n]
TimeToNextSlot_Polling(n) == 0
TimeToNextSlot(n) == (CurrentSlot(n) + 1) * SlotLen - clock[n]
TimeToMidpoint(n, s) ==
    LET midpoint == s * SlotLen + SlotLen \div 2
    IN IF clock[n] < midpoint THEN midpoint - clock[n] ELSE 0

(* getDeterministicParticipantsForSlot and GetValidatorForSlot.            *)
View(n) == peers[n] \cup {n}
Participants_Unsorted(n) == <<n>> \o SetToSeq(peers[n])
Participants(n) == SetToSortSeq(View(n), <)
ValidatorForSlot(n, s) ==
    LET participants == Participants(n)
    IN participants[(Hash[s, View(n)] % Len(participants)) + 1]

(* OnWeatherDataReceived with cleanupOldWeatherDataUnsafe.                 *)
TooOld_OffByOne(s, now) == s <= now - (MaxSlotHistory - 1)
TooOld(s, now) == s < now - (MaxSlotHistory - 1)
Cleaned(data, now) ==
    IF Cardinality({s \in Slot : data[s] # {}}) <= MaxSlotHistory
    THEN data
    ELSE [s \in Slot |-> IF TooOld(s, now) THEN {} ELSE data[s]]
ReceiveWeather(n, s, v) ==
    /\ weather' = [weather EXCEPT ![n] =
                     Cleaned([weather[n] EXCEPT ![s] = @ \cup {v}], CurrentSlot(n))]
    /\ received' = [received EXCEPT ![n] = @ \cup {<<s, v>>}]

------------------------------------------------------------------------------
Init ==
    /\ clock = [n \in Node |-> SlotLen]
    /\ adjusted = [n \in Node |-> 0]
    /\ peers = [n \in Node |-> {}]
    /\ monitor = [n \in Node |-> [pc |-> "sleep", slot |-> 0, left |-> 0]]
    /\ lastSlot = [n \in Node |-> 0]
    /\ handlers = [n \in Node |-> {}]
    /\ weather = [n \in Node |-> [s \in Slot |-> {}]]
    /\ sent = {} /\ created = {}
    /\ received = [n \in Node |-> {}]

(* The work at the start of a slot is not overtaken by the end of the slot.*)
StaysOnTime(n, t) == OnTime => monitor[n].pc = "sleep" \/ SlotAt(t) = monitor[n].slot

Moves(n, t) ==
    /\ t \in SlotLen..((MaxSlot + 1) * SlotLen - 1)
    /\ \A m \in Node \ {n} : t - clock[m] \in (0 - MaxSkew)..MaxSkew
    /\ StaysOnTime(n, t)
    /\ clock' = [clock EXCEPT ![n] = t]

Less(left) == IF left = 0 THEN 0 ELSE left - 1
Tick(n) ==
    /\ Moves(n, clock[n] + 1)
    /\ monitor' = [monitor EXCEPT ![n].left = Less(@)]
    /\ handlers' = [handlers EXCEPT ![n] = {[h EXCEPT !.left = Less(@)] : h \in @}]
    /\ UNCHANGED <<adjusted, peers, lastSlot, weather, sent, received, created>>

(* syncWithSource changes timeOffset, runPeriodicSync resets it to zero    *)
(* when no source answers: the clock jumps.  A jump of several ticks is    *)
(* several of these in a row; MaxAdjust bounds their sum, the code nothing.*)
Adjust(n, d) ==
    /\ adjusted[n] < MaxAdjust
    /\ Moves(n, clock[n] + d)
    /\ adjusted' = [adjusted EXCEPT ![n] = @ + 1]
    /\ UNCHANGED <<peers, monitor, lastSlot, handlers, weather, sent, received, created>>

(* A discovered peer is never forgotten.                                   *)
Discover(n, m) ==
    /\ m # n /\ m \notin peers[n]
    /\ peers' = [peers EXCEPT ![n] = @ \cup {m}]
    /\ UNCHANGED <<clock, adjusted, monitor, lastSlot, handlers, weather, sent, received, created>>

------------------------------------------------------------------------------
(* monitorSlots: the slot is read once, and work starts if it is another   *)
(* one than the last time.                                                 *)
Asleep(n) == [pc |-> "sleep", slot |-> 0, left |-> TimeToNextSlot(n)]
Wake(n) ==
    /\ monitor[n].pc = "sleep" /\ monitor[n].left = 0
    /\ monitor' = [monitor EXCEPT ![n] =
                     IF CurrentSlot(n) # lastSlot[n]
                     THEN [pc |-> "weather", slot |-> CurrentSlot(n), left |-> 0]
                     ELSE Asleep(n)]
    /\ UNCHANGED <<clock, adjusted, peers, lastSlot, handlers, weather, sent, received, created>>

(* Broadcast and keep the own report, if the weather service has one.      *)
Report(n) ==
    /\ monitor[n].pc = "weather"
    /\ IF n \in Reporter
       THEN /\ sent' = sent \cup {[to |-> m, from |-> n, slot |-> monitor[n].slot] : m \in peers[n]}
            /\ ReceiveWeather(n, monitor[n].slot, n)
       ELSE UNCHANGED <<sent, weather, received>>
    /\ monitor' = [monitor EXCEPT ![n].pc = "check"]
    /\ UNCHANGED <<clock, adjusted, peers, lastSlot, handlers, created>>

(* IsLocalNodeValidatorForCurrentSlot reads the current slot again; the    *)
(* handler is started for the slot read first.                             *)
Check(n) ==
    /\ monitor[n].pc = "check"
    /\ handlers' = IF ValidatorForSlot(n, CurrentSlot(n)) = n
                   THEN [handlers EXCEPT ![n] = @ \cup
                           {[slot |-> monitor[n].slot, view |-> View(n),
                             left |-> TimeToMidpoint(n, monitor[n].slot)]}]
                   ELSE handlers
    /\ lastSlot' = [lastSlot EXCEPT ![n] = monitor[n].slot]
    /\ monitor' = [monitor EXCEPT ![n] = Asleep(n)]
    /\ UNCHANGED <<clock, adjusted, peers, weather, sent, received, created>>

(* handleValidatorSlot after its sleep: collect and create.  A handler that*)
(* fails (no chain yet, a failed save) is one that never takes this step.  *)
Create(n) ==
    \E h \in handlers[n] :
        /\ h.left = 0
        /\ handlers' = [handlers EXCEPT ![n] = @ \ {h}]
        /\ created' = created \cup {[by |-> n, slot |-> h.slot, view |-> h.view]}
        /\ UNCHANGED <<clock, adjusted, peers, monitor, lastSlot, weather, sent, received>>

Deliver(m) ==
    /\ m \in sent
    /\ sent' = sent \ {m}
    /\ ReceiveWeather(m.to, m.slot, m.from)
    /\ UNCHANGED <<clock, adjusted, peers, monitor, lastSlot, handlers, created>>

------------------------------------------------------------------------------
Time == \E n \in Node : Tick(n) \/ \E d \in {-1, 1} : Adjust(n, d)
Work(n) == Wake(n) \/ Report(n) \/ Check(n) \/ Create(n)
Next == Time \/ (\E n \in Node : Work(n) \/ \E m \in Node : Discover(n, m)) \/ \E m \in sent : Deliver(m)

Spec == Init /\ [][Next]_vars

------------------------------------------------------------------------------
(* A slot has one creator among the nodes that see the same participants,  *)
(* however their clocks differ and are corrected.                          *)
OneCreatorPerView ==
    \A b, c \in created : b.slot = c.slot /\ b.view = c.view => b = c

(* A node never has two tries at the block of one slot, with the same view *)
(* or another, though its clock is set back and it discovers peers while a *)
(* handler sleeps until the slot's midpoint.                               *)
OneBlockPerSlot ==
    \A n \in Node :
        /\ \A h, k \in handlers[n] : h.slot = k.slot => h = k
        /\ \A h \in handlers[n], b \in created : b.by = n => b.slot # h.slot
        /\ \A b, c \in created : b.by = n /\ c.by = n /\ b.slot = c.slot => b = c

(* "This ensures all nodes get the same participant set regardless of      *)
(* timing" (validator_selection.go:570): then no slot has two creators.    *)
OneCreator == \A b, c \in created : b.slot = c.slot => b.by = c.by

(* A correction of the clock never makes a node work on a slot again.      *)
SlotsOnlyAdvance == [][\A n \in Node : lastSlot'[n] >= lastSlot[n]]_lastSlot

(* The cleaning of old slots leaves a handler every report that arrived for*)
(* its slot, up to the slot in which it collects; one slot of history is   *)
(* the reserve for a clock set back.                                       *)
ReportsAreKept ==
    \A n \in Node : \A h \in handlers[n] :
        CurrentSlot(n) <= h.slot + MaxSlotHistory - 2
            => weather[n][h.slot] = {v \in Node : <<h.slot, v>> \in received[n]}
==============================================================================
