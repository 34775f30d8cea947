------------------------------ MODULE SlotsProofs ------------------------------
(***************************************************************************)
(* The safety of Slots for any set of nodes, any hash, any slot length and *)
(* any number of slots.  What a handler creates follows from what the      *)
(* monitor knew when it started the handler; what the monitor does after a *)
(* sleep, from where the clock was when the sleep began and how often it   *)
(* has been set back since.  IInv carries both through the steps between.  *)
(***************************************************************************)
EXTENDS Slots, TLAPS

(* All corrections together set a clock back by no more than one slot.     *)
SmallCorrections == MaxAdjust <= SlotLen

(* The reports of slot s that have reached n.                              *)
Arrived(n, s) == {v \in Node : <<s, v>> \in received[n]}

(* Every report is kept, or a cleaning has seen a slot that is a whole     *)
(* history later: corrections may since have set the clock back.           *)
HistoryOK ==
    \A n \in Node, s \in Slot :
        \/ weather[n][s] = Arrived(n, s)
        \/ clock[n] + adjusted[n] >= (s + MaxSlotHistory) * SlotLen

(* The monitor works on a slot, and on time: on the current one.           *)
WorkOK ==
    \A n \in Node : monitor[n].pc # "sleep" =>
        /\ monitor[n].slot \in Slot
        /\ OnTime => CurrentSlot(n) = monitor[n].slot

(* The validator that the nodes that see the participants P compute.       *)
Chosen(P, s) ==
    LET participants == SetToSortSeq(P, <)
    IN participants[(Hash[s, P] % Len(participants)) + 1]

(* Handlers run, and blocks are created, where the choice falls.           *)
ChoiceOK ==
    OnTime => /\ \A n \in Node : \A h \in handlers[n] : n = Chosen(h.view, h.slot)
              /\ \A b \in created : b.by = Chosen(b.view, b.slot)

(* A sleep ends after its slot, but for the corrections; work is for a new *)
(* slot; what was started before is for older ones.                        *)
AdvanceOK ==
    OnTime /\ SmallCorrections => \A n \in Node :
        /\ monitor[n].pc = "sleep" =>
             clock[n] + monitor[n].left + adjusted[n] >= (lastSlot[n] + 1) * SlotLen
        /\ monitor[n].pc # "sleep" => monitor[n].slot > lastSlot[n]
        /\ \A h \in handlers[n] : h.slot <= lastSlot[n]
        /\ \A b \in created : b.by = n => b.slot <= lastSlot[n]

OncePerSlot == OnTime /\ SmallCorrections => OneBlockPerSlot

IInv ==
    /\ TypeOK
    /\ HistoryOK
    /\ WorkOK
    /\ ChoiceOK
    /\ AdvanceOK
    /\ OncePerSlot

------------------------------------------------------------------------------
(* SlotAt is the slot whose ticks hold t.                                  *)
LEMMA SlotHolds ==
  ASSUME NEW t \in Nat
  PROVE  /\ SlotAt(t) \in Nat
         /\ SlotAt(t) * SlotLen <= t /\ t < (SlotAt(t) + 1) * SlotLen
         /\ (SlotAt(t) + 1) * SlotLen = SlotAt(t) * SlotLen + SlotLen
<1>1. SlotLen \in Nat \ {0}
  BY SlotsAssumption
<1>2. /\ t \div SlotLen \in Nat
      /\ (t \div SlotLen) * SlotLen <= t /\ t < ((t \div SlotLen) + 1) * SlotLen
  BY <1>1
<1>3. ((t \div SlotLen) + 1) * SlotLen = (t \div SlotLen) * SlotLen + SlotLen
  BY <1>1, <1>2
<1>. QED  BY <1>2, <1>3 DEF SlotAt

(* Products with SlotLen keep the order.                                   *)
LEMMA TimesSlotLen ==
  ASSUME NEW a \in Int, NEW b \in Int, a <= b
  PROVE  a * SlotLen <= b * SlotLen /\ a * SlotLen \in Int
<1>1. SlotLen \in Nat
  BY SlotsAssumption
<1>. QED  BY <1>1

(* Moments and slots compare alike.                                        *)
LEMMA SlotOrder ==
  ASSUME NEW t \in Nat, NEW s \in Int
  PROVE  s * SlotLen <= t <=> s <= SlotAt(t)
<1>1. /\ SlotAt(t) \in Nat /\ SlotAt(t) * SlotLen <= t
      /\ t < (SlotAt(t) + 1) * SlotLen
  BY SlotHolds
<1>2. s <= SlotAt(t) => s * SlotLen <= t
  BY <1>1, TimesSlotLen
<1>3. ASSUME s > SlotAt(t)
      PROVE  s * SlotLen > t
  <2>. DEFINE p == s * SlotLen
              q == (SlotAt(t) + 1) * SlotLen
  <2>1. SlotAt(t) + 1 <= s /\ SlotAt(t) + 1 \in Int
    BY <1>1, <1>3
  <2>2. q <= p /\ q \in Int /\ p \in Int
    BY <2>1, TimesSlotLen
  <2>3. t < q
    BY <1>1
  <2>. HIDE DEF p, q
  <2>4. p > t
    BY <2>2, <2>3
  <2>. QED  BY <2>4 DEF p
<1>4. s * SlotLen \in Int
  BY TimesSlotLen
<1>. QED  BY <1>1, <1>2, <1>3, <1>4

(* The clocks stay within the slots of the model.                          *)
LEMMA ClockInSlots ==
  ASSUME TypeOK, NEW n \in Node
  PROVE  /\ clock[n] \in Nat /\ adjusted[n] \in Nat /\ CurrentSlot(n) \in Slot
         /\ TimeToNextSlot(n) \in 1..SlotLen
         /\ clock[n] + TimeToNextSlot(n) = (CurrentSlot(n) + 1) * SlotLen
<1>1. SlotLen \in Nat \ {0} /\ MaxSlot \in Nat \ {0} /\ MaxAdjust \in Nat
  BY SlotsAssumption
<1>2. /\ clock[n] \in Nat /\ adjusted[n] \in Nat
      /\ SlotLen <= clock[n] /\ clock[n] < (MaxSlot + 1) * SlotLen
  BY <1>1 DEF TypeOK
<1>3. /\ CurrentSlot(n) \in Nat
      /\ CurrentSlot(n) * SlotLen <= clock[n] /\ clock[n] < (CurrentSlot(n) + 1) * SlotLen
      /\ (CurrentSlot(n) + 1) * SlotLen = CurrentSlot(n) * SlotLen + SlotLen
  BY <1>2, SlotHolds DEF CurrentSlot
<1>4. CurrentSlot(n) >= 1
  <2>1. 1 * SlotLen <= clock[n]
    BY <1>1, <1>2
  <2>. QED  BY <1>2, <2>1, SlotOrder DEF CurrentSlot
<1>5. CurrentSlot(n) <= MaxSlot
  <2>1. ~(MaxSlot + 1 <= CurrentSlot(n))
    BY <1>1, <1>2, SlotOrder DEF CurrentSlot
  <2>. QED  BY <1>1, <1>3, <2>1
<1>6. (CurrentSlot(n) + 1) * SlotLen \in Int
  BY <1>1, <1>3
<1>7. CurrentSlot(n) * SlotLen \in Int
  BY <1>1, <1>3
<1>. QED  BY <1>1, <1>2, <1>3, <1>4, <1>5, <1>6, <1>7 DEF Slot, TimeToNextSlot

------------------------------------------------------------------------------
LEMMA InitIInv == Init => IInv
<1>. SUFFICES ASSUME Init PROVE IInv
  OBVIOUS
<1>. USE DEF Init
<1>1. SlotLen \in Nat \ {0} /\ MaxSlot \in Nat \ {0} /\ MaxAdjust \in Nat
  BY SlotsAssumption
<1>2. SlotLen \in SlotLen..((MaxSlot + 1) * SlotLen - 1)
  <2>1. 2 * SlotLen <= (MaxSlot + 1) * SlotLen /\ (MaxSlot + 1) * SlotLen \in Int
    BY <1>1, TimesSlotLen
  <2>. QED  BY <1>1, <2>1
<1>3. TypeOK
  <2>1. clock \in [Node -> SlotLen..((MaxSlot + 1) * SlotLen - 1)]
    BY <1>2
  <2>2. adjusted \in [Node -> 0..MaxAdjust]
    BY <1>1
  <2>3. monitor \in [Node -> [pc : {"sleep", "weather", "check"}, slot : 0..MaxSlot, left : 0..SlotLen]]
    BY <1>1
  <2>. QED  BY <1>1, <2>1, <2>2, <2>3 DEF TypeOK
<1>4. HistoryOK
  BY DEF HistoryOK, Arrived
<1>5. WorkOK /\ ChoiceOK
  BY DEF WorkOK, ChoiceOK
<1>6. AdvanceOK
  <2>1. SlotLen >= (0 + 1) * SlotLen
    BY <1>1
  <2>. QED  BY <1>1, <2>1 DEF AdvanceOK
<1>7. OncePerSlot
  BY DEF OncePerSlot, OneBlockPerSlot
<1>. QED  BY <1>3, <1>4, <1>5, <1>6, <1>7 DEF IInv

------------------------------------------------------------------------------
(* The clock of n moves to t.                                              *)
LEMMA MovesTo ==
  ASSUME TypeOK, NEW n \in Node, NEW t, Moves(n, t)
  PROVE  /\ clock' = [clock EXCEPT ![n] = t]
         /\ clock' \in [Node -> SlotLen..((MaxSlot + 1) * SlotLen - 1)]
         /\ OnTime /\ monitor[n].pc # "sleep" => SlotAt(t) = monitor[n].slot
         /\ \A m \in Node : clock[m] \in Nat /\ clock'[m] \in Nat
         /\ \A m \in Node : adjusted[m] \in Nat /\ monitor[m].left \in Nat /\ lastSlot[m] \in Nat
<1>1. clock' = [clock EXCEPT ![n] = t] /\ t \in SlotLen..((MaxSlot + 1) * SlotLen - 1)
  BY DEF Moves
<1>2. clock' \in [Node -> SlotLen..((MaxSlot + 1) * SlotLen - 1)]
  BY <1>1 DEF TypeOK
<1>3. SlotLen \in Nat /\ MaxAdjust \in Nat /\ MaxSlot \in Nat
  BY SlotsAssumption
<1>4. OnTime /\ monitor[n].pc # "sleep" => SlotAt(t) = monitor[n].slot
  BY DEF Moves, StaysOnTime
<1>5. \A m \in Node : clock[m] \in Nat /\ clock'[m] \in Nat
  BY <1>2, <1>3 DEF TypeOK
<1>6. \A m \in Node : adjusted[m] \in Nat /\ monitor[m].left \in Nat /\ lastSlot[m] \in Nat
  BY <1>3 DEF TypeOK
<1>. QED  BY <1>1, <1>2, <1>4, <1>5, <1>6

(* Time that is gained, or lost and counted, forgets no cleaning.          *)
LEMMA HistoryStays ==
  ASSUME TypeOK, HistoryOK, UNCHANGED <<weather, received>>,
         \A n \in Node : clock'[n] + adjusted'[n] >= clock[n] + adjusted[n],
         \A n \in Node : clock'[n] + adjusted'[n] \in Nat /\ clock[n] + adjusted[n] \in Nat
  PROVE  HistoryOK'
<1>1. ASSUME NEW n \in Node, NEW s \in Slot
      PROVE  \/ weather'[n][s] = Arrived(n, s)'
             \/ clock'[n] + adjusted'[n] >= (s + MaxSlotHistory) * SlotLen
  <2>1. (s + MaxSlotHistory) * SlotLen \in Int
    BY SlotsAssumption, TimesSlotLen DEF Slot
  <2>. DEFINE p == (s + MaxSlotHistory) * SlotLen
  <2>. HIDE DEF p
  <2>2. weather[n][s] = Arrived(n, s) \/ clock[n] + adjusted[n] >= p
    BY DEF HistoryOK, p
  <2>3. Arrived(n, s)' = Arrived(n, s)
    BY DEF Arrived
  <2>4. weather'[n][s] = Arrived(n, s)' \/ clock'[n] + adjusted'[n] >= p
    BY <2>1, <2>2, <2>3 DEF p
  <2>. QED  BY <2>4 DEF p
<1>. QED  BY <1>1 DEF HistoryOK

(* A report that arrives is kept, and a cleaning removes only slots that   *)
(* are a whole history old.                                                *)
LEMMA ReportArrives ==
  ASSUME TypeOK, HistoryOK, NEW n \in Node, NEW s \in Slot, NEW v \in Node,
         ReceiveWeather(n, s, v), UNCHANGED <<clock, adjusted>>
  PROVE  /\ weather' \in [Node -> [Slot -> SUBSET Node]]
         /\ received' \in [Node -> SUBSET (Slot \X Node)]
         /\ HistoryOK'
<1>. DEFINE data == [weather[n] EXCEPT ![s] = @ \cup {v}]
            now == CurrentSlot(n)
<1>1. weather[n] \in [Slot -> SUBSET Node] /\ data \in [Slot -> SUBSET Node]
  BY DEF TypeOK
<1>2. Cleaned(data, now) \in [Slot -> SUBSET Node]
  BY <1>1 DEF Cleaned
<1>3. \A x \in Slot : Cleaned(data, now)[x] = data[x] \/ TooOld(x, now)
  BY <1>1 DEF Cleaned
<1>4. /\ weather' = [weather EXCEPT ![n] = Cleaned(data, now)]
      /\ received' = [received EXCEPT ![n] = @ \cup {<<s, v>>}]
  BY DEF ReceiveWeather
<1>5. weather' \in [Node -> [Slot -> SUBSET Node]]
  BY <1>2, <1>4 DEF TypeOK
<1>6. received' \in [Node -> SUBSET (Slot \X Node)]
  BY <1>4 DEF TypeOK
<1>. HIDE DEF now
<1>7. ASSUME NEW m \in Node, NEW x \in Slot
      PROVE  \/ weather'[m][x] = Arrived(m, x)'
             \/ clock'[m] + adjusted'[m] >= (x + MaxSlotHistory) * SlotLen
  <2>1. weather[m][x] = Arrived(m, x) \/ clock[m] + adjusted[m] >= (x + MaxSlotHistory) * SlotLen
    BY DEF HistoryOK
  <2>2. CASE m # n
    <3>1. weather'[m] = weather[m] /\ Arrived(m, x)' = Arrived(m, x)
      BY <1>4, <2>2 DEF TypeOK, Arrived
    <3>. QED  BY <2>1, <3>1
  <2>3. CASE m = n /\ Cleaned(data, now)[x] = data[x]
    <3>1. weather'[m][x] = IF x = s THEN weather[m][x] \cup {v} ELSE weather[m][x]
      BY <1>1, <1>4, <2>3 DEF TypeOK
    <3>2. Arrived(m, x)' = IF x = s THEN Arrived(m, x) \cup {v} ELSE Arrived(m, x)
      BY <1>4, <2>3 DEF TypeOK, Arrived
    <3>. QED  BY <2>1, <3>1, <3>2
  <2>4. CASE m = n /\ TooOld(x, now)
    <3>1. /\ clock[n] \in Nat /\ adjusted[n] \in Nat /\ now \in Nat /\ now = SlotAt(clock[n])
          /\ x \in Nat /\ MaxSlotHistory \in Nat /\ SlotLen \in Nat
      BY ClockInSlots, SlotsAssumption DEF now, CurrentSlot, Slot
    <3>2. x + MaxSlotHistory <= now /\ x + MaxSlotHistory \in Int
      BY <2>4, <3>1 DEF TooOld
    <3>3. (x + MaxSlotHistory) * SlotLen <= clock[n] /\ (x + MaxSlotHistory) * SlotLen \in Int
      BY <3>1, <3>2, SlotOrder, TimesSlotLen
    <3>. QED  BY <2>4, <3>1, <3>3
  <2>. QED  BY <1>3, <2>2, <2>3, <2>4
<1>. QED  BY <1>5, <1>6, <1>7 DEF HistoryOK

------------------------------------------------------------------------------
(* One tick of a clock: what sleeps has one tick less to sleep.            *)
LEMMA TickKeeps ==
  ASSUME IInv, NEW n \in Node, Tick(n)
  PROVE  IInv'
<1>. USE DEF Tick
<1>1. TypeOK /\ HistoryOK /\ WorkOK
  BY DEF IInv
<1>2. /\ clock' = [clock EXCEPT ![n] = clock[n] + 1]
      /\ clock' \in [Node -> SlotLen..((MaxSlot + 1) * SlotLen - 1)]
      /\ OnTime /\ monitor[n].pc # "sleep" => SlotAt(clock[n] + 1) = monitor[n].slot
      /\ \A m \in Node : clock[m] \in Nat /\ clock'[m] \in Nat
      /\ \A m \in Node : adjusted[m] \in Nat /\ monitor[m].left \in Nat /\ lastSlot[m] \in Nat
  BY <1>1, MovesTo
<1>3. /\ monitor' \in [Node -> [pc : {"sleep", "weather", "check"}, slot : 0..MaxSlot, left : 0..SlotLen]]
      /\ \A m \in Node : /\ monitor'[m].pc = monitor[m].pc /\ monitor'[m].slot = monitor[m].slot
                         /\ monitor'[m].left = IF m = n THEN Less(monitor[m].left) ELSE monitor[m].left
  <2>1. \A left \in 0..SlotLen : Less(left) \in 0..SlotLen
    BY SlotsAssumption DEF Less
  <2>. QED  BY <1>1, <2>1, ZenonT(30) DEF TypeOK
<1>4. /\ handlers' \in [Node -> SUBSET Handler]
      /\ \A m \in Node : m # n => handlers'[m] = handlers[m]
      /\ handlers'[n] = {[h EXCEPT !.left = Less(@)] : h \in handlers[n]}
  <2>1. \A h \in Handler : [h EXCEPT !.left = Less(@)] \in Handler
    BY DEF Handler, Less
  <2>2. {[h EXCEPT !.left = Less(@)] : h \in handlers[n]} \in SUBSET Handler
    BY <1>1, <2>1 DEF TypeOK
  <2>. QED  BY <1>1, <2>2 DEF TypeOK
<1>5. \A m \in Node : \A h \in handlers'[m] :
         \E k \in handlers[m] : /\ h.slot = k.slot /\ h.view = k.view
                                /\ m = n => h = [k EXCEPT !.left = Less(@)]
                                /\ m # n => h = k
  <2>1. \A h \in handlers'[n] : \E k \in handlers[n] :
           h.slot = k.slot /\ h.view = k.view /\ h = [k EXCEPT !.left = Less(@)]
    <3>1. \A k \in Handler : /\ [k EXCEPT !.left = Less(@)].slot = k.slot
                             /\ [k EXCEPT !.left = Less(@)].view = k.view
      BY DEF Handler
    <3>2. handlers[n] \subseteq Handler
      BY <1>1 DEF TypeOK
    <3>. QED  BY <1>4, <3>1, <3>2, ZenonT(30)
  <2>. QED  BY <1>4, <2>1
<1>6. TypeOK'
  BY <1>1, <1>2, <1>3, <1>4 DEF TypeOK
<1>7. HistoryOK'
  <2>1. \A m \in Node : clock'[m] >= clock[m]
    BY <1>1, <1>2 DEF TypeOK
  <2>. QED  BY <1>1, <1>2, <2>1, HistoryStays
<1>8. WorkOK'
  <2>1. ASSUME NEW m \in Node, monitor'[m].pc # "sleep"
        PROVE  monitor'[m].slot \in Slot /\ (OnTime => CurrentSlot(m)' = monitor'[m].slot)
    <3>1. monitor[m].slot \in Slot /\ (OnTime => CurrentSlot(m) = monitor[m].slot)
      BY <1>1, <1>3, <2>1 DEF WorkOK
    <3>2. CASE m = n
      BY <1>1, <1>2, <1>3, <2>1, <3>1, <3>2 DEF TypeOK, CurrentSlot
    <3>3. CASE m # n
      BY <1>1, <1>2, <1>3, <3>1, <3>3 DEF TypeOK, CurrentSlot
    <3>. QED  BY <3>2, <3>3
  <2>. QED  BY <2>1 DEF WorkOK
<1>9. ChoiceOK'
  BY <1>5 DEF IInv, ChoiceOK
<1>10. AdvanceOK'
  <2>. SUFFICES ASSUME OnTime, SmallCorrections, NEW m \in Node
                PROVE  /\ monitor'[m].pc = "sleep" =>
                            clock'[m] + monitor'[m].left + adjusted'[m] >= (lastSlot'[m] + 1) * SlotLen
                       /\ monitor'[m].pc # "sleep" => monitor'[m].slot > lastSlot'[m]
                       /\ \A h \in handlers'[m] : h.slot <= lastSlot'[m]
                       /\ \A b \in created' : b.by = m => b.slot <= lastSlot'[m]
    BY DEF AdvanceOK, SmallCorrections
  <2>1. /\ monitor[m].pc = "sleep" =>
             clock[m] + monitor[m].left + adjusted[m] >= (lastSlot[m] + 1) * SlotLen
        /\ monitor[m].pc # "sleep" => monitor[m].slot > lastSlot[m]
        /\ \A h \in handlers[m] : h.slot <= lastSlot[m]
        /\ \A b \in created : b.by = m => b.slot <= lastSlot[m]
    BY DEF IInv, AdvanceOK
  <2>2. clock'[m] + monitor'[m].left >= clock[m] + monitor[m].left
    BY <1>1, <1>2, <1>3 DEF TypeOK, Less
  <2>3. (lastSlot[m] + 1) * SlotLen \in Int /\ monitor'[m].left \in Nat
    BY <1>2, <1>3, SlotsAssumption, TimesSlotLen
  <2>4. monitor'[m].pc = "sleep" =>
          clock'[m] + monitor'[m].left + adjusted'[m] >= (lastSlot'[m] + 1) * SlotLen
    <3>. DEFINE p == (lastSlot[m] + 1) * SlotLen
    <3>. HIDE DEF p
    <3>1. monitor[m].pc = "sleep" => clock[m] + monitor[m].left + adjusted[m] >= p
      BY <2>1 DEF p
    <3>2. p \in Int
      BY <2>3 DEF p
    <3>3. monitor'[m].pc = "sleep" => clock'[m] + monitor'[m].left + adjusted'[m] >= p
      BY <1>2, <1>3, <2>2, <2>3, <3>1, <3>2
    <3>. QED  BY <3>3 DEF p
  <2>. QED  BY <1>3, <1>5, <2>1, <2>4
<1>11. OncePerSlot'
  <2>. SUFFICES ASSUME OnTime, SmallCorrections
                PROVE  OneBlockPerSlot'
    BY DEF OncePerSlot, SmallCorrections
  <2>1. OneBlockPerSlot
    BY DEF IInv, OncePerSlot
  <2>2. \A m \in Node : \A h, k \in handlers'[m] : h.slot = k.slot => h = k
    BY <1>5, <2>1 DEF OneBlockPerSlot
  <2>3. \A m \in Node : \A h \in handlers'[m], b \in created' : b.by = m => b.slot # h.slot
    BY <1>5, <2>1 DEF OneBlockPerSlot
  <2>. QED  BY <2>1, <2>2, <2>3 DEF OneBlockPerSlot
<1>. QED  BY <1>6, <1>7, <1>8, <1>9, <1>10, <1>11 DEF IInv

(* A correction of a clock, by one tick in either direction.               *)
LEMMA AdjustKeeps ==
  ASSUME IInv, NEW n \in Node, NEW d \in {-1, 1}, Adjust(n, d)
  PROVE  IInv'
<1>. USE DEF Adjust
<1>1. TypeOK /\ HistoryOK /\ WorkOK
  BY DEF IInv
<1>2. /\ clock' = [clock EXCEPT ![n] = clock[n] + d]
      /\ clock' \in [Node -> SlotLen..((MaxSlot + 1) * SlotLen - 1)]
      /\ OnTime /\ monitor[n].pc # "sleep" => SlotAt(clock[n] + d) = monitor[n].slot
      /\ \A m \in Node : clock[m] \in Nat /\ clock'[m] \in Nat
      /\ \A m \in Node : adjusted[m] \in Nat /\ monitor[m].left \in Nat /\ lastSlot[m] \in Nat
  BY <1>1, MovesTo
<1>3. adjusted' \in [Node -> 0..MaxAdjust]
  BY <1>1, SlotsAssumption DEF TypeOK
<1>4. \A m \in Node : /\ adjusted'[m] \in Nat
                      /\ clock'[m] + adjusted'[m] >= clock[m] + adjusted[m]
  BY <1>1, <1>2 DEF TypeOK
<1>5. TypeOK'
  BY <1>1, <1>2, <1>3 DEF TypeOK
<1>6. HistoryOK'
  BY <1>1, <1>2, <1>4, HistoryStays
<1>7. WorkOK'
  <2>1. ASSUME NEW m \in Node, monitor[m].pc # "sleep"
        PROVE  monitor[m].slot \in Slot /\ (OnTime => CurrentSlot(m)' = monitor[m].slot)
    <3>1. monitor[m].slot \in Slot /\ (OnTime => CurrentSlot(m) = monitor[m].slot)
      BY <1>1, <2>1 DEF WorkOK
    <3>. QED  BY <1>1, <1>2, <2>1, <3>1 DEF TypeOK, CurrentSlot
  <2>. QED  BY <2>1 DEF WorkOK
<1>8. ChoiceOK'
  BY DEF IInv, ChoiceOK
<1>9. AdvanceOK'
  <2>. SUFFICES ASSUME OnTime, SmallCorrections, NEW m \in Node
                PROVE  /\ monitor[m].pc = "sleep" =>
                            clock'[m] + monitor[m].left + adjusted'[m] >= (lastSlot[m] + 1) * SlotLen
                       /\ monitor[m].pc # "sleep" => monitor[m].slot > lastSlot[m]
                       /\ \A h \in handlers[m] : h.slot <= lastSlot[m]
                       /\ \A b \in created : b.by = m => b.slot <= lastSlot[m]
    BY DEF AdvanceOK, SmallCorrections
  <2>. DEFINE p == (lastSlot[m] + 1) * SlotLen
  <2>1. p \in Int
    BY <1>2, SlotsAssumption, TimesSlotLen
  <2>2. monitor[m].pc = "sleep" => clock[m] + monitor[m].left + adjusted[m] >= p
    BY DEF IInv, AdvanceOK
  <2>. HIDE DEF p
  <2>3. monitor[m].pc = "sleep" => clock'[m] + monitor[m].left + adjusted'[m] >= p
    BY <1>2, <1>4, <2>1, <2>2
  <2>. QED  BY <2>3 DEF IInv, AdvanceOK, p
<1>10. OncePerSlot'
  BY DEF IInv, OncePerSlot, OneBlockPerSlot, SmallCorrections
<1>. QED  BY <1>5, <1>6, <1>7, <1>8, <1>9, <1>10 DEF IInv

(* A correction or a discovery apart, a step leaves the clocks alone, and  *)
(* one that does not touch the reports leaves the history alone.           *)
LEMMA SameHistory ==
  ASSUME IInv, UNCHANGED <<clock, adjusted, weather, received>>
  PROVE  HistoryOK'
BY DEF IInv, HistoryOK, Arrived

LEMMA DiscoverKeeps ==
  ASSUME IInv, NEW n \in Node, NEW m \in Node, Discover(n, m)
  PROVE  IInv'
<1>. USE DEF Discover
<1>1. TypeOK'
  BY DEF IInv, TypeOK
<1>2. WorkOK' /\ HistoryOK'
  BY SameHistory DEF IInv, WorkOK, CurrentSlot
<1>3. ChoiceOK' /\ AdvanceOK' /\ OncePerSlot'
  BY DEF IInv, ChoiceOK, AdvanceOK, OncePerSlot, OneBlockPerSlot, SmallCorrections
<1>. QED  BY <1>1, <1>2, <1>3 DEF IInv

(* A monitor that sleeps has slept out its slot: it finds the same slot, if*)
(* the clock was set back, or a later one.                                 *)
LEMMA WakesLater ==
  ASSUME IInv, OnTime, SmallCorrections, NEW n \in Node,
         monitor[n].pc = "sleep", monitor[n].left = 0
  PROVE  CurrentSlot(n) >= lastSlot[n]
<1>. DEFINE p == lastSlot[n] * SlotLen
<1>1. /\ clock[n] \in Nat /\ adjusted[n] \in 0..MaxAdjust /\ lastSlot[n] \in Nat
      /\ SlotLen \in Nat /\ MaxAdjust \in Nat /\ MaxAdjust <= SlotLen
  BY ClockInSlots, SlotsAssumption DEF IInv, TypeOK, SmallCorrections
<1>2. p \in Int /\ (lastSlot[n] + 1) * SlotLen = p + SlotLen
  BY <1>1
<1>3. clock[n] + monitor[n].left + adjusted[n] >= (lastSlot[n] + 1) * SlotLen
  BY DEF IInv, AdvanceOK
<1>. HIDE DEF p
<1>4. p <= clock[n]
  BY <1>1, <1>2, <1>3
<1>. QED  BY <1>1, <1>4, SlotOrder DEF p, CurrentSlot

LEMMA WakeKeeps ==
  ASSUME IInv, NEW n \in Node, Wake(n)
  PROVE  IInv'
<1>. USE DEF Wake
<1>0. TypeOK /\ WorkOK /\ AdvanceOK
  BY DEF IInv
<1>1. /\ clock[n] \in Nat /\ adjusted[n] \in Nat /\ CurrentSlot(n) \in Slot
      /\ TimeToNextSlot(n) \in 1..SlotLen
      /\ clock[n] + TimeToNextSlot(n) = (CurrentSlot(n) + 1) * SlotLen
      /\ (CurrentSlot(n) + 1) * SlotLen \in Int
  BY <1>0, ClockInSlots, SlotsAssumption, TimesSlotLen DEF Slot
<1>2. /\ \A m \in Node : m # n => monitor'[m] = monitor[m]
      /\ monitor'[n] = IF CurrentSlot(n) # lastSlot[n]
                       THEN [pc |-> "weather", slot |-> CurrentSlot(n), left |-> 0]
                       ELSE Asleep(n)
  BY <1>0 DEF TypeOK
<1>3. monitor'[n] \in [pc : {"sleep", "weather", "check"}, slot : 0..MaxSlot, left : 0..SlotLen]
  BY <1>1, <1>2, SlotsAssumption DEF Slot, Asleep
<1>4. TypeOK'
  BY <1>0, <1>3 DEF TypeOK
<1>5. WorkOK'
  BY <1>0, <1>1, <1>2 DEF WorkOK, CurrentSlot, Asleep
<1>6. AdvanceOK'
  <2>. SUFFICES ASSUME OnTime, SmallCorrections, NEW m \in Node
                PROVE  /\ monitor'[m].pc = "sleep" =>
                            clock[m] + monitor'[m].left + adjusted[m] >= (lastSlot[m] + 1) * SlotLen
                       /\ monitor'[m].pc # "sleep" => monitor'[m].slot > lastSlot[m]
                       /\ \A h \in handlers[m] : h.slot <= lastSlot[m]
                       /\ \A b \in created : b.by = m => b.slot <= lastSlot[m]
    BY DEF AdvanceOK, SmallCorrections
  <2>1. CASE m # n
    BY <1>0, <1>2, <2>1 DEF AdvanceOK
  <2>2. CASE m = n /\ CurrentSlot(n) # lastSlot[n]
    <3>1. CurrentSlot(n) > lastSlot[n]
      BY <1>0, <1>1, <2>2, WakesLater, SlotsAssumption DEF TypeOK, Slot
    <3>. QED  BY <1>0, <1>2, <2>2, <3>1 DEF AdvanceOK
  <2>3. CASE m = n /\ CurrentSlot(n) = lastSlot[n]
    <3>1. monitor'[n].pc = "sleep" /\ monitor'[n].left = TimeToNextSlot(n)
      BY <1>2, <2>3 DEF Asleep
    <3>2. clock[n] + monitor'[n].left + adjusted[n] >= (lastSlot[n] + 1) * SlotLen
      <4>. DEFINE p == (CurrentSlot(n) + 1) * SlotLen
      <4>1. clock[n] + TimeToNextSlot(n) = p /\ p \in Int
        BY <1>1
      <4>. HIDE DEF p
      <4>2. clock[n] + monitor'[n].left + adjusted[n] >= p
        BY <1>1, <3>1, <4>1, SlotsAssumption
      <4>. QED  BY <2>3, <4>2 DEF p
    <3>. QED  BY <1>0, <2>3, <3>1, <3>2 DEF AdvanceOK
  <2>. QED  BY <2>1, <2>2, <2>3
<1>7. HistoryOK' /\ ChoiceOK' /\ OncePerSlot'
  BY SameHistory DEF IInv, ChoiceOK, OncePerSlot, OneBlockPerSlot, SmallCorrections
<1>. QED  BY <1>4, <1>5, <1>6, <1>7 DEF IInv

LEMMA ReportKeeps ==
  ASSUME IInv, NEW n \in Node, Report(n)
  PROVE  IInv'
<1>. USE DEF Report
<1>0. TypeOK /\ HistoryOK /\ WorkOK /\ monitor[n].slot \in Slot
  BY DEF IInv, WorkOK
<1>1. /\ monitor' \in [Node -> [pc : {"sleep", "weather", "check"}, slot : 0..MaxSlot, left : 0..SlotLen]]
      /\ \A m \in Node : /\ monitor'[m].slot = monitor[m].slot /\ monitor'[m].left = monitor[m].left
                         /\ monitor'[m].pc = IF m = n THEN "check" ELSE monitor[m].pc
  BY <1>0 DEF TypeOK
<1>2. sent' \subseteq Message
  BY <1>0 DEF TypeOK, Message
<1>3. /\ weather' \in [Node -> [Slot -> SUBSET Node]]
      /\ received' \in [Node -> SUBSET (Slot \X Node)]
      /\ HistoryOK'
  <2>1. CASE n \in Reporter
    BY <1>0, <2>1, ReportArrives
  <2>2. CASE n \notin Reporter
    BY <1>0, <2>2, SameHistory DEF TypeOK
  <2>. QED  BY <2>1, <2>2
<1>4. TypeOK'
  BY <1>0, <1>1, <1>2, <1>3 DEF TypeOK
<1>5. WorkOK'
  BY <1>0, <1>1 DEF WorkOK, CurrentSlot
<1>6. AdvanceOK'
  BY <1>1 DEF IInv, AdvanceOK, SmallCorrections
<1>7. ChoiceOK' /\ OncePerSlot'
  BY DEF IInv, ChoiceOK, OncePerSlot, OneBlockPerSlot, SmallCorrections
<1>. QED  BY <1>3, <1>4, <1>5, <1>6, <1>7 DEF IInv

(* The handler is started for a slot that is new, by the node the choice   *)
(* falls on as long as the slot read first is still the current one.       *)
LEMMA CheckKeeps ==
  ASSUME IInv, NEW n \in Node, Check(n)
  PROVE  IInv'
<1>. USE DEF Check
<1>. DEFINE slot == monitor[n].slot
            new == [slot |-> slot, view |-> View(n), left |-> TimeToMidpoint(n, slot)]
<1>0. TypeOK /\ WorkOK /\ slot \in Slot /\ (OnTime => CurrentSlot(n) = slot)
  BY DEF IInv, WorkOK
<1>1. /\ clock[n] \in Nat /\ adjusted[n] \in Nat /\ CurrentSlot(n) \in Slot
      /\ TimeToNextSlot(n) \in 1..SlotLen
      /\ clock[n] + TimeToNextSlot(n) = (CurrentSlot(n) + 1) * SlotLen
      /\ (CurrentSlot(n) + 1) * SlotLen \in Int /\ slot \in Nat
  BY <1>0, ClockInSlots, SlotsAssumption, TimesSlotLen DEF Slot
<1>2. new \in Handler
  <2>1. TimeToMidpoint(n, slot) \in Nat
    <3>1. slot * SlotLen \in Nat /\ SlotLen \div 2 \in Nat
      BY <1>1, SlotsAssumption
    <3>2. slot * SlotLen + SlotLen \div 2 \in Nat
      BY <3>1
    <3>. QED  BY <1>1, <3>2 DEF TimeToMidpoint
  <2>2. View(n) \in SUBSET Node
    BY <1>0 DEF TypeOK, View
  <2>. QED  BY <1>0, <2>1, <2>2 DEF Handler
<1>3. /\ handlers' \in [Node -> SUBSET Handler]
      /\ \A m \in Node : m # n => handlers'[m] = handlers[m]
      /\ \A h \in handlers'[n] : h \in handlers[n] \/ (h = new /\ ValidatorForSlot(n, CurrentSlot(n)) = n)
  BY <1>0, <1>2 DEF TypeOK
<1>4. /\ monitor'[n] = Asleep(n) /\ lastSlot'[n] = slot
      /\ \A m \in Node : m # n => monitor'[m] = monitor[m] /\ lastSlot'[m] = lastSlot[m]
      /\ monitor'[n].pc = "sleep" /\ monitor'[n].left = TimeToNextSlot(n)
  BY <1>0 DEF TypeOK, Asleep
<1>5. monitor' \in [Node -> [pc : {"sleep", "weather", "check"}, slot : 0..MaxSlot, left : 0..SlotLen]]
  <2>1. Asleep(n) \in [pc : {"sleep", "weather", "check"}, slot : 0..MaxSlot, left : 0..SlotLen]
    BY <1>1, SlotsAssumption DEF Asleep
  <2>. QED  BY <1>0, <2>1 DEF TypeOK
<1>6. TypeOK'
  BY <1>0, <1>3, <1>5, SlotsAssumption DEF TypeOK, Slot
<1>7. WorkOK'
  BY <1>0, <1>4 DEF WorkOK, CurrentSlot
<1>8. ChoiceOK'
  <2>1. OnTime /\ ValidatorForSlot(n, CurrentSlot(n)) = n => n = Chosen(new.view, new.slot)
    BY <1>0 DEF ValidatorForSlot, Participants, Chosen
  <2>. QED  BY <1>3, <2>1 DEF IInv, ChoiceOK
<1>. HIDE DEF new
<1>9. new.slot = slot
  BY DEF new
<1>10. ASSUME OnTime, SmallCorrections
       PROVE  /\ slot > lastSlot[n]
              /\ \A h \in handlers[n] : h.slot < slot
              /\ \A b \in created : b.by = n => b.slot < slot
  <2>1. lastSlot[n] \in Nat /\ \A h \in handlers[n] : h.slot \in Nat
    BY <1>0, SlotsAssumption DEF TypeOK, Handler, Slot
  <2>2. \A b \in created : b.slot \in Nat
    BY <1>0 DEF TypeOK, Slot
  <2>3. /\ slot > lastSlot[n]
        /\ \A h \in handlers[n] : h.slot <= lastSlot[n]
        /\ \A b \in created : b.by = n => b.slot <= lastSlot[n]
    BY <1>10 DEF IInv, AdvanceOK
  <2>. QED  BY <1>1, <2>1, <2>2, <2>3
<1>11. AdvanceOK'
  <2>. SUFFICES ASSUME OnTime, SmallCorrections, NEW m \in Node
                PROVE  /\ monitor'[m].pc = "sleep" =>
                            clock[m] + monitor'[m].left + adjusted[m] >= (lastSlot'[m] + 1) * SlotLen
                       /\ monitor'[m].pc # "sleep" => monitor'[m].slot > lastSlot'[m]
                       /\ \A h \in handlers'[m] : h.slot <= lastSlot'[m]
                       /\ \A b \in created : b.by = m => b.slot <= lastSlot'[m]
    BY DEF AdvanceOK, SmallCorrections
  <2>1. CASE m # n
    BY <1>3, <1>4, <2>1 DEF IInv, AdvanceOK
  <2>2. CASE m = n
    <3>1. clock[n] + monitor'[n].left + adjusted[n] >= (lastSlot'[n] + 1) * SlotLen
      <4>. DEFINE p == (CurrentSlot(n) + 1) * SlotLen
      <4>1. clock[n] + TimeToNextSlot(n) = p /\ p \in Int
        BY <1>1
      <4>2. p = (lastSlot'[n] + 1) * SlotLen
        BY <1>0, <1>4
      <4>. HIDE DEF p
      <4>3. clock[n] + monitor'[n].left + adjusted[n] >= p
        BY <1>1, <1>4, <4>1, SlotsAssumption
      <4>. QED  BY <4>2, <4>3
    <3>2. \A h \in handlers[n] : h.slot \in Nat
      BY <1>0 DEF TypeOK, Handler, Slot
    <3>3. \A b \in created : b.slot \in Nat
      BY <1>0 DEF TypeOK, Slot
    <3>4. \A h \in handlers'[n] : h.slot <= lastSlot'[n]
      BY <1>1, <1>3, <1>4, <1>9, <1>10, <3>2
    <3>5. \A b \in created : b.by = n => b.slot <= lastSlot'[n]
      BY <1>1, <1>4, <1>10, <3>3
    <3>. QED  BY <1>4, <2>2, <3>1, <3>4, <3>5
  <2>. QED  BY <2>1, <2>2
<1>12. OncePerSlot'
  <2>. SUFFICES ASSUME OnTime, SmallCorrections
                PROVE  OneBlockPerSlot'
    BY DEF OncePerSlot, SmallCorrections
  <2>1. OneBlockPerSlot
    BY DEF IInv, OncePerSlot
  <2>2. /\ \A h \in handlers[n] : h.slot # slot
        /\ \A b \in created : b.by = n => b.slot # slot
    <3>1. \A h \in handlers[n] : h.slot \in Nat
      BY <1>0 DEF TypeOK, Handler, Slot
    <3>2. \A b \in created : b.slot \in Nat
      BY <1>0 DEF TypeOK, Slot
    <3>. QED  BY <1>1, <1>10, <3>1, <3>2
  <2>3. \A m \in Node : \A h, k \in handlers'[m] : h.slot = k.slot => h = k
    BY <1>3, <1>9, <2>1, <2>2 DEF OneBlockPerSlot
  <2>4. \A m \in Node : \A h \in handlers'[m], b \in created' : b.by = m => b.slot # h.slot
    BY <1>3, <1>9, <2>1, <2>2 DEF OneBlockPerSlot
  <2>. QED  BY <2>1, <2>3, <2>4 DEF OneBlockPerSlot
<1>13. HistoryOK'
  BY SameHistory
<1>. QED  BY <1>6, <1>7, <1>8, <1>11, <1>12, <1>13 DEF IInv

LEMMA CreateKeeps ==
  ASSUME IInv, NEW n \in Node, Create(n)
  PROVE  IInv'
<1>. USE DEF Create
<1>0. TypeOK
  BY DEF IInv
<1>1. PICK h \in handlers[n] :
         /\ handlers' = [handlers EXCEPT ![n] = @ \ {h}]
         /\ created' = created \cup {[by |-> n, slot |-> h.slot, view |-> h.view]}
         /\ UNCHANGED <<clock, adjusted, peers, monitor, lastSlot, weather, sent, received>>
  OBVIOUS
<1>. DEFINE block == [by |-> n, slot |-> h.slot, view |-> h.view]
<1>2. h \in Handler /\ block \in [by : Node, slot : Slot, view : SUBSET Node]
  BY <1>0 DEF TypeOK, Handler
<1>3. /\ \A m \in Node : m # n => handlers'[m] = handlers[m]
      /\ handlers'[n] = handlers[n] \ {h}
      /\ block.by = n /\ block.slot = h.slot /\ block.view = h.view
      /\ created' = created \cup {block}
  BY <1>0, <1>1 DEF TypeOK
<1>. HIDE DEF block
<1>4. TypeOK'
  BY <1>0, <1>1, <1>2, <1>3 DEF TypeOK
<1>5. WorkOK' /\ HistoryOK'
  BY <1>1, SameHistory DEF IInv, WorkOK, CurrentSlot
<1>6. ChoiceOK'
  BY <1>3 DEF IInv, ChoiceOK
<1>7. AdvanceOK'
  BY <1>1, <1>3 DEF IInv, AdvanceOK, SmallCorrections
<1>8. OncePerSlot'
  <2>. SUFFICES ASSUME OnTime, SmallCorrections
                PROVE  OneBlockPerSlot'
    BY DEF OncePerSlot, SmallCorrections
  <2>1. OneBlockPerSlot
    BY DEF IInv, OncePerSlot
  <2>2. \A m \in Node : \A k, l \in handlers'[m] : k.slot = l.slot => k = l
    BY <1>3, <2>1 DEF OneBlockPerSlot
  <2>3. \A m \in Node : \A k \in handlers'[m], b \in created' : b.by = m => b.slot # k.slot
    BY <1>3, <2>1 DEF OneBlockPerSlot
  <2>4. \A m \in Node : \A b, c \in created' : b.by = m /\ c.by = m /\ b.slot = c.slot => b = c
    BY <1>3, <2>1 DEF OneBlockPerSlot
  <2>. QED  BY <2>2, <2>3, <2>4 DEF OneBlockPerSlot
<1>. QED  BY <1>4, <1>5, <1>6, <1>7, <1>8 DEF IInv

LEMMA DeliverKeeps ==
  ASSUME IInv, NEW m \in sent, Deliver(m)
  PROVE  IInv'
<1>. USE DEF Deliver
<1>1. TypeOK /\ HistoryOK /\ m.to \in Node /\ m.slot \in Slot /\ m.from \in Node
  BY DEF IInv, TypeOK, Message
<1>2. /\ weather' \in [Node -> [Slot -> SUBSET Node]]
      /\ received' \in [Node -> SUBSET (Slot \X Node)]
      /\ HistoryOK'
  BY <1>1, ReportArrives
<1>3. TypeOK'
  BY <1>1, <1>2 DEF TypeOK
<1>4. WorkOK' /\ ChoiceOK' /\ AdvanceOK' /\ OncePerSlot'
  BY DEF IInv, WorkOK, CurrentSlot, ChoiceOK, AdvanceOK, OncePerSlot, OneBlockPerSlot, SmallCorrections
<1>. QED  BY <1>2, <1>3, <1>4 DEF IInv

LEMMA StutterKeeps == IInv /\ UNCHANGED vars => IInv'
<1>. SUFFICES ASSUME IInv, UNCHANGED vars PROVE IInv'
  OBVIOUS
<1>. USE DEF vars
<1>1. TypeOK' /\ WorkOK' /\ HistoryOK'
  BY SameHistory DEF IInv, TypeOK, WorkOK, CurrentSlot
<1>2. ChoiceOK' /\ AdvanceOK' /\ OncePerSlot'
  BY DEF IInv, ChoiceOK, AdvanceOK, OncePerSlot, OneBlockPerSlot, SmallCorrections
<1>. QED  BY <1>1, <1>2 DEF IInv

LEMMA NextKeeps == IInv /\ [Next]_vars => IInv'
BY TickKeeps, AdjustKeeps, DiscoverKeeps, WakeKeeps, ReportKeeps, CheckKeeps, CreateKeeps,
   DeliverKeeps, StutterKeeps DEF Next, Time, Work

LEMMA Invariance == Spec => []IInv
BY InitIInv, NextKeeps, PTL DEF Spec

------------------------------------------------------------------------------
(* Clocks, sleeps, handlers and reports keep their types; a sleep is never *)
(* longer than a slot.                                                     *)
THEOREM SlotsTypeCorrect == Spec => []TypeOK
BY Invariance, PTL DEF IInv

(* If the work at a slot's start ends within the slot, the nodes that see  *)
(* the same participants never create two blocks for a slot: for any number*)
(* of nodes, any hash, any skew and any corrections of the clocks.         *)
THEOREM AlwaysOneCreatorPerView ==
  ASSUME OnTime
  PROVE  Spec => []OneCreatorPerView
<1>1. IInv => OneCreatorPerView
  <2>. SUFFICES ASSUME IInv, NEW b \in created, NEW c \in created, b.slot = c.slot, b.view = c.view
                PROVE  b = c
    BY DEF OneCreatorPerView
  <2>1. b.by = c.by
    BY DEF IInv, ChoiceOK
  <2>2. b \in [by : Node, slot : Slot, view : SUBSET Node] /\ c \in [by : Node, slot : Slot, view : SUBSET Node]
    BY DEF IInv, TypeOK
  <2>. QED  BY <2>1, <2>2
<1>. QED  BY <1>1, Invariance, PTL

(* If, besides, the corrections set a clock back by no more than a slot, a *)
(* node starts one try at the block of a slot in all.                      *)
THEOREM AlwaysOneBlockPerSlot ==
  ASSUME OnTime, SmallCorrections
  PROVE  Spec => []OneBlockPerSlot
<1>1. IInv => OneBlockPerSlot
  BY DEF IInv, OncePerSlot
<1>. QED  BY <1>1, Invariance, PTL

(* Under the same conditions the monitor never goes back to a slot.        *)
THEOREM AlwaysSlotsOnlyAdvance ==
  ASSUME OnTime, SmallCorrections
  PROVE  Spec => SlotsOnlyAdvance
<1>1. ASSUME IInv, [Next]_vars
      PROVE  [\A n \in Node : lastSlot'[n] >= lastSlot[n]]_lastSlot
  <2>1. CASE UNCHANGED lastSlot
    BY <2>1
  <2>2. ASSUME NEW n \in Node, Check(n)
        PROVE  \A m \in Node : lastSlot'[m] >= lastSlot[m]
    <3>1. /\ lastSlot' = [lastSlot EXCEPT ![n] = monitor[n].slot]
          /\ monitor[n].slot > lastSlot[n]
      BY <1>1, <2>2 DEF Check, IInv, AdvanceOK
    <3>2. lastSlot \in [Node -> 0..MaxSlot] /\ MaxSlot \in Nat /\ monitor[n].slot \in 0..MaxSlot
      BY <1>1, SlotsAssumption DEF IInv, TypeOK
    <3>. QED  BY <3>1, <3>2
  <2>3. UNCHANGED lastSlot \/ \E n \in Node : Check(n)
    BY <1>1 DEF Next, Time, Work, Tick, Adjust, Discover, Wake, Report, Create, Deliver, vars
  <2>. QED  BY <2>1, <2>2, <2>3
<1>. QED  BY <1>1, Invariance, PTL DEF Spec, SlotsOnlyAdvance

(* The cleaning leaves a handler the reports of its slot: one slot of the  *)
(* history is enough reserve for corrections of up to a slot.              *)
THEOREM AlwaysReportsAreKept ==
  ASSUME SmallCorrections
  PROVE  Spec => []ReportsAreKept
<1>1. ASSUME IInv
      PROVE  ReportsAreKept
  <2>0. /\ \A n \in Node : /\ clock[n] \in Nat /\ CurrentSlot(n) \in Nat
                            /\ adjusted[n] \in Nat /\ adjusted[n] <= SlotLen
        /\ \A n \in Node : \A h \in handlers[n] : h.slot \in Nat /\ h.slot \in Slot
        /\ MaxSlotHistory \in Nat /\ SlotLen \in Nat
    <3>1. TypeOK
      BY <1>1 DEF IInv
    <3>2. \A n \in Node : clock[n] \in Nat /\ CurrentSlot(n) \in Nat
      BY <3>1, ClockInSlots DEF Slot
    <3>3. \A n \in Node : adjusted[n] \in Nat /\ adjusted[n] <= SlotLen
      BY <3>1, SlotsAssumption DEF TypeOK, SmallCorrections
    <3>4. \A n \in Node : \A h \in handlers[n] : h.slot \in Nat /\ h.slot \in Slot
      BY <3>1 DEF TypeOK, Handler, Slot
    <3>. QED  BY <3>2, <3>3, <3>4, SlotsAssumption
  <2>. SUFFICES ASSUME NEW n \in Node, NEW h \in handlers[n],
                       CurrentSlot(n) <= h.slot + MaxSlotHistory - 2,
                       clock[n] + adjusted[n] >= (h.slot + MaxSlotHistory) * SlotLen
                PROVE  FALSE
    BY <1>1, <2>0 DEF IInv, HistoryOK, Arrived, ReportsAreKept
  <2>1. /\ h.slot \in Nat /\ MaxSlotHistory \in Nat /\ SlotLen \in Nat
        /\ clock[n] \in Nat /\ CurrentSlot(n) \in Nat
        /\ adjusted[n] \in Nat /\ adjusted[n] <= SlotLen
    BY <2>0
  <2>. DEFINE s == h.slot + MaxSlotHistory - 1
              p == s * SlotLen
  <2>2. s \in Int /\ p \in Int /\ (h.slot + MaxSlotHistory) * SlotLen = p + SlotLen
    BY <2>1
  <2>3. ~(s <= CurrentSlot(n))
    BY <2>1
  <2>4. ~(p <= clock[n])
    BY <2>1, <2>2, <2>3, SlotOrder DEF CurrentSlot
  <2>. HIDE DEF p, s
  <2>5. clock[n] + adjusted[n] >= p + SlotLen
    BY <2>2
  <2>. QED  BY <2>1, <2>2, <2>4, <2>5
<1>. QED  BY <1>1, Invariance, PTL
=============================================================================
