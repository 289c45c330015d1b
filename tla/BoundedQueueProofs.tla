------------------------- MODULE BoundedQueueProofs -------------------------
(***************************************************************************)
(* The bounded queue is right for any number of producers and consumers,   *)
(* any size of the array and any number of rounds: its indices, its mutex, *)
(* the wakeups, and the order in which the numbers come out.               *)
(***************************************************************************)
EXTENDS BoundedQueue, FiniteSetTheorems, TLAPS

\* The invariant without the wakeups, and then with them.
BaseInv == TypeOK /\ PhaseInv /\ MutexInv /\ IndexInv

-----------------------------------------------------------------------------
(* Arithmetic of the indices.                                              *)

LEMMA Below == ASSUME NEW C \in Nat \ {0}, NEW x \in 0 .. C - 1 PROVE x % C = x
OBVIOUS

LEMMA Above == ASSUME NEW C \in Nat \ {0}, NEW x \in C .. 2 * C - 1 PROVE x % C = x - C
OBVIOUS

\* An index that is increased modularly stays a slot.
LEMMA NextSlot ==
    ASSUME NEW s \in Slots
    PROVE  (s + 1) % Capacity = IF s + 1 = Capacity THEN 0 ELSE s + 1
<1> USE QueueAssumption DEF Slots
<1>1. CASE s + 1 = Capacity BY <1>1, Above
<1>2. CASE s + 1 # Capacity BY <1>2, Below
<1>3. QED BY <1>1, <1>2

\* The slot that is k behind slot s.
LEMMA SlotAt ==
    ASSUME NEW s \in Slots, NEW k \in 0 .. Capacity
    PROVE  (s + k) % Capacity = IF s + k < Capacity THEN s + k ELSE s + k - Capacity
<1> USE QueueAssumption DEF Slots
<1>1. CASE s + k < Capacity BY <1>1, Below
<1>2. CASE ~(s + k < Capacity) BY <1>2, Above
<1>3. QED BY <1>1, <1>2

-----------------------------------------------------------------------------
(* The invariant, one conjunct after the other.                            *)

LEMMA InitBaseInv == Init => BaseInv
<1> SUFFICES ASSUME Init PROVE BaseInv OBVIOUS
<1> USE QueueAssumption DEF Init
<1>1. TypeOK
  <2>1. put_index \in Slots /\ get_index \in Slots /\ length \in 0 .. Capacity BY DEF Slots
  <2>2. data \in [Slots -> Nat] BY DEF Slots
  <2>3. pc \in [Threads -> Labels] BY DEF Labels
  <2>4. i \in [Threads -> 0 .. Loops] OBVIOUS
  <2>5. QED BY <2>1, <2>2, <2>3, <2>4 DEF TypeOK
<1>2. PhaseInv BY DEF PhaseInv
<1>3. MutexInv BY DEF MutexInv
<1>4. IndexInv BY Below DEF IndexInv
<1>5. QED BY <1>1, <1>2, <1>3, <1>4 DEF BaseInv

LEMMA TypeStep == ASSUME BaseInv, [Next]_vars PROVE TypeOK'
<1> USE QueueAssumption DEF BaseInv, TypeOK
<1>1. CASE UNCHANGED vars BY <1>1 DEF vars, queue, conds
<1>2. ASSUME NEW t \in Threads, Lock(t) \/ Wake(t) \/ Unlock(t) PROVE TypeOK'
  BY <1>2 DEF Lock, Wake, Unlock, Go, PhaseInv, queue, conds, Labels
<1>3. ASSUME NEW t \in Producers, WaitNotFull(t) \/ SignalNotEmpty(t) PROVE TypeOK'
  BY <1>3 DEF WaitNotFull, SignalNotEmpty, Go, queue, conds, Labels, Threads
<1>4. ASSUME NEW t \in Consumers, WaitNotEmpty(t) \/ SignalNotFull(t) PROVE TypeOK'
  BY <1>4 DEF WaitNotEmpty, SignalNotFull, Go, queue, conds, Labels, Threads
<1>5. ASSUME NEW t \in Producers, Put(t) PROVE TypeOK'
  BY <1>5, NextSlot DEF Put, Go, conds, Labels, Slots, Threads
<1>6. ASSUME NEW t \in Consumers, Get(t) PROVE TypeOK'
  BY <1>6, NextSlot DEF Get, Go, conds, Labels, Slots, Threads
<1>7. ASSUME NEW t \in Threads, Spurious(t) PROVE TypeOK'
  BY <1>7 DEF Spurious, queue
<1>8. CASE Delete BY <1>8 DEF Delete, queue, conds
<1>9. QED BY <1>1, <1>2, <1>3, <1>4, <1>5, <1>6, <1>7, <1>8 DEF Next, Thread, Produce, Consume

LEMMA PhaseStep == ASSUME BaseInv, [Next]_vars PROVE PhaseInv'
<1> USE QueueAssumption DEF BaseInv, TypeOK, PhaseInv
<1>1. CASE UNCHANGED vars BY <1>1 DEF vars, queue, conds
<1>2. ASSUME NEW t \in Threads, Lock(t) \/ Wake(t) PROVE PhaseInv'
  BY <1>2 DEF Lock, Wake, Go, conds, Threads
<1>3. ASSUME NEW t \in Threads, Unlock(t) PROVE PhaseInv'
  BY <1>3 DEF Unlock, Go, conds, Threads
<1>4. ASSUME NEW t \in Producers, WaitNotFull(t) \/ SignalNotEmpty(t) \/ Put(t) PROVE PhaseInv'
  BY <1>4 DEF WaitNotFull, SignalNotEmpty, Put, Go, conds, Threads
<1>5. ASSUME NEW t \in Consumers, WaitNotEmpty(t) \/ SignalNotFull(t) \/ Get(t) PROVE PhaseInv'
  BY <1>5 DEF WaitNotEmpty, SignalNotFull, Get, Go, conds, Threads
<1>6. ASSUME NEW t \in Threads, Spurious(t) PROVE PhaseInv'
  BY <1>6 DEF Spurious
<1>7. CASE Delete BY <1>7 DEF Delete, conds
<1>8. QED BY <1>1, <1>2, <1>3, <1>4, <1>5, <1>6, <1>7 DEF Next, Thread, Produce, Consume

LEMMA MutexStep == ASSUME BaseInv, [Next]_vars PROVE MutexInv'
<1> USE QueueAssumption DEF BaseInv, TypeOK, MutexInv
<1>1. CASE UNCHANGED vars BY <1>1 DEF vars
<1>2. ASSUME NEW t \in Threads, Lock(t) \/ Wake(t) PROVE MutexInv'
  BY <1>2 DEF Lock, Wake, Go
<1>3. ASSUME NEW t \in Threads, Unlock(t) PROVE MutexInv'
  BY <1>3 DEF Unlock, Go
<1>4. ASSUME NEW t \in Producers, WaitNotFull(t) \/ SignalNotEmpty(t) \/ Put(t) PROVE MutexInv'
  BY <1>4 DEF WaitNotFull, SignalNotEmpty, Put, Go, Threads
<1>5. ASSUME NEW t \in Consumers, WaitNotEmpty(t) \/ SignalNotFull(t) \/ Get(t) PROVE MutexInv'
  BY <1>5 DEF WaitNotEmpty, SignalNotFull, Get, Go, Threads
<1>6. ASSUME NEW t \in Threads, Spurious(t) PROVE MutexInv'
  BY <1>6 DEF Spurious
<1>7. CASE Delete BY <1>7 DEF Delete
<1>8. QED BY <1>1, <1>2, <1>3, <1>4, <1>5, <1>6, <1>7 DEF Next, Thread, Produce, Consume

LEMMA IndexStep == ASSUME BaseInv, [Next]_vars PROVE IndexInv'
<1> USE QueueAssumption DEF BaseInv
<1>1. CASE UNCHANGED queue BY <1>1 DEF queue, IndexInv
<1>2. ASSUME NEW t \in Producers, Put(t) PROVE IndexInv'
  <2>1. /\ put_index \in Slots /\ get_index \in Slots /\ length \in 0 .. Capacity - 1
        /\ put_index' = (put_index + 1) % Capacity
        /\ length' = length + 1 /\ get_index' = get_index
    BY <1>2 DEF Put, TypeOK
  <2>2. put_index' = IF put_index + 1 = Capacity THEN 0 ELSE put_index + 1
    BY <2>1, NextSlot
  <2>3. put_index = IF get_index + length < Capacity THEN get_index + length
                    ELSE get_index + length - Capacity
    <3>1. length \in 0 .. Capacity BY <2>1
    <3>2. QED BY <2>1, <3>1, SlotAt DEF IndexInv
  <2>4. (get_index + (length + 1)) % Capacity =
            IF get_index + (length + 1) < Capacity THEN get_index + (length + 1)
            ELSE get_index + (length + 1) - Capacity
    BY <2>1, SlotAt
  <2>5. QED BY <2>1, <2>2, <2>3, <2>4 DEF IndexInv, Slots
<1>3. ASSUME NEW t \in Consumers, Get(t) PROVE IndexInv'
  <2>1. /\ put_index \in Slots /\ get_index \in Slots /\ length \in 1 .. Capacity
        /\ get_index' = (get_index + 1) % Capacity /\ get_index' \in Slots
        /\ length' = length - 1 /\ put_index' = put_index
    BY <1>3, NextSlot DEF Get, TypeOK, Slots
  <2>2. get_index' = IF get_index + 1 = Capacity THEN 0 ELSE get_index + 1
    BY <2>1, NextSlot
  <2>3. put_index = IF get_index + length < Capacity THEN get_index + length
                    ELSE get_index + length - Capacity
    <3>1. length \in 0 .. Capacity BY <2>1
    <3>2. QED BY <2>1, <3>1, SlotAt DEF IndexInv
  <2>4. (get_index' + (length - 1)) % Capacity =
            IF get_index' + (length - 1) < Capacity THEN get_index' + (length - 1)
            ELSE get_index' + (length - 1) - Capacity
    <3>1. length - 1 \in 0 .. Capacity BY <2>1
    <3>2. QED BY <2>1, <3>1, SlotAt
  <2>5. QED BY <2>1, <2>2, <2>3, <2>4 DEF IndexInv, Slots
<1>4. QED
  BY <1>1, <1>2, <1>3 DEF Next, vars, Thread, Produce, Consume, Lock, Wake, Unlock, WaitNotFull,
     WaitNotEmpty, SignalNotFull, SignalNotEmpty, Spurious, Delete

LEMMA BaseStep == ASSUME BaseInv, [Next]_vars PROVE BaseInv'
BY TypeStep, PhaseStep, MutexStep, IndexStep DEF BaseInv

-----------------------------------------------------------------------------
(* Wakeups: how many threads there are that will move an item.             *)

LEMMA Grow ==
    ASSUME NEW S \in SUBSET Threads, NEW R \in SUBSET Threads, S \subseteq R
    PROVE  /\ Cardinality(S) \in Nat /\ Cardinality(R) \in Nat
           /\ Cardinality(S) <= Cardinality(R)
<1>1. IsFiniteSet(S) /\ IsFiniteSet(R) BY QueueAssumption, FS_Subset
<1>2. QED BY <1>1, FS_Subset, FS_CardinalityType

LEMMA GrowByOne ==
    ASSUME NEW S \in SUBSET Threads, NEW R \in SUBSET Threads, NEW t \in R, S \subseteq R \ {t}
    PROVE  Cardinality(S) + 1 <= Cardinality(R)
<1>1. IsFiniteSet(R) BY QueueAssumption, FS_Subset
<1>2. Cardinality(R \ {t}) = Cardinality(R) - 1 BY <1>1, FS_RemoveElement
<1>3. Cardinality(S) <= Cardinality(R \ {t}) /\ Cardinality(S) \in Nat BY Grow
<1>4. Cardinality(R) \in Nat BY <1>1, FS_CardinalityType
<1>5. QED BY <1>2, <1>3, <1>4

LEMMA ShrinkByOne ==
    ASSUME NEW S \in SUBSET Threads, NEW R \in SUBSET Threads, NEW t, S \ {t} \subseteq R
    PROVE  Cardinality(S) <= Cardinality(R) + 1
<1>1. IsFiniteSet(S) BY QueueAssumption, FS_Subset
<1>2. Cardinality(S) <= Cardinality(S \ {t}) + 1 /\ Cardinality(S) \in Nat
  <2>1. Cardinality(S) \in Nat BY <1>1, FS_CardinalityType
  <2>2. Cardinality(S \ {t}) = IF t \in S THEN Cardinality(S) - 1 ELSE Cardinality(S)
    BY <1>1, FS_RemoveElement
  <2>3. QED BY <2>1, <2>2
<1>3. Cardinality(S \ {t}) <= Cardinality(R) /\ Cardinality(R) \in Nat /\ Cardinality(S \ {t}) \in Nat
  BY Grow
<1>4. QED BY <1>2, <1>3

Getters      == Eager(Consumers, not_empty)
Putters      == Eager(Producers, not_full)
PutSignals   == Signalling(Producers)
GetSignals   == Signalling(Consumers)

LEMMA GroupTypes ==
    /\ {Getters, Putters, PutSignals, GetSignals} \subseteq SUBSET Threads
    /\ {Getters', Putters', PutSignals', GetSignals'} \subseteq SUBSET Threads
BY DEF Getters, Putters, PutSignals, GetSignals, Eager, Signalling, Threads

\* A step that moves no item and gives no signal.
LEMMA QuietStep ==
    ASSUME TypeOK, WakeInv, length' = length,
           not_empty' # {} => not_empty # {}, not_full' # {} => not_full # {},
           Getters \subseteq Getters', Putters \subseteq Putters',
           PutSignals \subseteq PutSignals', GetSignals \subseteq GetSignals'
    PROVE  WakeInv'
<1>1. /\ Cardinality(Getters) <= Cardinality(Getters')
      /\ Cardinality(Getters) \in Nat /\ Cardinality(Getters') \in Nat
  BY GroupTypes, Grow
<1>2. /\ Cardinality(Putters) <= Cardinality(Putters')
      /\ Cardinality(Putters) \in Nat /\ Cardinality(Putters') \in Nat
  BY GroupTypes, Grow
<1>3. /\ Cardinality(PutSignals) <= Cardinality(PutSignals')
      /\ Cardinality(PutSignals) \in Nat /\ Cardinality(PutSignals') \in Nat
  BY GroupTypes, Grow
<1>4. /\ Cardinality(GetSignals) <= Cardinality(GetSignals')
      /\ Cardinality(GetSignals) \in Nat /\ Cardinality(GetSignals') \in Nat
  BY GroupTypes, Grow
<1>5. length \in Nat /\ Capacity \in Nat BY QueueAssumption DEF TypeOK
<1>6. not_empty' # {} => length' <= Cardinality(Getters') + Cardinality(PutSignals')
  BY <1>1, <1>3, <1>5 DEF WakeInv, Getters, PutSignals
<1>7. not_full' # {} => Capacity - length' <= Cardinality(Putters') + Cardinality(GetSignals')
  BY <1>2, <1>4, <1>5 DEF WakeInv, Putters, GetSignals
<1>8. QED BY <1>6, <1>7 DEF WakeInv, Getters, Putters, PutSignals, GetSignals

\* The groups are counted before a step and after it.
LEMMA NumberTypes ==
    /\ Cardinality(Getters) \in Nat /\ Cardinality(Getters') \in Nat
    /\ Cardinality(Putters) \in Nat /\ Cardinality(Putters') \in Nat
    /\ Cardinality(PutSignals) \in Nat /\ Cardinality(PutSignals') \in Nat
    /\ Cardinality(GetSignals) \in Nat /\ Cardinality(GetSignals') \in Nat
BY GroupTypes, Grow

\* Steps of the mutex and of the loop, and wakeups.
LEMMA QuietSteps ==
    ASSUME BaseInv, WakeInv,
           \/ UNCHANGED vars \/ Delete
           \/ \E t \in Threads : Lock(t) \/ Wake(t) \/ Unlock(t) \/ Spurious(t)
    PROVE  WakeInv'
<1> USE QueueAssumption DEF BaseInv, TypeOK, PhaseInv, Getters, Putters, PutSignals, GetSignals,
        Eager, Signalling, Threads
<1>1. CASE UNCHANGED vars BY <1>1, QuietStep DEF vars, queue, conds
<1>2. CASE Delete BY <1>2, QuietStep DEF Delete, queue, conds
<1>3. ASSUME NEW t \in Threads, Lock(t) \/ Wake(t) PROVE WakeInv'
  BY <1>3, QuietStep DEF Lock, Wake, Go, queue, conds
<1>4. ASSUME NEW t \in Threads, Unlock(t) PROVE WakeInv'
  BY <1>4, QuietStep DEF Unlock, Go, queue, conds
<1>5. ASSUME NEW t \in Threads, Spurious(t) PROVE WakeInv'
  BY <1>5, QuietStep DEF Spurious, queue
<1>6. QED BY <1>1, <1>2, <1>3, <1>4, <1>5

\* A producer goes to sleep when there is no room.
LEMMA WaitNotFullStep ==
    ASSUME BaseInv, WakeInv, NEW t \in Producers, WaitNotFull(t)
    PROVE  WakeInv'
<1> USE QueueAssumption DEF BaseInv, TypeOK
<1>1. length' = Capacity /\ not_empty' = not_empty /\ length' = length
  BY DEF WaitNotFull, queue
<1>2. Getters \subseteq Getters' /\ PutSignals \subseteq PutSignals'
  BY DEF WaitNotFull, Go, Getters, PutSignals, Eager, Signalling, Threads
<1>3. not_empty # {} => length <= Cardinality(Getters) + Cardinality(PutSignals)
  BY DEF WakeInv, Getters, PutSignals
<1>4. Cardinality(Getters) <= Cardinality(Getters') /\ Cardinality(PutSignals) <= Cardinality(PutSignals')
  BY <1>2, GroupTypes, Grow
<1>5. /\ not_empty' # {} => length' <= Cardinality(Getters') + Cardinality(PutSignals')
      /\ Capacity - length' <= Cardinality(Putters') + Cardinality(GetSignals')
  BY <1>1, <1>3, <1>4, NumberTypes
<1>6. QED BY <1>5 DEF WakeInv, Getters, Putters, PutSignals, GetSignals

\* A consumer goes to sleep when there is no item.
LEMMA WaitNotEmptyStep ==
    ASSUME BaseInv, WakeInv, NEW t \in Consumers, WaitNotEmpty(t)
    PROVE  WakeInv'
<1> USE QueueAssumption DEF BaseInv, TypeOK
<1>1. length' = 0 /\ not_full' = not_full /\ length' = length
  BY DEF WaitNotEmpty, queue
<1>2. Putters \subseteq Putters' /\ GetSignals \subseteq GetSignals'
  BY DEF WaitNotEmpty, Go, Putters, GetSignals, Eager, Signalling, Threads
<1>3. not_full # {} => Capacity - length <= Cardinality(Putters) + Cardinality(GetSignals)
  BY DEF WakeInv, Putters, GetSignals
<1>4. Cardinality(Putters) <= Cardinality(Putters') /\ Cardinality(GetSignals) <= Cardinality(GetSignals')
  BY <1>2, GroupTypes, Grow
<1>5. /\ length' <= Cardinality(Getters') + Cardinality(PutSignals')
      /\ not_full' # {} => Capacity - length' <= Cardinality(Putters') + Cardinality(GetSignals')
  BY <1>1, <1>3, <1>4, NumberTypes
<1>6. QED BY <1>5 DEF WakeInv, Getters, Putters, PutSignals, GetSignals

\* An item more is a producer more that is about to signal.
LEMMA PutStep ==
    ASSUME BaseInv, WakeInv, NEW t \in Producers, Put(t)
    PROVE  WakeInv'
<1> USE QueueAssumption DEF BaseInv, TypeOK
<1>1. length' = length + 1 /\ UNCHANGED conds
  BY DEF Put
<1>2. t \in PutSignals' /\ PutSignals \subseteq PutSignals' \ {t}
  BY DEF Put, Go, PutSignals, Signalling, Threads
<1>3. Getters \subseteq Getters' /\ GetSignals \subseteq GetSignals' /\ Putters \ {t} \subseteq Putters'
  BY DEF Put, Go, conds, Getters, Putters, GetSignals, Eager, Signalling, Threads
<1>4. /\ Cardinality(PutSignals) + 1 <= Cardinality(PutSignals')
      /\ Cardinality(Getters) <= Cardinality(Getters')
      /\ Cardinality(GetSignals) <= Cardinality(GetSignals')
      /\ Cardinality(Putters) <= Cardinality(Putters') + 1
  BY <1>2, <1>3, GroupTypes, Grow, GrowByOne, ShrinkByOne
<1>5. /\ not_empty # {} => length <= Cardinality(Getters) + Cardinality(PutSignals)
      /\ not_full # {} => Capacity - length <= Cardinality(Putters) + Cardinality(GetSignals)
  BY DEF WakeInv, Getters, Putters, PutSignals, GetSignals
<1>6. /\ not_empty' # {} => length' <= Cardinality(Getters') + Cardinality(PutSignals')
      /\ not_full' # {} => Capacity - length' <= Cardinality(Putters') + Cardinality(GetSignals')
  BY <1>1, <1>4, <1>5, NumberTypes DEF conds
<1>7. QED BY <1>6 DEF WakeInv, Getters, Putters, PutSignals, GetSignals

\* An item less is room for one more, and a consumer that is about to signal.
LEMMA GetStep ==
    ASSUME BaseInv, WakeInv, NEW t \in Consumers, Get(t)
    PROVE  WakeInv'
<1> USE QueueAssumption DEF BaseInv, TypeOK
<1>1. length' = length - 1 /\ UNCHANGED conds
  BY DEF Get
<1>2. t \in GetSignals' /\ GetSignals \subseteq GetSignals' \ {t}
  BY DEF Get, Go, GetSignals, Signalling, Threads
<1>3. Putters \subseteq Putters' /\ PutSignals \subseteq PutSignals' /\ Getters \ {t} \subseteq Getters'
  BY DEF Get, Go, conds, Getters, Putters, PutSignals, Eager, Signalling, Threads
<1>4. /\ Cardinality(GetSignals) + 1 <= Cardinality(GetSignals')
      /\ Cardinality(Putters) <= Cardinality(Putters')
      /\ Cardinality(PutSignals) <= Cardinality(PutSignals')
      /\ Cardinality(Getters) <= Cardinality(Getters') + 1
  BY <1>2, <1>3, GroupTypes, Grow, GrowByOne, ShrinkByOne
<1>5. /\ not_empty # {} => length <= Cardinality(Getters) + Cardinality(PutSignals)
      /\ not_full # {} => Capacity - length <= Cardinality(Putters) + Cardinality(GetSignals)
  BY DEF WakeInv, Getters, Putters, PutSignals, GetSignals
<1>6. /\ not_empty' # {} => length' <= Cardinality(Getters') + Cardinality(PutSignals')
      /\ not_full' # {} => Capacity - length' <= Cardinality(Putters') + Cardinality(GetSignals')
  BY <1>1, <1>4, <1>5, NumberTypes DEF conds
<1>7. QED BY <1>6 DEF WakeInv, Getters, Putters, PutSignals, GetSignals

\* The signal of a producer wakes a consumer in its place, if any sleeps.
LEMMA SignalNotEmptyStep ==
    ASSUME BaseInv, WakeInv, NEW t \in Producers, SignalNotEmpty(t)
    PROVE  WakeInv'
<1> USE QueueAssumption DEF BaseInv, TypeOK
<1>1. length' = length /\ not_full' = not_full /\ not_empty' \subseteq not_empty
  BY DEF SignalNotEmpty, queue
<1>2. /\ Putters \subseteq Putters' /\ GetSignals \subseteq GetSignals'
      /\ Getters \subseteq Getters' /\ PutSignals \ {t} \subseteq PutSignals'
  BY DEF SignalNotEmpty, Go, Getters, Putters, PutSignals, GetSignals, Eager, Signalling, Threads
<1>3. /\ Cardinality(Putters) <= Cardinality(Putters')
      /\ Cardinality(GetSignals) <= Cardinality(GetSignals')
      /\ Cardinality(PutSignals) <= Cardinality(PutSignals') + 1
  BY <1>2, GroupTypes, Grow, ShrinkByOne
<1>4. ASSUME not_empty' # {} PROVE Cardinality(Getters) + 1 <= Cardinality(Getters')
  <2>1. PICK w \in not_empty : w \notin not_empty'
    BY <1>4, <1>1 DEF SignalNotEmpty, Signalled
  <2>2. w \in Getters' /\ Getters \subseteq Getters' \ {w}
    BY <2>1, <1>2 DEF SignalNotEmpty, Go, PhaseInv, Getters, Eager, Threads
  <2>3. QED BY <2>2, GroupTypes, GrowByOne
<1>5. /\ not_empty # {} => length <= Cardinality(Getters) + Cardinality(PutSignals)
      /\ not_full # {} => Capacity - length <= Cardinality(Putters) + Cardinality(GetSignals)
  BY DEF WakeInv, Getters, Putters, PutSignals, GetSignals
<1>6. /\ not_empty' # {} => length' <= Cardinality(Getters') + Cardinality(PutSignals')
      /\ not_full' # {} => Capacity - length' <= Cardinality(Putters') + Cardinality(GetSignals')
  BY <1>1, <1>3, <1>4, <1>5, NumberTypes
<1>7. QED BY <1>6 DEF WakeInv, Getters, Putters, PutSignals, GetSignals

\* The signal of a consumer wakes a producer in its place.
LEMMA SignalNotFullStep ==
    ASSUME BaseInv, WakeInv, NEW t \in Consumers, SignalNotFull(t)
    PROVE  WakeInv'
<1> USE QueueAssumption DEF BaseInv, TypeOK
<1>1. length' = length /\ not_empty' = not_empty /\ not_full' \subseteq not_full
  BY DEF SignalNotFull, queue
<1>2. /\ Putters \subseteq Putters' /\ PutSignals \subseteq PutSignals'
      /\ Getters \subseteq Getters' /\ GetSignals \ {t} \subseteq GetSignals'
  BY DEF SignalNotFull, Go, Getters, Putters, PutSignals, GetSignals, Eager, Signalling, Threads
<1>3. /\ Cardinality(Getters) <= Cardinality(Getters')
      /\ Cardinality(PutSignals) <= Cardinality(PutSignals')
      /\ Cardinality(GetSignals) <= Cardinality(GetSignals') + 1
  BY <1>2, GroupTypes, Grow, ShrinkByOne
<1>4. ASSUME not_full' # {} PROVE Cardinality(Putters) + 1 <= Cardinality(Putters')
  <2>1. PICK w \in not_full : w \notin not_full'
    BY <1>4, <1>1 DEF SignalNotFull, Signalled
  <2>2. w \in Putters' /\ Putters \subseteq Putters' \ {w}
    BY <2>1, <1>2 DEF SignalNotFull, Go, PhaseInv, Putters, Eager, Threads
  <2>3. QED BY <2>2, GroupTypes, GrowByOne
<1>5. /\ not_empty # {} => length <= Cardinality(Getters) + Cardinality(PutSignals)
      /\ not_full # {} => Capacity - length <= Cardinality(Putters) + Cardinality(GetSignals)
  BY DEF WakeInv, Getters, Putters, PutSignals, GetSignals
<1>6. /\ not_empty' # {} => length' <= Cardinality(Getters') + Cardinality(PutSignals')
      /\ not_full' # {} => Capacity - length' <= Cardinality(Putters') + Cardinality(GetSignals')
  BY <1>1, <1>3, <1>4, <1>5, NumberTypes
<1>7. QED BY <1>6 DEF WakeInv, Getters, Putters, PutSignals, GetSignals

LEMMA WakeStep == ASSUME BaseInv, WakeInv, [Next]_vars PROVE WakeInv'
<1>1. CASE UNCHANGED vars \/ Delete \/ \E t \in Threads : Lock(t) \/ Wake(t) \/ Unlock(t) \/ Spurious(t)
  BY <1>1, QuietSteps
<1>2. ASSUME NEW t \in Producers, Produce(t) PROVE WakeInv'
  <2>1. CASE WaitNotFull(t) BY <2>1, WaitNotFullStep
  <2>2. CASE Put(t) BY <2>2, PutStep
  <2>3. CASE SignalNotEmpty(t) BY <2>3, SignalNotEmptyStep
  <2>4. QED BY <1>2, <2>1, <2>2, <2>3 DEF Produce
<1>3. ASSUME NEW t \in Consumers, Consume(t) PROVE WakeInv'
  <2>1. CASE WaitNotEmpty(t) BY <2>1, WaitNotEmptyStep
  <2>2. CASE Get(t) BY <2>2, GetStep
  <2>3. CASE SignalNotFull(t) BY <2>3, SignalNotFullStep
  <2>4. QED BY <1>3, <2>1, <2>2, <2>3 DEF Consume
<1>4. QED BY <1>1, <1>2, <1>3 DEF Next, Thread

-----------------------------------------------------------------------------

\* The mutex, the indices and the count of the wakeups are right in every reachable
\* state.
THEOREM Invariance == Spec => []QueueInv
<1>1. Init => QueueInv
  BY InitBaseInv DEF QueueInv, BaseInv, WakeInv, Init
<1>2. QueueInv /\ [Next]_vars => QueueInv'
  BY BaseStep, WakeStep DEF QueueInv, BaseInv
<1>3. QED BY <1>1, <1>2, PTL DEF Spec

\* No signal is lost: who sleeps while there is something for him sleeps only while
\* somebody else is up for it or about to signal.
THEOREM WakeupsKept == Spec => []NoLostWakeup
<1>1. ASSUME QueueInv PROVE NoLostWakeup
  <2>1. ASSUME not_empty # {}, length > 0
        PROVE  (\E c \in Consumers \ not_empty : pc[c] # "exit") \/ \E p \in Producers : pc[p] = "signal"
    <3>1. Getters # {} \/ PutSignals # {}
      <4>1. length <= Cardinality(Getters) + Cardinality(PutSignals)
        BY <1>1, <2>1 DEF QueueInv, WakeInv, Getters, PutSignals
      <4>2. Cardinality(Getters) > 0 \/ Cardinality(PutSignals) > 0
        BY <1>1, <2>1, <4>1, NumberTypes DEF QueueInv, TypeOK
      <4>3. QED BY <4>2, FS_EmptySet
    <3>2. QED BY <3>1 DEF Getters, PutSignals, Eager, Signalling
  <2>2. ASSUME not_full # {}, length < Capacity
        PROVE  (\E p \in Producers \ not_full : pc[p] # "exit") \/ \E c \in Consumers : pc[c] = "signal"
    <3>1. Putters # {} \/ GetSignals # {}
      <4>1. Capacity - length <= Cardinality(Putters) + Cardinality(GetSignals)
        BY <1>1, <2>2 DEF QueueInv, WakeInv, Putters, GetSignals
      <4>2. Cardinality(Putters) > 0 \/ Cardinality(GetSignals) > 0
        BY <1>1, <2>2, <4>1, NumberTypes, QueueAssumption DEF QueueInv, TypeOK
      <4>3. QED BY <4>2, FS_EmptySet
    <3>2. QED BY <3>1 DEF Putters, GetSignals, Eager, Signalling
  <2>3. QED BY <2>1, <2>2 DEF NoLostWakeup
<1>2. QED BY Invariance, <1>1, PTL

-----------------------------------------------------------------------------
(* The refinement of the channel.                                          *)

Buffer   == [k \in 1 .. length |-> data[(get_index + k - 1) % Capacity]]
Sent     == [p \in Producers |-> i[p] + IF pc[p] \in {"signal", "unlock"} THEN 1 ELSE 0]
Received == [c \in Consumers |-> i[c] + IF pc[c] \in {"signal", "unlock"} THEN 1 ELSE 0]

\* The slot of the k-th item, and the items from slot g on.
SlotOf(g, k)     == (g + k - 1) % Capacity
Items(g, l, d)   == [k \in 1 .. l |-> d[SlotOf(g, k)]]

LEMMA SlotOfAt ==
    ASSUME NEW g \in Slots, NEW k \in 1 .. Capacity
    PROVE  SlotOf(g, k) = IF g + k - 1 < Capacity THEN g + k - 1 ELSE g + k - 1 - Capacity
<1> USE QueueAssumption DEF Slots, SlotOf
<1>1. CASE g + k - 1 < Capacity BY <1>1, Below
<1>2. CASE ~(g + k - 1 < Capacity) BY <1>2, Above
<1>3. QED BY <1>1, <1>2

LEMMA ItemsType ==
    ASSUME NEW g \in Slots, NEW l \in 0 .. Capacity, NEW d \in [Slots -> Nat]
    PROVE  Items(g, l, d) \in Seq(Nat) /\ Len(Items(g, l, d)) = l
<1> USE QueueAssumption
<1>1. ASSUME NEW k \in 1 .. l PROVE SlotOf(g, k) \in Slots
  <2>1. k \in 1 .. Capacity OBVIOUS
  <2>2. SlotOf(g, k) = IF g + k - 1 < Capacity THEN g + k - 1 ELSE g + k - 1 - Capacity
    BY <2>1, SlotOfAt
  <2>3. QED BY <2>1, <2>2 DEF Slots
<1>2. \A k \in 1 .. l : d[SlotOf(g, k)] \in Nat
  BY <1>1
<1>3. QED BY <1>2 DEF Items

LEMMA BufferItems == Buffer = Items(get_index, length, data) /\ Buffer' = Items(get_index', length', data')
BY DEF Buffer, Items, SlotOf

\* Put puts the producer's next number at the end of the buffer.
LEMMA PutChannel ==
    ASSUME BaseInv, BaseInv', NEW t \in Producers, Put(t)
    PROVE  Channel!Put(t)
<1> USE QueueAssumption DEF BaseInv
<1>1. /\ length \in 0 .. Capacity - 1 /\ length' = length + 1 /\ get_index' = get_index
      /\ data' = [data EXCEPT ![put_index] = i[t]]
      /\ pc' = [pc EXCEPT ![t] = "signal"] /\ pc[t] = "test" /\ i' = i
      /\ t \in Threads /\ i[t] \in Nat /\ i[t] < Loops /\ put_index \in Slots /\ get_index \in Slots
  BY DEF Put, Go, TypeOK, PhaseInv, Threads
<1>2. \A k \in 1 .. length : SlotOf(get_index, k) # put_index /\ SlotOf(get_index, k) \in Slots
  <2>1. put_index = SlotOf(get_index, length + 1)
    BY <1>1 DEF IndexInv, SlotOf, TypeOK, Slots
  <2>2. length + 1 \in 1 .. Capacity BY <1>1
  <2>3. TAKE k \in 1 .. length
  <2>4. k \in 1 .. Capacity BY <1>1
  <2>5. QED BY <1>1, <2>1, <2>2, <2>4, SlotOfAt DEF Slots
<1>3. Buffer' = Append(Buffer, i[t])
  <2>1. /\ Buffer \in Seq(Nat) /\ Len(Buffer) = length
        /\ Buffer' \in Seq(Nat) /\ Len(Buffer') = length + 1
    BY <1>1, BufferItems, ItemsType DEF TypeOK
  <2>2. ASSUME NEW k \in 1 .. length PROVE Buffer'[k] = Buffer[k]
    <3>1. Buffer[k] = data[SlotOf(get_index, k)] /\ Buffer'[k] = data'[SlotOf(get_index, k)]
      BY <1>1 DEF Buffer, SlotOf
    <3>2. QED BY <1>1, <1>2, <3>1 DEF TypeOK
  <2>3. Buffer'[length + 1] = i[t]
    <3>1. Buffer'[length + 1] = data'[SlotOf(get_index, length + 1)]
      BY <1>1 DEF Buffer, SlotOf
    <3>2. put_index = SlotOf(get_index, length + 1)
      BY <1>1 DEF IndexInv, SlotOf, TypeOK, Slots
    <3>3. QED BY <1>1, <3>1, <3>2 DEF TypeOK
  <2>4. QED BY <1>1, <2>1, <2>2, <2>3
<1>4. Sent' = [Sent EXCEPT ![t] = @ + 1] /\ Sent[t] = i[t]
  <2>1. Sent[t] = i[t] /\ Sent'[t] = i[t] + 1
    BY <1>1 DEF Sent, TypeOK
  <2>2. \A p \in Producers \ {t} : Sent'[p] = Sent[p]
    BY <1>1 DEF Sent, TypeOK, Threads
  <2>3. QED BY <2>1, <2>2 DEF Sent
<1>5. Received' = Received
  BY <1>1 DEF Received, TypeOK, Threads
<1>6. Len(Buffer) < Capacity BY <1>1, BufferItems, ItemsType DEF TypeOK
<1>7. QED BY <1>1, <1>3, <1>4, <1>5, <1>6 DEF Channel!Put, Buffer, Sent, Received

\* Get takes the oldest number out of the buffer.
LEMMA GetChannel ==
    ASSUME BaseInv, BaseInv', NEW t \in Consumers, Get(t)
    PROVE  Channel!Get(t)
<1> USE QueueAssumption DEF BaseInv
<1>1. /\ length \in 1 .. Capacity /\ length' = length - 1
      /\ get_index' = (get_index + 1) % Capacity /\ get_index' \in Slots
      /\ data' = data /\ pc' = [pc EXCEPT ![t] = "signal"] /\ pc[t] = "test" /\ i' = i
      /\ t \in Threads /\ i[t] \in Nat /\ i[t] < Loops /\ get_index \in Slots
  BY DEF Get, Go, TypeOK, PhaseInv, Threads
<1>2. Buffer' = Tail(Buffer)
  <2>1. /\ Buffer \in Seq(Nat) /\ Len(Buffer) = length
        /\ Buffer' \in Seq(Nat) /\ Len(Buffer') = length - 1
    BY <1>1, BufferItems, ItemsType DEF TypeOK
  <2>2. ASSUME NEW k \in 1 .. length - 1 PROVE Buffer'[k] = Buffer[k + 1]
    <3>1. get_index' = IF get_index + 1 = Capacity THEN 0 ELSE get_index + 1
      BY <1>1, NextSlot
    <3>2. k \in 1 .. Capacity /\ k + 1 \in 1 .. Capacity /\ k + 1 \in 1 .. length BY <1>1
    <3>3. SlotOf(get_index', k) = IF get_index' + k - 1 < Capacity THEN get_index' + k - 1
                                  ELSE get_index' + k - 1 - Capacity
      BY <1>1, <3>2, SlotOfAt
    <3>4. SlotOf(get_index, k + 1) = IF get_index + (k + 1) - 1 < Capacity THEN get_index + (k + 1) - 1
                                     ELSE get_index + (k + 1) - 1 - Capacity
      BY <1>1, <3>2, SlotOfAt
    <3>5. SlotOf(get_index', k) = SlotOf(get_index, k + 1)
      BY <1>1, <3>1, <3>2, <3>3, <3>4 DEF Slots
    <3>6. /\ Buffer'[k] = data'[SlotOf(get_index', k)]
          /\ Buffer[k + 1] = data[SlotOf(get_index, k + 1)]
      BY <1>1, <3>2, BufferItems DEF Items
    <3>7. QED BY <1>1, <3>5, <3>6
  <2>3. QED BY <1>1, <2>1, <2>2
<1>3. Received' = [Received EXCEPT ![t] = @ + 1] /\ Received[t] = i[t]
  <2>1. Received[t] = i[t] /\ Received'[t] = i[t] + 1
    BY <1>1 DEF Received, TypeOK
  <2>2. \A c \in Consumers \ {t} : Received'[c] = Received[c]
    BY <1>1 DEF Received, TypeOK, Threads
  <2>3. QED BY <2>1, <2>2 DEF Received
<1>4. Sent' = Sent
  BY <1>1 DEF Sent, TypeOK, Threads
<1>5. Buffer # <<>> BY <1>1, BufferItems, ItemsType DEF TypeOK
<1>6. QED BY <1>1, <1>2, <1>3, <1>4, <1>5 DEF Channel!Get, Buffer, Sent, Received

\* All other steps do not show.
LEMMA StutterChannel ==
    ASSUME BaseInv,
           \/ UNCHANGED vars \/ Delete
           \/ \E t \in Threads : \/ Lock(t) \/ Wake(t) \/ Unlock(t) \/ Spurious(t)
                                 \/ WaitNotFull(t) \/ WaitNotEmpty(t)
                                 \/ SignalNotFull(t) \/ SignalNotEmpty(t)
    PROVE  UNCHANGED Channel!chanVars
<1> USE QueueAssumption DEF BaseInv, TypeOK
<1>1. UNCHANGED <<get_index, length, data>>
  BY DEF vars, queue, Delete, Lock, Wake, Unlock, Spurious, WaitNotFull, WaitNotEmpty,
         SignalNotFull, SignalNotEmpty
<1>2. Sent' = Sent /\ Received' = Received
  BY DEF Sent, Received, Threads, vars, Delete, Lock, Wake, Unlock, Spurious, WaitNotFull,
         WaitNotEmpty, SignalNotFull, SignalNotEmpty, Go
<1>3. QED BY <1>1, <1>2 DEF Channel!chanVars, Sent, Received

\* The queue implements the channel: first in, first out, no number lost or doubled,
\* whatever the threads do.
THEOREM Implementation == Spec => ImplementsChannel
<1>1. Init => Channel!Init
  BY QueueAssumption DEF Init, Channel!Init, Threads
<1>2. ASSUME BaseInv, BaseInv', [Next]_vars PROVE [Channel!Next]_(Channel!chanVars)
  <2>1. ASSUME NEW t \in Producers, Put(t) PROVE Channel!Next
    BY <1>2, <2>1, PutChannel DEF Channel!Next
  <2>2. ASSUME NEW t \in Consumers, Get(t) PROVE Channel!Next
    BY <1>2, <2>2, GetChannel DEF Channel!Next
  <2>3. QED
    BY <1>2, <2>1, <2>2, StutterChannel DEF Next, Thread, Produce, Consume, Threads
<1>3. QueueInv => BaseInv BY DEF QueueInv, BaseInv
<1>4. QED
  BY <1>1, <1>2, <1>3, Invariance, PTL DEF Spec, ImplementsChannel, Channel!Spec
=============================================================================
