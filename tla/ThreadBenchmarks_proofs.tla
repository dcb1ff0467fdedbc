------------------------ MODULE ThreadBenchmarks_proofs ------------------------
(***************************************************************************)
(* That no wake of the futex ping-pong is lost and that the pipe ping-pong  *)
(* leaves its pipe empty, for any number of rounds; that the ring of        *)
(* sync_mpmc.c, with one producer and one consumer, is a bounded first-in   *)
(* first-out queue, for any size and number of items; that the benchmarks   *)
(* that only count do every operation once, for any number of CPUs; and     *)
(* that every variable keeps its type.                                      *)
(***************************************************************************)
EXTENDS ThreadBenchmarks, FiniteSetTheorems, SequenceTheorems, TLAPS

-----------------------------------------------------------------------------
(* The futex.                                                               *)

FutexInv == word \in {0, 1} /\ NoLostWake

LEMMA FutexStep == ASSUME FutexInv, Futex!Next PROVE FutexInv'
<1> USE DEF FutexInv, NoLostWake, Futex!NoLostWake, Futex!mainVars, Futex!threadVars
<1>1. CASE Futex!Call
  BY <1>1 DEF Futex!Call
<1>2. CASE Futex!MainStep
  BY <1>2 DEF Futex!MainStep, Futex!SpinReady, Futex!MainStore, Futex!MainWake, Futex!MainWait,
              Futex!MainJoin, Futex!WakeThread, Futex!NextRound
<1>3. CASE Futex!ThreadStep
  BY <1>3 DEF Futex!ThreadStep, Futex!ThreadStart, Futex!ThreadWait, Futex!ThreadStore,
              Futex!ThreadWake, Futex!ThreadCount, Futex!WakeMain, Futex!NextRound
<1> QED
  BY <1>1, <1>2, <1>3 DEF Futex!Next

(* No wake of the futex ping-pong is lost (cswitch_futex.c:36-38, 80-82),   *)
(* however many rounds a call makes and however often it is called.         *)
THEOREM NoWakeIsLost == Spec => []NoLostWake
<1>1. Init => FutexInv
  BY DEF Init, Futex!Init, FutexInv, NoLostWake, Futex!NoLostWake
<1>2. FutexInv /\ [Next]_vars => FutexInv'
  <2>1. SUFFICES ASSUME FutexInv, [Next]_vars PROVE FutexInv'
    OBVIOUS
  <2>2. CASE UNCHANGED futexVars
    BY <2>1, <2>2 DEF futexVars, FutexInv, NoLostWake, Futex!NoLostWake
  <2>3. CASE Futex!Next
    BY <2>1, <2>3, FutexStep
  <2> QED
    BY <2>1, <2>2, <2>3 DEF Next, vars, RunsFutex, RunsPipe, RunsMpmc, RunsWork
<1>3. FutexInv => NoLostWake
  BY DEF FutexInv
<1> QED
  BY <1>1, <1>2, <1>3, PTL DEF Spec

-----------------------------------------------------------------------------
(* The pipe.                                                                *)

Calling == pong \in {"spin", "read", "write", "join"}

(* The byte ping has put in and not got back.                               *)
OfPing == IF ping = "read" THEN 1 ELSE 0

(* As long as ping does not fail, the pipe holds the byte of ping less the  *)
(* one pong has taken and not put back; pong may leave its loop with it.    *)
PipeInv ==
  /\ bytes \in Nat /\ pi \in 0..PipeRounds /\ pipeSwitches = 2 * pi
  /\ ping \in {"none", "start", "write", "read", "exit"}
  /\ pong \in {"idle", "over"} \/ Calling
  /\ pong = "idle" => ping = "none" /\ bytes = 0 /\ pipeReported \in {0, 2 * PipeRounds}
  /\ ping # "none" <=> Calling
  /\ Calling /\ failed => ping = "exit"
  /\ pong \in {"spin", "read", "write"} => ~broke
  /\ Calling /\ ~failed =>
       /\ ping = "start" => pi = 0
       /\ ping \in {"write", "read"} => pi < PipeRounds
       /\ ping = "exit" => pi = PipeRounds
       /\ pong \in {"spin", "read"} => bytes = OfPing
       /\ pong = "write" => bytes = OfPing - 1
       /\ pong = "join" => bytes = OfPing \/ (broke /\ bytes = OfPing - 1)

LEMMA PipeStep == ASSUME PipeInv, Pipe!Next PROVE PipeInv'
<1> USE DEF PipeInv, Calling, OfPing, Pipe!pingVars, Pipe!pongVars
<1> PipeRounds \in Nat \ {0}
  BY PipeAssumption DEF Pipe!RoundsAssumption
<1>1. CASE Pipe!Call
  BY <1>1 DEF Pipe!Call
<1>2. CASE Pipe!PingStart
  BY <1>2 DEF Pipe!PingStart
<1>3. CASE Pipe!PingWrite
  BY <1>3 DEF Pipe!PingWrite
<1>4. CASE Pipe!PingRead
  BY <1>4 DEF Pipe!PingRead
<1>5. CASE Pipe!PingFails
  BY <1>5 DEF Pipe!PingFails
<1>6. CASE Pipe!SpinReady
  BY <1>6 DEF Pipe!SpinReady
<1>7. CASE Pipe!PongRead
  BY <1>7 DEF Pipe!PongRead
<1>8. CASE Pipe!PongWrite
  BY <1>8 DEF Pipe!PongWrite
<1>9. CASE Pipe!PongFails
  BY <1>9 DEF Pipe!PongFails
<1>10. CASE Pipe!PongJoin
  BY <1>10 DEF Pipe!PongJoin
<1> QED
  BY <1>1, <1>2, <1>3, <1>4, <1>5, <1>6, <1>7, <1>8, <1>9, <1>10
  DEF Pipe!Next, Pipe!PingStep, Pipe!PongStep

(* A call of the pipe ping-pong that succeeds leaves the pipe empty and has *)
(* counted all its rounds, though pong may leave its loop on an error       *)
(* (cswitch_pipe.c:88-105) holding a byte of ping's: ping then never gets   *)
(* its own back and does not end.                                           *)
THEOREM PipeLeftEmpty == Spec => []Pipe!LeavesNothing
<1>1. Init => PipeInv
  BY PipeAssumption DEF Init, Pipe!Init, PipeInv, Calling, Pipe!RoundsAssumption
<1>2. PipeInv /\ [Next]_vars => PipeInv'
  <2>1. SUFFICES ASSUME PipeInv, [Next]_vars PROVE PipeInv'
    OBVIOUS
  <2>2. CASE UNCHANGED pipeVars
    BY <2>1, <2>2 DEF pipeVars, PipeInv, Calling, OfPing
  <2>3. CASE Pipe!Next
    BY <2>1, <2>3, PipeStep
  <2> QED
    BY <2>1, <2>2, <2>3 DEF Next, vars, RunsFutex, RunsPipe, RunsMpmc, RunsWork
<1>3. PipeInv => Pipe!LeavesNothing
  BY DEF PipeInv, Pipe!LeavesNothing
<1> QED
  BY <1>1, <1>2, <1>3, PTL DEF Spec

-----------------------------------------------------------------------------
(* The ring, for one producer and one consumer.                             *)

Inside == Len(sent) - Len(received)

(* The cell i behind head.                                                  *)
At(i) == IF head + i < QueueSize THEN head + i ELSE head + i - QueueSize

(* The producer enqueues its items in the order of their values.            *)
Nth(p, v) == [by |-> p, value |-> v]

(* The ring from head to tail holds what was sent and is not received.      *)
RingInv(p) ==
  /\ head \in Mpmc!Cells /\ tail \in Mpmc!Cells
  /\ DOMAIN items = Mpmc!Cells
  /\ sent \in Seq(Mpmc!Items) /\ received \in Seq(Mpmc!Items)
  /\ Inside \in 0..QueueSize - 1 /\ tail = At(Inside)
  /\ Len(sent) <= Ops
  /\ \A j \in 1..Len(sent) : sent[j] = Nth(p, j - 1)
  /\ \A j \in 1..Len(received) : received[j] = sent[j]
  /\ \A i \in 0..Inside - 1 : items[At(i)] = Nth(p, Len(received) + i)

(* Only the producer moves tail, and the room it has seen does not shrink.  *)
ProducerInv(p) ==
  /\ DOMAIN ppc = Producers /\ DOMAIN pn = Producers /\ DOMAIN pt = Producers
  /\ pn[p] \in 0..Ops /\ produced = pn[p]
  /\ ppc[p] \in {"tail", "head", "item", "publish", "count", "exit"}
  /\ ppc[p] = "exit" <=> pn[p] = Ops
  /\ Len(sent) = IF ppc[p] = "count" THEN pn[p] + 1 ELSE pn[p]
  /\ ppc[p] \in {"head", "item", "publish"} => pt[p] = tail
  /\ ppc[p] \in {"item", "publish"} => Inside < QueueSize - 1
  /\ ppc[p] = "publish" => items[tail] = Nth(p, pn[p])

(* Only the consumer moves head.  It drains the ring after the last item is *)
(* in, so that the item 0, which it takes for an empty ring, is out.        *)
ConsumerInv(p, c) ==
  /\ DOMAIN cpc = Consumers /\ DOMAIN ch = Consumers /\ DOMAIN citem = Consumers
  /\ DOMAIN local = Consumers /\ DOMAIN drain = Consumers
  /\ cpc[c] \in {"check", "head", "tail", "item", "release", "exit"}
  /\ drain[c] \in BOOLEAN
  /\ cpc[c] \in {"tail", "item", "release"} => ch[c] = head
  /\ cpc[c] \in {"item", "release"} => Inside > 0
  /\ cpc[c] = "release" => citem[c] = Nth(p, Len(received))
  /\ drain[c] => ppc[p] = "exit"
  /\ cpc[c] = "exit" => drain[c] /\ Inside = 0
  /\ consumed = IF cpc[c] = "exit" THEN Ops - 1 ELSE 0
  /\ local[c] = IF Len(received) = 0 THEN 0 ELSE Len(received) - 1

QueueInv(p, c) == RingInv(p) /\ ProducerInv(p) /\ ConsumerInv(p, c)

-----------------------------------------------------------------------------
LEMMA Size == QueueSize \in Nat \ {0, 1} /\ Ops \in Nat /\ Ops >= QueueSize
  BY MpmcAssumption DEF Mpmc!SizeAssumption

(* The cell that follows, without the remainder.                            *)
LEMMA NextCellIs ==
  ASSUME NEW t \in Mpmc!Cells
  PROVE  Mpmc!NextCell(t) = IF t + 1 < QueueSize THEN t + 1 ELSE 0
<1>1. t \in Int /\ 0 <= t /\ t + 1 <= QueueSize /\ QueueSize \in Int /\ QueueSize > 0
  BY Size DEF Mpmc!Cells
<1>2. CASE t + 1 < QueueSize
  <2>1. (t + 1) % QueueSize = t + 1
    BY <1>1, <1>2
  <2> QED
    BY <1>2, <2>1 DEF Mpmc!NextCell
<1>3. CASE t + 1 = QueueSize
  <2>1. QueueSize % QueueSize = 0
    BY <1>1
  <2>2. (t + 1) % QueueSize = 0
    BY <1>3, <2>1, Zenon
  <2>3. ~(t + 1 < QueueSize)
    BY <1>1, <1>3
  <2> QED
    BY <2>2, <2>3, Zenon DEF Mpmc!NextCell
<1> QED
  BY <1>1, <1>2, <1>3

LEMMA QueueInit ==
  ASSUME NEW p, Producers = {p}, NEW c, Consumers = {c}, Mpmc!Init
  PROVE  QueueInv(p, c)
<1>1. /\ head = 0 /\ tail = 0 /\ sent = << >> /\ received = << >> /\ Len(sent) = 0 /\ Len(received) = 0
      /\ DOMAIN items = Mpmc!Cells
  BY DEF Mpmc!Init
<1>2. RingInv(p)
  BY <1>1, Size DEF RingInv, Inside, At, Mpmc!Cells
<1>3. ProducerInv(p)
  BY <1>1, Size DEF Mpmc!Init, ProducerInv
<1>4. ConsumerInv(p, c)
  BY <1>1, Size DEF Mpmc!Init, ConsumerInv
<1> QED
  BY <1>2, <1>3, <1>4 DEF QueueInv

-----------------------------------------------------------------------------
(* The steps of the producer.                                               *)

LEMMA LoadTailStep ==
  ASSUME NEW p, Producers = {p}, NEW c, Consumers = {c}, QueueInv(p, c), Mpmc!LoadTail(p)
  PROVE  QueueInv(p, c)'
<1> USE DEF QueueInv, Mpmc!LoadTail, Mpmc!queueVars, Mpmc!consumerVars
<1>1. RingInv(p)'
  BY DEF RingInv, Inside, At
<1>2. ProducerInv(p)'
  BY DEF ProducerInv, Inside
<1>3. ConsumerInv(p, c)'
  BY DEF ConsumerInv, ProducerInv, Inside
<1> QED
  BY <1>1, <1>2, <1>3

LEMMA CheckRoomStep ==
  ASSUME NEW p, Producers = {p}, NEW c, Consumers = {c}, QueueInv(p, c), Mpmc!CheckRoom(p)
  PROVE  QueueInv(p, c)'
<1> USE DEF QueueInv, Mpmc!CheckRoom, Mpmc!queueVars, Mpmc!consumerVars
<1>1. RingInv(p)'
  BY DEF RingInv, Inside, At
<1>2. ~Mpmc!Full(pt[p]) => Inside < QueueSize - 1
  <2>1. pt[p] = tail /\ tail \in Mpmc!Cells /\ tail = At(Inside) /\ Inside \in 0..QueueSize - 1
    BY DEF RingInv, ProducerInv
  <2>2. Mpmc!NextCell(tail) = IF tail + 1 < QueueSize THEN tail + 1 ELSE 0
    BY <2>1, NextCellIs
  <2>3. Inside = QueueSize - 1 => Mpmc!NextCell(tail) = head
    BY <2>1, <2>2, Size DEF At, RingInv, Mpmc!Cells
  <2> QED
    BY <2>1, <2>3, Size DEF Mpmc!Full
<1>3. ProducerInv(p)'
  BY <1>2 DEF ProducerInv, Inside
<1>4. ConsumerInv(p, c)'
  BY DEF ConsumerInv, ProducerInv, Inside
<1> QED
  BY <1>1, <1>3, <1>4

LEMMA StoreItemStep ==
  ASSUME NEW p, Producers = {p}, NEW c, Consumers = {c}, QueueInv(p, c), Mpmc!StoreItem(p)
  PROVE  QueueInv(p, c)'
<1> USE DEF QueueInv, Mpmc!StoreItem, Mpmc!consumerVars
<1>1. /\ pt[p] = tail /\ tail \in Mpmc!Cells /\ Inside < QueueSize - 1 /\ Inside \in Nat
      /\ items' = [items EXCEPT ![tail] = Nth(p, pn[p])]
      /\ UNCHANGED << head, tail, sent, received >>
  BY Size DEF RingInv, ProducerInv, Mpmc!Item, Nth
<1>2. ASSUME NEW i \in 0..Inside - 1 PROVE At(i) # tail /\ At(i) \in Mpmc!Cells
  <2>1. /\ head \in 0..QueueSize - 1 /\ i \in 0..Inside - 1
        /\ tail = IF head + Inside < QueueSize THEN head + Inside ELSE head + Inside - QueueSize
    BY DEF RingInv, At, Mpmc!Cells
  <2>2. At(i) = IF head + i < QueueSize THEN head + i ELSE head + i - QueueSize
    BY DEF At
  <2>3. QueueSize \in Nat /\ Inside \in Nat /\ Inside < QueueSize
    BY <1>1, Size
  <2> HIDE DEF QueueInv, Mpmc!StoreItem
  <2>4. At(i) # tail
    BY <2>1, <2>2, <2>3
  <2>5. At(i) \in 0..QueueSize - 1
    BY <2>1, <2>2, <2>3
  <2> QED
    BY <2>4, <2>5 DEF Mpmc!Cells
<1>3. RingInv(p)'
  <2>1. Inside' = Inside /\ \A i \in 0..Inside - 1 : At(i)' = At(i)
    BY <1>1 DEF Inside, At
  <2>2. \A i \in 0..Inside - 1 : items'[At(i)] = items[At(i)]
    BY <1>1, <1>2 DEF RingInv
  <2>3. \A i \in 0..Inside' - 1 : items'[At(i)'] = Nth(p, Len(received') + i)
    BY <1>1, <2>1, <2>2 DEF RingInv
  <2>4. DOMAIN items' = Mpmc!Cells /\ tail' = At(Inside)'
    BY <1>1 DEF RingInv, At, Inside
  <2> QED
    BY <1>1, <2>1, <2>3, <2>4 DEF RingInv
<1>4. ProducerInv(p)'
  BY <1>1 DEF ProducerInv, RingInv, Inside
<1>5. ConsumerInv(p, c)'
  BY <1>1 DEF ConsumerInv, ProducerInv, Inside
<1> QED
  BY <1>3, <1>4, <1>5

LEMMA StoreTailStep ==
  ASSUME NEW p, Producers = {p}, NEW c, Consumers = {c}, QueueInv(p, c), Mpmc!StoreTail(p)
  PROVE  QueueInv(p, c)'
<1> USE DEF QueueInv, Mpmc!StoreTail, Mpmc!consumerVars
<1>1. /\ pt[p] = tail /\ tail \in Mpmc!Cells /\ tail = At(Inside) /\ Inside < QueueSize - 1
      /\ Inside \in Nat /\ items[tail] = Nth(p, pn[p]) /\ Len(sent) = pn[p] /\ pn[p] \in 0..Ops - 1
      /\ sent' = Append(sent, Nth(p, pn[p])) /\ UNCHANGED << items, head, received >>
  BY Size DEF RingInv, ProducerInv, Mpmc!Item, Nth
<1>2. tail' = IF tail + 1 < QueueSize THEN tail + 1 ELSE 0
  BY <1>1, NextCellIs
<1>3. /\ sent' \in Seq(Mpmc!Items) /\ Len(sent') = Len(sent) + 1
      /\ Len(sent) \in Nat /\ Len(received) \in Nat
      /\ \A j \in 1..Len(sent) : sent'[j] = sent[j]
      /\ sent'[Len(sent) + 1] = Nth(p, pn[p])
  <2>1. sent \in Seq(Mpmc!Items) /\ received \in Seq(Mpmc!Items) /\ Nth(p, pn[p]) \in Mpmc!Items
    BY <1>1 DEF RingInv, Nth, Mpmc!Items
  <2> QED
    BY <1>1, <2>1
<1>4. Inside' = Inside + 1 /\ Len(received) + Inside = Len(sent)
  BY <1>1, <1>3 DEF Inside
<1>5. RingInv(p)'
  <2>1. tail' \in Mpmc!Cells /\ tail' = At(Inside)'
    BY <1>1, <1>2, <1>4, Size DEF RingInv, At, Mpmc!Cells
  <2>2. ASSUME NEW j \in 1..Len(sent') PROVE sent'[j] = Nth(p, j - 1)
    <3>1. CASE j \in 1..Len(sent)
      BY <1>3, <3>1 DEF RingInv
    <3>2. CASE j = Len(sent) + 1
      <4>1. j - 1 = pn[p]
        BY <1>1, <1>3, <3>2
      <4> QED
        BY <1>3, <3>2, <4>1
    <3> QED
      BY <1>3, <3>1, <3>2
  <2>3. \A j \in 1..Len(received') : received'[j] = sent'[j]
    <3>1. Len(received) <= Len(sent)
      BY <1>1, <1>3 DEF Inside
    <3> QED
      BY <1>1, <1>3, <3>1 DEF RingInv
  <2>4. ASSUME NEW i \in 0..Inside' - 1 PROVE items'[At(i)'] = Nth(p, Len(received') + i)
    <3>1. At(i)' = At(i)
      BY <1>1 DEF At
    <3>2. CASE i = Inside
      BY <1>1, <1>4, <3>1, <3>2
    <3>3. CASE i \in 0..Inside - 1
      BY <1>1, <3>1, <3>3 DEF RingInv
    <3> QED
      BY <1>1, <1>4, <3>2, <3>3
  <2>5. Inside' \in 0..QueueSize - 1 /\ Len(sent') <= Ops
    BY <1>1, <1>3, <1>4, Size
  <2> QED
    BY <1>1, <1>3, <2>1, <2>2, <2>3, <2>4, <2>5 DEF RingInv
<1>6. ProducerInv(p)'
  BY <1>1, <1>3, <1>4, Size DEF ProducerInv
<1>7. ConsumerInv(p, c)'
  BY <1>1, <1>3, <1>4 DEF ConsumerInv, ProducerInv
<1> QED
  BY <1>5, <1>6, <1>7

LEMMA CountProducedStep ==
  ASSUME NEW p, Producers = {p}, NEW c, Consumers = {c}, QueueInv(p, c), Mpmc!CountProduced(p)
  PROVE  QueueInv(p, c)'
<1> USE DEF QueueInv, Mpmc!CountProduced, Mpmc!queueVars, Mpmc!consumerVars
<1>1. RingInv(p)'
  BY DEF RingInv, Inside, At
<1>2. ProducerInv(p)'
  BY Size DEF ProducerInv, RingInv, Inside
<1>3. ConsumerInv(p, c)'
  BY DEF ConsumerInv, ProducerInv, Inside
<1> QED
  BY <1>1, <1>2, <1>3

-----------------------------------------------------------------------------
(* The steps of the consumer.                                               *)

LEMMA TargetIs == ASSUME NEW p, Producers = {p} PROVE Mpmc!Target = Ops
<1>1. Cardinality(Producers) = 1
  BY FS_Singleton
<1>2. Ops * 1 = Ops
  BY Size
<1>3. Mpmc!Target = Ops * Cardinality(Producers)
  BY DEF Mpmc!Target, Mpmc!Cardinality, Cardinality
<1> QED
  BY <1>1, <1>2, <1>3

LEMMA CheckProducedStep ==
  ASSUME NEW p, Producers = {p}, NEW c, Consumers = {c}, QueueInv(p, c), Mpmc!CheckProduced(c)
  PROVE  QueueInv(p, c)'
<1> USE DEF QueueInv, Mpmc!CheckProduced, Mpmc!queueVars, Mpmc!producerVars
<1>1. RingInv(p)'
  BY DEF RingInv, Inside, At
<1>2. ProducerInv(p)'
  BY DEF ProducerInv, Inside
<1>3. produced >= Mpmc!Target => ppc[p] = "exit"
  BY TargetIs, Size DEF ProducerInv
<1>4. drain'[c] \in BOOLEAN /\ (drain'[c] => ppc[p] = "exit")
  BY <1>3 DEF ConsumerInv
<1>5. ConsumerInv(p, c)'
  BY <1>4 DEF ConsumerInv, ProducerInv, Inside
<1> QED
  BY <1>1, <1>2, <1>5

LEMMA LoadHeadStep ==
  ASSUME NEW p, Producers = {p}, NEW c, Consumers = {c}, QueueInv(p, c), Mpmc!LoadHead(c)
  PROVE  QueueInv(p, c)'
<1> USE DEF QueueInv, Mpmc!LoadHead, Mpmc!queueVars, Mpmc!producerVars
<1>1. RingInv(p)'
  BY DEF RingInv, Inside, At
<1>2. ProducerInv(p)'
  BY DEF ProducerInv, Inside
<1>3. ConsumerInv(p, c)'
  BY DEF ConsumerInv, ProducerInv, Inside
<1> QED
  BY <1>1, <1>2, <1>3

(* What is counted when everything is in and taken out.                     *)
LEMMA AllIn ==
  ASSUME NEW p, NEW c, QueueInv(p, c), drain[c]
  PROVE  Len(sent) = Ops /\ Len(received) > 0
  BY Size DEF QueueInv, ConsumerInv, ProducerInv, RingInv, Inside

LEMMA CheckEmptyStep ==
  ASSUME NEW p, Producers = {p}, NEW c, Consumers = {c}, QueueInv(p, c), Mpmc!CheckEmpty(c)
  PROVE  QueueInv(p, c)'
<1> USE DEF QueueInv, Mpmc!CheckEmpty, Mpmc!queueVars, Mpmc!producerVars
<1>1. RingInv(p)'
  BY DEF RingInv, Inside, At
<1>2. ProducerInv(p)'
  BY DEF ProducerInv, Inside
<1>3. ch[c] = head /\ (head = tail <=> Inside = 0) /\ Inside \in Nat /\ cpc[c] = "tail"
  BY Size DEF ConsumerInv, RingInv, At, Mpmc!Cells
<1>4. CASE head # tail
  <2>1. /\ cpc' = [cpc EXCEPT ![c] = "item"] /\ Inside > 0
        /\ UNCHANGED << consumed, local, ch, citem, drain, head, sent, received, ppc >>
    BY <1>3, <1>4
  <2>2. ConsumerInv(p, c)'
    BY <1>3, <2>1 DEF ConsumerInv, Inside
  <2> QED
    BY <1>1, <1>2, <2>2
<1>5. CASE head = tail /\ ~drain[c]
  <2>1. /\ cpc' = [cpc EXCEPT ![c] = "check"] /\ local' = [local EXCEPT ![c] = local[c]]
        /\ UNCHANGED << consumed, ch, citem, drain, head, sent, received, ppc >>
    BY <1>3, <1>5 DEF Mpmc!Returned
  <2>2. ConsumerInv(p, c)'
    BY <1>3, <2>1 DEF ConsumerInv, Inside
  <2> QED
    BY <1>1, <1>2, <2>2
<1>6. CASE head = tail /\ drain[c]
  <2>1. Len(sent) = Ops /\ Len(received) > 0 /\ Inside = 0
    BY <1>3, <1>6, AllIn
  <2>2. local[c] = Ops - 1 /\ consumed = 0
    BY <1>3, <2>1 DEF ConsumerInv, Inside, RingInv
  <2>3. consumed' = Ops - 1 /\ local' = [local EXCEPT ![c] = local[c]] /\ cpc' = [cpc EXCEPT ![c] = "exit"]
    BY <1>3, <1>6, <2>2, Size DEF Mpmc!Returned
  <2> QED
    BY <1>1, <1>2, <1>3, <1>6, <2>1, <2>2, <2>3 DEF ConsumerInv, ProducerInv, Inside
<1> QED
  BY <1>1, <1>2, <1>4, <1>5, <1>6

LEMMA LoadItemStep ==
  ASSUME NEW p, Producers = {p}, NEW c, Consumers = {c}, QueueInv(p, c), Mpmc!LoadItem(c)
  PROVE  QueueInv(p, c)'
<1> USE DEF QueueInv, Mpmc!LoadItem, Mpmc!queueVars, Mpmc!producerVars
<1>1. RingInv(p)'
  BY DEF RingInv, Inside, At
<1>2. ProducerInv(p)'
  BY DEF ProducerInv, Inside
<1>3. items[head] = Nth(p, Len(received))
  <2>1. 0 \in 0..Inside - 1 /\ At(0) = head
    BY Size DEF ConsumerInv, RingInv, At, Mpmc!Cells
  <2>2. items[At(0)] = Nth(p, Len(received) + 0)
    BY <2>1 DEF RingInv
  <2>3. Len(received) + 0 = Len(received)
    BY DEF RingInv
  <2> QED
    BY <2>1, <2>2, <2>3
<1>4. ConsumerInv(p, c)'
  BY <1>3 DEF ConsumerInv, ProducerInv, Inside
<1> QED
  BY <1>1, <1>2, <1>4

LEMMA StoreHeadStep ==
  ASSUME NEW p, Producers = {p}, NEW c, Consumers = {c}, QueueInv(p, c), Mpmc!StoreHead(c)
  PROVE  QueueInv(p, c)'
<1> USE DEF QueueInv, Mpmc!StoreHead, Mpmc!producerVars
<1>1. /\ ch[c] = head /\ head \in Mpmc!Cells /\ Inside > 0 /\ Inside \in 0..QueueSize - 1
      /\ citem[c] = Nth(p, Len(received)) /\ received' = Append(received, Nth(p, Len(received)))
      /\ UNCHANGED << items, tail, sent, ppc, ch, citem, drain >>
  BY DEF RingInv, ConsumerInv
<1>2. head' = IF head + 1 < QueueSize THEN head + 1 ELSE 0
  BY <1>1, NextCellIs
<1>3. Len(received) < Len(sent) /\ Len(sent) \in Nat /\ Len(received) \in Nat /\ Len(sent) <= Ops
  BY <1>1 DEF Inside, RingInv
<1>4. /\ received' \in Seq(Mpmc!Items) /\ Len(received') = Len(received) + 1
      /\ \A j \in 1..Len(received) : received'[j] = received[j]
      /\ received'[Len(received) + 1] = Nth(p, Len(received))
  <2>1. received \in Seq(Mpmc!Items) /\ Nth(p, Len(received)) \in Mpmc!Items
    BY <1>3, Size DEF RingInv, Nth, Mpmc!Items
  <2> QED
    BY <1>1, <2>1
<1>5. Inside' = Inside - 1
  BY <1>1, <1>3, <1>4 DEF Inside
<1>6. RingInv(p)'
  <2>1. head' \in Mpmc!Cells /\ tail' = At(Inside)'
    <3>1. tail = (IF head + Inside < QueueSize THEN head + Inside ELSE head + Inside - QueueSize)
      BY DEF RingInv, At
    <3>2. head \in 0..QueueSize - 1
      BY <1>1 DEF Mpmc!Cells
    <3>3. At(Inside)' = IF head' + Inside' < QueueSize THEN head' + Inside' ELSE head' + Inside' - QueueSize
      BY DEF At
    <3>4. head' \in 0..QueueSize - 1
      BY <1>2, <3>2, Size
    <3>5. tail' = At(Inside)'
      BY <1>1, <1>2, <1>5, <3>1, <3>2, <3>3, Size
    <3> QED
      BY <3>4, <3>5 DEF Mpmc!Cells
  <2>2. ASSUME NEW j \in 1..Len(received') PROVE received'[j] = sent'[j]
    <3>1. CASE j \in 1..Len(received)
      BY <1>1, <1>4, <3>1 DEF RingInv
    <3>2. CASE j = Len(received) + 1
      <4>1. j \in 1..Len(sent) /\ j - 1 = Len(received)
        BY <1>3, <3>2
      <4>2. sent[j] = Nth(p, j - 1)
        BY <4>1 DEF RingInv
      <4> QED
        BY <1>1, <1>4, <3>2, <4>1, <4>2
    <3> QED
      BY <1>3, <1>4, <3>1, <3>2
  <2>3. ASSUME NEW i \in 0..Inside' - 1 PROVE items'[At(i)'] = Nth(p, Len(received') + i)
    <3>1. i + 1 \in 0..Inside - 1 /\ i \in Int
      BY <1>1, <1>5
    <3>2. At(i)' = At(i + 1)
      BY <1>1, <1>2, <3>1, Size DEF At, Mpmc!Cells
    <3>3. items[At(i + 1)] = Nth(p, Len(received) + (i + 1))
      BY <3>1 DEF RingInv
    <3>4. Len(received) + (i + 1) = Len(received') + i
      BY <1>3, <1>4, <3>1
    <3> QED
      BY <1>1, <3>2, <3>3, <3>4
  <2>4. Inside' \in 0..QueueSize - 1
    BY <1>1, <1>5, Size
  <2> QED
    BY <1>1, <1>4, <2>1, <2>2, <2>3, <2>4 DEF RingInv
<1>7. ProducerInv(p)'
  BY <1>1, <1>5, Size DEF ProducerInv
<1>8. local' = [local EXCEPT ![c] = Len(received)] /\ consumed' = consumed /\ consumed = 0
      /\ cpc' = [cpc EXCEPT ![c] = IF drain[c] THEN "head" ELSE "check"]
  <2>1. citem[c].value = Len(received) /\ consumed = 0
    BY <1>1 DEF Nth, ConsumerInv
  <2>2. Mpmc!Returned(c, Len(received))
    BY <2>1
  <2>3. local[c] = IF Len(received) = 0 THEN 0 ELSE Len(received) - 1
    BY DEF ConsumerInv
  <2>4. drain[c] => Len(received) > 0
    BY AllIn
  <2>5. local' = [local EXCEPT ![c] = Len(received)]
    <3>1. local' = [local EXCEPT ![c] = IF Len(received) # 0 THEN local[c] + 1 ELSE local[c]]
      BY <2>2 DEF Mpmc!Returned
    <3>2. (IF Len(received) # 0 THEN local[c] + 1 ELSE local[c]) = Len(received)
      BY <1>3, <2>3
    <3> QED
      BY <3>1, <3>2
  <2>6. ~(drain[c] /\ Len(received) = 0)
    BY <2>4
  <2> QED
    BY <2>1, <2>2, <2>5, <2>6 DEF Mpmc!Returned
<1>9. ConsumerInv(p, c)'
  BY <1>1, <1>3, <1>4, <1>8 DEF ConsumerInv
<1> QED
  BY <1>6, <1>7, <1>9

LEMMA CallAgainStep ==
  ASSUME NEW p, Producers = {p}, NEW c, Consumers = {c}, QueueInv(p, c), Mpmc!CallAgain
  PROVE  QueueInv(p, c)' /\ Inside = 0
<1> USE DEF QueueInv, Mpmc!CallAgain, Mpmc!queueVars
<1>1. cpc[c] = "exit" /\ Inside = 0 /\ head = tail
  BY Size DEF Mpmc!Over, ConsumerInv, RingInv, At, Mpmc!Cells
<1>2. Len(sent') = 0 /\ Len(received') = 0 /\ UNCHANGED << items, head, tail >>
  OBVIOUS
<1>3. RingInv(p)'
  <2>1. sent' \in Seq(Mpmc!Items) /\ received' \in Seq(Mpmc!Items)
    OBVIOUS
  <2>2. Inside' = 0 /\ 0 \in 0..QueueSize - 1
    BY <1>2, Size DEF Inside
  <2>3. tail' = At(Inside)'
    BY <1>1, <1>2, <2>2, Size DEF At, RingInv, Mpmc!Cells
  <2>4. head' \in Mpmc!Cells /\ tail' \in Mpmc!Cells /\ DOMAIN items' = Mpmc!Cells
    BY <1>2 DEF RingInv
  <2> QED
    BY <1>2, <2>1, <2>2, <2>3, <2>4, Size DEF RingInv
<1>4. ProducerInv(p)'
  BY <1>2, Size DEF ProducerInv
<1>5. ConsumerInv(p, c)'
  BY <1>2, Size DEF ConsumerInv
<1> QED
  BY <1>1, <1>3, <1>4, <1>5

-----------------------------------------------------------------------------
LEMMA QueueStep ==
  ASSUME NEW p, Producers = {p}, NEW c, Consumers = {c}, QueueInv(p, c), [Next]_vars
  PROVE  QueueInv(p, c)'
<1>1. CASE UNCHANGED mpmcVars
  BY <1>1 DEF mpmcVars, QueueInv, RingInv, ProducerInv, ConsumerInv, Inside, At
<1>2. CASE Mpmc!Next
  <2>1. CASE Mpmc!ProducerStep(p)
    BY <2>1, LoadTailStep, CheckRoomStep, StoreItemStep, StoreTailStep, CountProducedStep
    DEF Mpmc!ProducerStep
  <2>2. CASE Mpmc!ConsumerStep(c)
    BY <2>2, CheckProducedStep, LoadHeadStep, CheckEmptyStep, LoadItemStep, StoreHeadStep
    DEF Mpmc!ConsumerStep
  <2>3. CASE Mpmc!CallAgain
    BY <2>3, CallAgainStep
  <2> QED
    BY <1>2, <2>1, <2>2, <2>3 DEF Mpmc!Next
<1> QED
  BY <1>1, <1>2 DEF Next, vars, RunsFutex, RunsPipe, RunsMpmc, RunsWork

(* The items inside, oldest first.                                          *)
Queue == SubSeq(sent, Len(received) + 1, Len(sent))

LEMMA QueueIs ==
  ASSUME NEW p, NEW c, QueueInv(p, c)
  PROVE  /\ Queue \in Seq(Mpmc!Items) /\ Len(Queue) = Inside
         /\ \A j \in 1..Inside : Queue[j] = sent[Len(received) + j]
<1>1. /\ sent \in Seq(Mpmc!Items) /\ Len(sent) \in Nat /\ Len(received) \in Nat /\ Inside \in Nat
      /\ Len(received) + Inside = Len(sent)
  BY DEF QueueInv, RingInv, Inside
<1> QED
  BY <1>1 DEF Queue

(* An item enters when tail is stored.                                      *)
LEMMA Enters ==
  ASSUME NEW p, Producers = {p}, NEW c, Consumers = {c}, QueueInv(p, c), Mpmc!StoreTail(p)
  PROVE  Mpmc!Fifo!Next
<1>1. QueueInv(p, c)'
  BY StoreTailStep
<1>2. /\ sent' = Append(sent, Mpmc!Item(p)) /\ received' = received /\ Mpmc!Item(p) \in Mpmc!Items
      /\ Inside < QueueSize - 1 /\ Inside \in Nat
  BY Size DEF Mpmc!StoreTail, QueueInv, ProducerInv, RingInv, Mpmc!Item, Mpmc!Items, Mpmc!consumerVars
<1>3. /\ sent \in Seq(Mpmc!Items) /\ Len(received) \in Nat /\ Len(received) + Inside = Len(sent)
  BY DEF QueueInv, RingInv, Inside
<1>4. Queue' = Append(Queue, Mpmc!Item(p))
  <2>1. /\ Queue \in Seq(Mpmc!Items) /\ Len(Queue) = Inside
        /\ \A j \in 1..Inside : Queue[j] = sent[Len(received) + j]
    BY QueueIs
  <2>2. /\ Queue' \in Seq(Mpmc!Items) /\ Len(Queue') = Inside'
        /\ \A j \in 1..Inside' : Queue'[j] = sent'[Len(received') + j]
    <3>1. Queue' = SubSeq(sent', Len(received') + 1, Len(sent'))
      BY DEF Queue
    <3>2. sent' \in Seq(Mpmc!Items) /\ Len(received') \in Nat /\ Len(sent') \in Nat /\ Inside' \in Nat
          /\ Len(received') + Inside' = Len(sent')
      BY <1>1 DEF QueueInv, RingInv, Inside
    <3> QED
      BY <3>1, <3>2
  <2>3. Inside' = Inside + 1 /\ Len(received') = Len(received)
    BY <1>2, <1>3 DEF Inside
  <2>4. ASSUME NEW j \in 1..Inside + 1 PROVE Queue'[j] = Append(Queue, Mpmc!Item(p))[j]
    <3>1. Queue'[j] = sent'[Len(received) + j]
      BY <2>2, <2>3
    <3>2. CASE j \in 1..Inside
      <4>1. Len(received) + j \in 1..Len(sent) /\ Append(Queue, Mpmc!Item(p))[j] = Queue[j]
        BY <1>2, <1>3, <2>1, <3>2
      <4>2. sent'[Len(received) + j] = sent[Len(received) + j]
        BY <1>2, <1>3, <4>1
      <4> QED
        BY <2>1, <3>1, <3>2, <4>1, <4>2
    <3>3. CASE j = Inside + 1
      <4>1. Len(received) + j = Len(sent) + 1
        BY <1>2, <1>3, <3>3
      <4>2. sent'[Len(sent) + 1] = Mpmc!Item(p)
        BY <1>2, <1>3
      <4>3. Append(Queue, Mpmc!Item(p))[Len(Queue) + 1] = Mpmc!Item(p)
        BY <1>2, <2>1
      <4> QED
        BY <2>1, <3>1, <3>3, <4>1, <4>2, <4>3
    <3>4. j \in 1..Inside \/ j = Inside + 1
      BY <1>2
    <3> QED
      BY <3>2, <3>3, <3>4
  <2>5. Append(Queue, Mpmc!Item(p)) \in Seq(Mpmc!Items) /\ Len(Append(Queue, Mpmc!Item(p))) = Inside + 1
    BY <1>2, <2>1
  <2> QED
    BY <2>2, <2>3, <2>4, <2>5, SeqEqual
<1>5. Len(Queue) < QueueSize - 1
  BY <1>2, QueueIs
<1> QED
  BY <1>2, <1>4, <1>5 DEF Mpmc!Fifo!Next, Mpmc!Fifo!Enqueue, Queue

(* The oldest item leaves when head is stored.                              *)
LEMMA Leaves ==
  ASSUME NEW p, Producers = {p}, NEW c, Consumers = {c}, QueueInv(p, c), Mpmc!StoreHead(c)
  PROVE  Mpmc!Fifo!Next
<1>1. QueueInv(p, c)'
  BY StoreHeadStep
<1>2. /\ Queue \in Seq(Mpmc!Items) /\ Len(Queue) = Inside
      /\ \A j \in 1..Inside : Queue[j] = sent[Len(received) + j]
  BY QueueIs
<1>3. /\ received' = Append(received, citem[c]) /\ sent' = sent /\ Inside > 0 /\ Inside \in Nat
      /\ citem[c] = Nth(p, Len(received)) /\ Len(received) \in Nat /\ Len(sent) \in Nat
      /\ Len(received) + Inside = Len(sent)
  BY Size DEF Mpmc!StoreHead, QueueInv, ConsumerInv, RingInv, Inside
<1>4. Head(Queue) = citem[c]
  <2>1. Len(received) + 1 \in 1..Len(sent) /\ (Len(received) + 1) - 1 = Len(received)
    BY <1>3
  <2>2. sent[Len(received) + 1] = Nth(p, Len(received))
    BY <2>1 DEF QueueInv, RingInv
  <2>3. 1 \in 1..Inside /\ Head(Queue) = Queue[1]
    BY <1>2, <1>3
  <2> QED
    BY <1>2, <1>3, <2>2, <2>3
<1>5. Queue' = Tail(Queue)
  <2>1. Len(received') = Len(received) + 1 /\ sent' = sent /\ sent \in Seq(Mpmc!Items)
    BY <1>3 DEF QueueInv, RingInv
  <2>2. Queue' = SubSeq(sent, Len(received) + 1 + 1, Len(sent))
    BY <2>1 DEF Queue
  <2>3. Len(received) + 1 <= Len(sent)
    BY <1>3
  <2>4. /\ Queue' \in Seq(Mpmc!Items) /\ Len(Queue') = Inside - 1
        /\ \A j \in 1..Inside - 1 : Queue'[j] = sent[Len(received) + 1 + j]
    BY <1>3, <2>1, <2>2, <2>3
  <2>5. /\ Tail(Queue) \in Seq(Mpmc!Items) /\ Len(Tail(Queue)) = Inside - 1
        /\ \A j \in 1..Inside - 1 : Tail(Queue)[j] = Queue[j + 1]
    BY <1>2, <1>3
  <2>6. ASSUME NEW j \in 1..Inside - 1 PROVE Queue'[j] = Tail(Queue)[j]
    <3>1. j + 1 \in 1..Inside /\ Len(received) + (j + 1) = Len(received) + 1 + j
      BY <1>3
    <3> QED
      BY <1>2, <2>4, <2>5, <3>1
  <2> QED
    BY <2>4, <2>5, <2>6, SeqEqual
<1>6. Queue # << >>
  BY <1>2, <1>3
<1> QED
  BY <1>3, <1>4, <1>5, <1>6 DEF Mpmc!Fifo!Next, Mpmc!Fifo!Dequeue, Queue

(* A new call begins on an empty queue.                                     *)
LEMMA BeginsEmpty ==
  ASSUME NEW p, Producers = {p}, NEW c, Consumers = {c}, QueueInv(p, c), Mpmc!CallAgain
  PROVE  Mpmc!Fifo!Next
<1>1. Inside = 0
  BY CallAgainStep
<1>2. Queue = << >>
  <2>1. Queue \in Seq(Mpmc!Items) /\ Len(Queue) = 0
    BY <1>1, QueueIs
  <2> QED
    BY <2>1
<1>3. sent' = << >> /\ received' = << >>
  BY DEF Mpmc!CallAgain
<1>4. Queue' = << >>
  BY <1>3 DEF Queue
<1> QED
  BY <1>2, <1>3, <1>4 DEF Mpmc!Fifo!Next, Mpmc!Fifo!NewCall, Queue

LEMMA QueueInvariant ==
  ASSUME NEW p, Producers = {p}, NEW c, Consumers = {c}
  PROVE  Spec => []QueueInv(p, c)
<1>1. Init => QueueInv(p, c)
  BY QueueInit DEF Init
<1>2. QueueInv(p, c) /\ [Next]_vars => QueueInv(p, c)'
  BY QueueStep
<1> QED
  BY <1>1, <1>2, PTL DEF Spec

(* With one producer and one consumer the ring of sync_mpmc.c:34-49         *)
(* implements the bounded queue, for any size and any number of items: a    *)
(* cell is not overwritten before it was read, and the order is kept.       *)
THEOREM RingIsQueue ==
  ASSUME NEW p, Producers = {p}, NEW c, Consumers = {c}
  PROVE  Spec => QueueImplementsFifo
<1>1. Init => Mpmc!Fifo!Init
  BY DEF Init, Mpmc!Init, Mpmc!Fifo!Init
<1>2. QueueInv(p, c) /\ [Next]_vars => [Mpmc!Fifo!Next]_(Mpmc!Fifo!vars)
  <2>1. SUFFICES ASSUME QueueInv(p, c), [Next]_vars PROVE [Mpmc!Fifo!Next]_(Mpmc!Fifo!vars)
    OBVIOUS
  <2>2. CASE UNCHANGED << sent, received >>
    BY <2>2 DEF Mpmc!Fifo!vars
  <2>3. CASE Mpmc!Next
    <3>1. CASE Mpmc!StoreTail(p)
      BY <2>1, <3>1, Enters
    <3>2. CASE Mpmc!StoreHead(c)
      BY <2>1, <3>2, Leaves
    <3>3. CASE Mpmc!CallAgain
      BY <2>1, <3>3, BeginsEmpty
    <3>4. CASE Mpmc!LoadTail(p) \/ Mpmc!CheckRoom(p) \/ Mpmc!StoreItem(p) \/ Mpmc!CountProduced(p)
      BY <2>2, <3>4 DEF Mpmc!LoadTail, Mpmc!CheckRoom, Mpmc!StoreItem, Mpmc!CountProduced
    <3>5. CASE \/ Mpmc!CheckProduced(c) \/ Mpmc!LoadHead(c) \/ Mpmc!CheckEmpty(c) \/ Mpmc!LoadItem(c)
      BY <2>2, <3>5 DEF Mpmc!CheckProduced, Mpmc!LoadHead, Mpmc!CheckEmpty, Mpmc!LoadItem
    <3> QED
      BY <2>3, <3>1, <3>2, <3>3, <3>4, <3>5
      DEF Mpmc!Next, Mpmc!ProducerStep, Mpmc!ConsumerStep
  <2> QED
    BY <2>1, <2>2, <2>3 DEF Next, vars, mpmcVars, RunsFutex, RunsPipe, RunsMpmc, RunsWork
<1> QED
  BY <1>1, <1>2, QueueInvariant, PTL DEF Spec, QueueImplementsFifo, Mpmc!ImplementsFifo, Mpmc!Fifo!Spec

(* With one producer and one consumer a call of sync_mpmc ends with every   *)
(* item taken out, in order, and all but the item 0 counted                 *)
(* (sync_mpmc.c:48, 61-73).                                                 *)
THEOREM NothingStaysInside ==
  ASSUME NEW p, Producers = {p}, NEW c, Consumers = {c}
  PROVE  Spec => []Mpmc!AllConsumed
<1>1. QueueInv(p, c) => Mpmc!AllConsumed
  <2>1. SUFFICES ASSUME QueueInv(p, c), Mpmc!Over
                 PROVE  received = sent /\ consumed = Mpmc!Target - Mpmc!Cardinality(Producers)
    BY DEF Mpmc!AllConsumed
  <2>2. cpc[c] = "exit"
    BY <2>1 DEF Mpmc!Over
  <2>3. Inside = 0 /\ consumed = Ops - 1
    BY <2>1, <2>2 DEF QueueInv, ConsumerInv
  <2>4. Len(received) = Len(sent)
    BY <2>1, <2>3 DEF QueueInv, RingInv, Inside
  <2>5. received = sent
    BY <2>1, <2>4, SeqEqual DEF QueueInv, RingInv
  <2>6. Mpmc!Cardinality(Producers) = 1
    BY FS_Singleton DEF Mpmc!Cardinality, Cardinality
  <2> QED
    BY <2>3, <2>5, <2>6, TargetIs
<1> QED
  BY <1>1, QueueInvariant, PTL

-----------------------------------------------------------------------------
(* The benchmarks that only count.                                          *)

Kind == IF bench \in WorkKinds THEN bench ELSE "sync-mutex"

Locked == Kind \in {"sync-mutex", "sync-rwlock"}

(* The first worker that is not joined.                                     *)
Begun == CASE wmpc = "join" -> k [] wmpc \in {"warmup", "idle", "over"} -> created [] OTHER -> 0

(* The operations worker t has done, and those the workers of T have done   *)
(* between them.                                                            *)
Does(t) == Work!Share(t) - n[t] + IF wpc[t] = "unlock" THEN 1 ELSE 0

Done(T) == {d \in T \X (1..WorkOps) : d[1] < created /\ d[2] <= Does(d[1])}

Writing == {t \in Work!Slots : Work!IsWriter(t)}
Reading == Work!Slots \ Writing

MainInv ==
  /\ wmpc = "create" => k = created
  /\ wmpc \in {"spin", "count"} => Kind = "cswitch-smt"
  /\ wmpc = "release" => Locked
  /\ wmpc = "join" => k <= created
  /\ wmpc \in {"warmup", "over"} => created = 0
  /\ wmpc = "idle" /\ Kind # "proc-pthread" => created \in {0, Work!Threads}
  /\ wmpc \in {"release", "spin", "count", "join"} /\ Kind # "proc-pthread" =>
       created = Work!Threads
  /\ wmpc = "count" => k <= WorkOps
  /\ wmpc \in {"release", "spin"} => k = 0

WorkerInv(t) ==
  /\ wpc[t] # "none" <=> Begun <= t /\ t < created
  /\ wpc[t] \in {"lock", "unlock"} => Locked
  /\ wpc[t] = "add" => Kind # "proc-pthread"
  /\ n[t] <= Work!Share(t) \/ t >= created
  /\ t < created /\ Kind # "proc-pthread" /\ wpc[t] \in {"none", "exit"} => n[t] = 0
  /\ Locked /\ wpc[t] \in {"add", "unlock"} => n[t] > 0

LockInv ==
  /\ writer # Work!None => Locked /\ wpc[writer] \in {"add", "unlock"} /\ Work!IsWriter(writer)
  /\ \A t \in readers : Locked /\ wpc[t] \in {"add", "unlock"} /\ ~Work!IsWriter(t)

(* A call has begun to count.                                               *)
Counting == wmpc \notin {"warmup", "over"} /\ (wmpc = "idle" => created > 0)

CountInv ==
  /\ Counting /\ Locked => countA = Cardinality(Done(Writing)) /\ countB = Cardinality(Done(Reading))
  /\ Counting /\ Kind = "cswitch-smt" =>
      /\ countA = CASE wmpc = "count" -> k [] wmpc \in {"join", "idle"} -> WorkOps [] OTHER -> 0
      /\ countB = IF created = 0 THEN 0 ELSE WorkOps - n[0]

WorkInv ==
  Work!TypeOK /\ MainInv /\ (\A t \in Work!Slots : WorkerInv(t)) /\ LockInv /\ CountInv

LEMMA WorkSizes ==
  /\ CPUs \in Nat \ {0} /\ WorkOps \in Nat \ {0} /\ WarmOps \in Nat
  /\ Kind \in WorkKinds
  /\ Work!Threads \in Nat \ {0} /\ 0..Work!Threads - 1 \subseteq Work!Slots
  /\ Work!Slots \subseteq Nat
  /\ Kind = "cswitch-smt" => Work!Threads = 1
  /\ \A t \in Work!Slots : Work!Share(t) \in 0..WorkOps
  /\ Kind # "sync-rwlock" => \A t \in Work!Slots : Work!IsWriter(t) /\ Work!Share(t) = WorkOps
BY WorkAssumption
DEF Work!WorkersAssumption, Work!Threads, Work!Slots, Work!Share, Work!IsWriter, Kind, WorkKinds

LEMMA WorkSame ==
  ASSUME bench' = bench
  PROVE  /\ Kind' = Kind /\ Work!Threads' = Work!Threads
         /\ \A t \in Work!Slots : /\ Work!IsWriter(t)' = Work!IsWriter(t)
                                  /\ Work!Share(t)' = Work!Share(t)
BY DEF Work!Threads, Work!Share, Work!IsWriter, Work!NWriters, Work!NReaders, Kind

LEMMA WorkTypeStep ==
  ASSUME WorkInv, Work!Next, bench' = bench PROVE Work!TypeOK'
<1> USE WorkSizes, WorkSame DEF WorkInv, Work!TypeOK, Work!mainVars, Work!workVars, Work!lockVars
<1>1. Kind \in Work!Kinds /\ Kind' \in Work!Kinds
  BY DEF Work!Kinds, WorkKinds
<1>2. CASE Work!Warmup
  BY <1>1, <1>2 DEF Work!Warmup, Kind
<1>3. CASE Work!Call
  <2>1. k' \in 0..(Work!Threads + WorkOps) /\ created' \in 0..Work!Threads
    BY <1>3 DEF Work!Call
  <2> QED
    BY <1>1, <1>3, <2>1 DEF Work!Call, Kind
<1>4. CASE Work!Create /\ k < Work!Threads
  <2>1. k \in Work!Slots /\ k + 1 \in 0..(Work!Threads + WorkOps) /\ Work!Share(k) \in 0..WorkOps
    BY <1>4
  <2>2. created' \in 0..Work!Threads
    BY <1>4 DEF Work!Create, MainInv
  <2>3. /\ k' = k + 1 /\ wpc' = [wpc EXCEPT ![k] = "start"]
        /\ n' = [n EXCEPT ![k] = Work!Share(k)]
        /\ UNCHANGED << wmpc, ret, ready, countA, countB, writer, readers >>
    BY <1>4 DEF Work!Create
  <2> QED
    BY <1>1, <2>1, <2>2, <2>3 DEF Kind
<1>5. CASE Work!Create /\ ~(k < Work!Threads)
  BY <1>1, <1>5 DEF Work!Create, Work!AfterCreate, Kind
<1>6. CASE Work!CreateFails
  BY <1>1, <1>6 DEF Work!CreateFails, Kind
<1>7. CASE Work!Release \/ Work!SpinReady
  BY <1>1, <1>7 DEF Work!Release, Work!SpinReady, Kind
<1>8. CASE Work!CountPing
  BY <1>1, <1>8 DEF Work!CountPing, Kind
<1>9. CASE Work!Join
  BY <1>1, <1>9 DEF Work!Join, Kind
<1>10. ASSUME NEW t \in Work!Slots, Work!Start(t) \/ Work!Lock(t) PROVE Work!TypeOK'
  BY <1>1, <1>10 DEF Work!Start, Work!Lock, Kind
<1>11. ASSUME NEW t \in Work!Slots, Work!Add(t)
      PROVE  Work!TypeOK'
  BY <1>1, <1>11 DEF Work!Add, Kind
<1>12. ASSUME NEW t \in Work!Slots, Work!Unlock(t) 
      PROVE  Work!TypeOK'
  <2>1. n' = [n EXCEPT ![t] = @ - 1] /\ n[t] > 0 /\ n' \in [Work!Slots -> 0..WorkOps]
    BY <1>12 DEF Work!Unlock, WorkerInv, Locked
  <2>2. /\ wpc' = [wpc EXCEPT ![t] = "lock"]
        /\ UNCHANGED << wmpc, k, created, ret, ready, countA, countB >>
        /\ writer' \in {writer, Work!None} /\ readers' \subseteq readers
    BY <1>12 DEF Work!Unlock
  <2> QED
    BY <1>1, <2>1, <2>2 DEF Kind
<1>13. ASSUME NEW t \in Work!Slots, Work!CountPong(t) 
      PROVE  Work!TypeOK'
  BY <1>1, <1>13 DEF Work!CountPong, Kind
<1> QED
  BY <1>2, <1>4, <1>6, <1>8, <1>10, <1>11, <1>12, <1>13, <1>3, <1>5, <1>7, <1>9
  DEF Work!Next, Work!MainStep, Work!WorkerStep

LEMMA MainInvStep ==
  ASSUME WorkInv, Work!Next, bench' = bench PROVE MainInv'
<1> USE WorkSizes, WorkSame
    DEF WorkInv, MainInv, Work!TypeOK, Work!mainVars, Work!workVars, Work!lockVars, Locked
<1>1. CASE Work!Warmup \/ Work!Call
  BY <1>1 DEF Work!Warmup, Work!Call, Kind
<1>2. CASE Work!Create
  <2>1. CASE k < Work!Threads
    BY <1>2, <2>1 DEF Work!Create
  <2>2. CASE ~(k < Work!Threads)
    <3>1. k' = 0 /\ created' = created /\ created = Work!Threads
      BY <1>2, <2>2 DEF Work!Create
    <3>2. wmpc' = CASE Kind = "cswitch-smt" -> "spin"
                    [] Kind = "proc-pthread" -> "join"
                    [] OTHER -> "release"
      BY <1>2, <2>2 DEF Work!Create, Work!AfterCreate, Kind
    <3> QED
      BY <3>1, <3>2 DEF WorkKinds
  <2> QED
    BY <2>1, <2>2
<1>3. CASE Work!CreateFails
  BY <1>3 DEF Work!CreateFails, Kind
<1>4. CASE Work!Release \/ Work!SpinReady
  BY <1>4 DEF Work!Release, Work!SpinReady, Kind
<1>5. CASE Work!CountPing \/ Work!Join
  BY <1>5 DEF Work!CountPing, Work!Join, Kind
<1>6. ASSUME NEW t \in Work!Slots, Work!WorkerStep(t) PROVE MainInv'
  BY <1>6 DEF Work!WorkerStep, Work!Start, Work!Lock, Work!Add, Work!Unlock, Work!CountPong
<1> QED
  BY <1>1, <1>2, <1>3, <1>4, <1>5, <1>6 DEF Work!Next, Work!MainStep

LEMMA WorkerInvStep ==
  ASSUME WorkInv, Work!Next, bench' = bench, NEW u \in Work!Slots PROVE WorkerInv(u)'
<1> USE WorkSizes, WorkSame
    DEF WorkInv, WorkerInv, Begun, Work!TypeOK, Work!mainVars, Work!workVars, Work!lockVars, Locked
<1>1. CASE Work!Warmup \/ Work!Call
  BY <1>1 DEF Work!Warmup, Work!Call, MainInv, Kind
<1>2. CASE Work!Create
  BY <1>2 DEF Work!Create, Work!AfterCreate, MainInv, Kind
<1>3. CASE Work!CreateFails
  BY <1>3 DEF Work!CreateFails, MainInv, Kind
<1>4. CASE Work!Release \/ Work!SpinReady
  BY <1>4 DEF Work!Release, Work!SpinReady, MainInv, Kind
<1>5. CASE Work!CountPing
  BY <1>5 DEF Work!CountPing, MainInv, Kind
<1>6. CASE Work!Join
  BY <1>6 DEF Work!Join, MainInv, Kind
<1>7. ASSUME NEW t \in Work!Slots, Work!Start(t) PROVE WorkerInv(u)'
  <2>1. CASE u = t
    <3>1. /\ wpc[t] = "start" /\ n' = n /\ UNCHANGED << wmpc, k, created >>
          /\ \/ Kind = "cswitch-smt" /\ wpc'[t] = "add"
             \/ Kind = "proc-pthread" /\ wpc'[t] = "exit"
             \/ Locked /\ wpc'[t] = "lock"
      BY <1>7 DEF Work!Start, Kind, WorkKinds
    <3> QED
      BY <2>1, <3>1
  <2>2. CASE u # t
    <3>1. wpc'[u] = wpc[u] /\ n' = n
      BY <1>7, <2>2 DEF Work!Start
    <3>2. UNCHANGED << wmpc, k, created >>
      BY <1>7 DEF Work!Start
    <3> QED
      BY <3>1, <3>2
  <2> QED
    BY <2>1, <2>2
<1>8. ASSUME NEW t \in Work!Slots, Work!Lock(t) PROVE WorkerInv(u)'
  BY <1>8 DEF Work!Lock, Kind
<1>9. ASSUME NEW t \in Work!Slots, Work!Add(t) PROVE WorkerInv(u)'
  <2>1. wpc[t] = "add" /\ wpc' = [wpc EXCEPT ![t] = "unlock"] /\ n' = n /\ Kind # "cswitch-smt"
    BY <1>9 DEF Work!Add, Kind
  <2>2. UNCHANGED << wmpc, k, created >>
    BY <1>9 DEF Work!Add
  <2> QED
    BY <2>1, <2>2 DEF WorkKinds
<1>10. ASSUME NEW t \in Work!Slots, Work!Unlock(t) PROVE WorkerInv(u)'
  BY <1>10 DEF Work!Unlock, Kind
<1>11. ASSUME NEW t \in Work!Slots, Work!CountPong(t) PROVE WorkerInv(u)'
  BY <1>11 DEF Work!CountPong, Kind
<1> QED
  BY <1>1, <1>2, <1>3, <1>4, <1>5, <1>6, <1>7, <1>8, <1>9, <1>10, <1>11
  DEF Work!Next, Work!MainStep, Work!WorkerStep

LEMMA LockInvStep ==
  ASSUME WorkInv, Work!Next, bench' = bench PROVE LockInv'
<1> USE WorkSizes, WorkSame
    DEF WorkInv, LockInv, Work!TypeOK, Work!mainVars, Work!workVars, Work!lockVars, Locked
<1>1. CASE Work!Warmup \/ Work!Call \/ Work!CreateFails \/ Work!Release \/ Work!SpinReady
           \/ Work!CountPing
  BY <1>1 DEF Work!Warmup, Work!Call, Work!CreateFails, Work!Release, Work!SpinReady,
              Work!CountPing, Kind
<1>2. CASE Work!Create
  BY <1>2 DEF Work!Create, MainInv, WorkerInv, Begun, Kind
<1>6. CASE Work!Join
  BY <1>6 DEF Work!Join, MainInv, Kind
<1>7. ASSUME NEW t \in Work!Slots, Work!Start(t) PROVE LockInv'
  BY <1>7 DEF Work!Start, Kind
<1>8. ASSUME NEW t \in Work!Slots, Work!Lock(t) PROVE LockInv'
  <2>1. CASE n[t] = 0
    <3>1. wpc' = [wpc EXCEPT ![t] = "exit"] /\ wpc[t] = "lock" /\ writer' = writer /\ readers' = readers
      BY <1>8, <2>1 DEF Work!Lock
    <3> QED
      BY <3>1 DEF Kind
  <2>2. CASE n[t] # 0
    <3>1. /\ wpc' = [wpc EXCEPT ![t] = "add"] /\ wpc[t] = "lock" /\ Locked
          /\ IF Work!IsWriter(t) THEN writer' = t /\ readers' = readers
                                ELSE writer' = writer /\ readers' = readers \cup {t}
      BY <1>8, <2>2 DEF Work!Lock, WorkerInv
    <3>2. t # writer /\ t \notin readers
      BY <3>1 DEF Work!None
    <3>3. \A s \in Work!Slots : s # t => wpc'[s] = wpc[s]
      BY <3>1
    <3>4. wpc'[t] = "add"
      BY <3>1
    <3>5. Locked'
      BY <3>1
    <3> QED
      BY <3>1, <3>2, <3>3, <3>4, <3>5
  <2> QED
    BY <2>1, <2>2
<1>9. ASSUME NEW t \in Work!Slots, Work!Add(t) PROVE LockInv'
  BY <1>9 DEF Work!Add, Kind
<1>10. ASSUME NEW t \in Work!Slots, Work!Unlock(t) PROVE LockInv'
  <2>1. /\ wpc' = [wpc EXCEPT ![t] = "lock"] /\ wpc[t] = "unlock"
        /\ IF Work!IsWriter(t) THEN writer' = Work!None /\ readers' = readers
                              ELSE writer' = writer /\ readers' = readers \ {t}
    BY <1>10 DEF Work!Unlock
  <2> QED
    BY <2>1 DEF Kind
<1>11. ASSUME NEW t \in Work!Slots, Work!CountPong(t) PROVE LockInv'
  BY <1>11 DEF Work!CountPong, Kind
<1> QED
  BY <1>1, <1>2, <1>6, <1>7, <1>8, <1>9, <1>10, <1>11
  DEF Work!Next, Work!MainStep, Work!WorkerStep
LEMMA DoneIsFinite ==
  ASSUME NEW T \in SUBSET Work!Slots PROVE IsFiniteSet(Done(T))
<1>1. IsFiniteSet(Work!Slots) /\ IsFiniteSet(1..WorkOps)
  <2>1. PICK top \in Nat : Work!Slots = 0..top
    BY WorkSizes DEF Work!Slots
  <2> QED
    BY <2>1, FS_Interval, WorkSizes
<1>2. IsFiniteSet(Work!Slots \X (1..WorkOps))
  BY <1>1, FS_Product
<1> QED
  BY <1>2, FS_Subset DEF Done

(* Nothing is done by a step that leaves alone what every worker has done.  *)
LEMMA DoneSame ==
  ASSUME NEW T \in SUBSET Work!Slots,
         \A t \in T : (t < created') = (t < created) /\ (t < created => Does(t)' = Does(t))
  PROVE  Done(T)' = Done(T)
<1>1. \A t \in T, j \in 1..WorkOps :
        (t < created' /\ j <= Does(t)') <=> (t < created /\ j <= Does(t))
  OBVIOUS
<1>2. Done(T)' = {d \in T \X (1..WorkOps) : d[1] < created' /\ d[2] <= Does(d[1])'}
  BY DEF Done
<1> QED
  BY <1>1, <1>2 DEF Done

LEMMA DoneOneMore ==
  ASSUME NEW T \in SUBSET Work!Slots, NEW t \in T, t < created, created' = created,
         Does(t) \in 0..WorkOps - 1, Does(t)' = Does(t) + 1,
         \A u \in T : u # t => Does(u)' = Does(u)
  PROVE  Cardinality(Done(T))' = Cardinality(Done(T)) + 1
<1> DEFINE new == << t, Does(t) + 1 >>
<1>1. Done(T)' = {d \in T \X (1..WorkOps) : d[1] < created' /\ d[2] <= Does(d[1])'}
  BY DEF Done
<1>2. \A u \in T, j \in 1..WorkOps :
        j <= Does(u)' <=> (j <= Does(u) \/ (u = t /\ j = Does(t) + 1))
  OBVIOUS
<1>3. new \in T \X (1..WorkOps)
  BY WorkSizes
<1>4. Done(T)' = Done(T) \cup {new}
  BY <1>1, <1>2, <1>3 DEF Done
<1>5. new \notin Done(T)
  BY DEF Done
<1> QED
  BY <1>4, <1>5, DoneIsFinite, FS_AddElement, ZenonT(60)

(* What a worker of a benchmark with a lock has done lies within its share. *)
LEMMA DoesBounds ==
  ASSUME WorkInv, Locked, NEW t \in Work!Slots, t < created
  PROVE  /\ Does(t) \in 0..WorkOps /\ Does(t) <= Work!Share(t)
         /\ wpc[t] = "add" => Does(t) < Work!Share(t)
         /\ wpc[t] = "none" => Does(t) = Work!Share(t)
BY WorkSizes DEF WorkInv, Work!TypeOK, WorkerInv, Does, Locked

LEMMA CountInvStep ==
  ASSUME WorkInv, Work!Next, bench' = bench PROVE CountInv'
<1> USE WorkSizes, WorkSame
<1> DEFINE Same(T) == Done(T)' = Done(T)
<1>1. Writing' = Writing /\ Reading' = Reading
  BY DEF Writing, Reading
<1>2. Writing \in SUBSET Work!Slots /\ Reading \in SUBSET Work!Slots
  BY DEF Writing, Reading
<1>3. (Locked' <=> Locked) /\ Kind' = Kind
  BY DEF Locked
<1>4. ASSUME created' = created, \A t \in Work!Slots : t < created => Does(t)' = Does(t),
             UNCHANGED << countA, countB >>, Counting' => Counting, Locked
      PROVE  CountInv'
  <2>1. Done(Writing)' = Done(Writing) /\ Done(Reading)' = Done(Reading)
    BY <1>4, <1>1, <1>2, DoneSame
  <2> QED
    BY <1>3, <1>4, <2>1 DEF WorkInv, CountInv, Locked
<1>5. CASE Locked /\ (Work!Warmup \/ Work!CreateFails)
  BY <1>5, <1>3 DEF WorkInv, MainInv, Work!Warmup, Work!CreateFails, CountInv, Counting, Kind, Locked
<1>6. CASE Locked /\ Work!Call
  <2>1. created' = 0 /\ countA' = 0 /\ countB' = 0
    BY <1>6 DEF Work!Call
  <2>2. Done(Writing)' = {} /\ Done(Reading)' = {}
    <3>1. ASSUME NEW T \in SUBSET Work!Slots PROVE Done(T)' = {}
      <4>1. \A t \in T : ~(t < created')
        BY <2>1
      <4> QED
        BY <4>1 DEF Done
    <3> QED
      BY <3>1, <1>1, <1>2
  <2> QED
    BY <1>6, <1>3, <2>1, <2>2, FS_EmptySet DEF CountInv, Locked
<1>7. CASE Locked /\ Work!Create /\ k < Work!Threads
  <2>1. /\ created = k /\ created' = k + 1 /\ n' = [n EXCEPT ![k] = Work!Share(k)]
        /\ wpc' = [wpc EXCEPT ![k] = "start"] /\ wmpc = "create" /\ wmpc' = "create"
        /\ countA' = countA /\ countB' = countB /\ k \in Work!Slots
    BY <1>7 DEF Work!Create, WorkInv, MainInv, Work!workVars, Work!TypeOK
  <2>2. PICK w \in Work!Slots : w = k
    BY <2>1
  <2>3. Does(w)' = 0
    <3>1. n'[w] = Work!Share(w) /\ wpc'[w] = "start"
      BY <2>1, <2>2 DEF WorkInv, Work!TypeOK
    <3> QED
      BY <3>1 DEF Does
  <2>4. \A t \in Work!Slots : t < w => Does(t)' = Does(t)
    BY <2>1, <2>2 DEF Does, WorkInv, Work!TypeOK
  <2>5. ASSUME NEW T \in SUBSET Work!Slots PROVE Done(T)' = Done(T)
    <3>1. ASSUME NEW t \in T, NEW j \in 1..WorkOps
          PROVE  (t < created' /\ j <= Does(t)') <=> (t < created /\ j <= Does(t))
      <4>1. t \in Nat /\ w \in Nat /\ created = w /\ created' = w + 1
        BY <2>1, <2>2
      <4>2. CASE t < w
        BY <2>4, <4>1, <4>2
      <4>3. CASE t = w
        BY <2>3, <4>1, <4>3
      <4>4. CASE t > w
        BY <4>1, <4>4
      <4> QED
        BY <4>1, <4>2, <4>3, <4>4
    <3>2. Done(T)' = {d \in T \X (1..WorkOps) : d[1] < created' /\ d[2] <= Does(d[1])'}
      BY DEF Done
    <3> QED
      BY <3>1, <3>2 DEF Done
  <2>6. Done(Writing)' = Done(Writing) /\ Done(Reading)' = Done(Reading)
    BY <2>5, <1>1, <1>2
  <2> QED
    BY <1>7, <1>3, <2>1, <2>6 DEF WorkInv, CountInv, Counting, Locked
<1>8. CASE Locked /\ ((Work!Create /\ ~(k < Work!Threads)) \/ Work!Release)
  BY <1>4, <1>8 DEF Work!Create, Work!Release, Work!workVars, Does, Counting, WorkInv
<1>9. CASE Locked /\ (Work!SpinReady \/ Work!CountPing)
  BY <1>9 DEF Work!SpinReady, Work!CountPing, WorkInv, MainInv, Locked
<1>10. CASE Locked /\ Work!Join
  <2>1. /\ created' = created /\ n' = n /\ countA' = countA /\ countB' = countB
        /\ wmpc = "join"
        /\ wpc' = wpc \/ (k \in Work!Slots /\ wpc[k] = "exit" /\ wpc' = [wpc EXCEPT ![k] = "none"])
    BY <1>10 DEF Work!Join, Work!workVars, WorkInv, Work!TypeOK
  <2>2. \A t \in Work!Slots : t < created => Does(t)' = Does(t)
    BY <2>1 DEF Does, WorkInv, Work!TypeOK
  <2> QED
    BY <1>4, <1>10, <2>1, <2>2 DEF Counting
<1>11. ASSUME NEW t \in Work!Slots, Locked, Work!Start(t) \/ Work!Lock(t) PROVE CountInv'
  <2>1. /\ created' = created /\ n' = n /\ countA' = countA /\ countB' = countB /\ wmpc' = wmpc
        /\ wpc[t] \in {"start", "lock"} /\ wpc'[t] # "unlock"
        /\ \A u \in Work!Slots : u # t => wpc'[u] = wpc[u]
    BY <1>11 DEF Work!Start, Work!Lock, Work!mainVars, Work!workVars, WorkInv, Work!TypeOK
  <2>2. \A u \in Work!Slots : u < created => Does(u)' = Does(u)
    BY <2>1 DEF Does
  <2> QED
    BY <1>4, <1>11, <2>1, <2>2 DEF Counting
<1>12. ASSUME NEW t \in Work!Slots, Locked, Work!Add(t) PROVE CountInv'
  <2>1. /\ UNCHANGED << wmpc, created, n >>
        /\ wpc[t] = "add" /\ wpc' = [wpc EXCEPT ![t] = "unlock"] /\ t < created
        /\ IF Work!IsWriter(t) THEN countA' = countA + 1 /\ countB' = countB
                                ELSE countB' = countB + 1 /\ countA' = countA
    BY <1>12 DEF Work!Add, Work!mainVars, WorkInv, WorkerInv
  <2>2. Does(t)' = Does(t) + 1 /\ \A u \in Work!Slots : u # t => Does(u)' = Does(u)
    BY <2>1, WorkSizes DEF Does, WorkInv, Work!TypeOK
  <2>3. Does(t) \in 0..WorkOps - 1
    BY <1>12, <2>1, DoesBounds
  <2>4. CASE Work!IsWriter(t)
    <3>1. Cardinality(Done(Writing))' = Cardinality(Done(Writing)) + 1
      BY <1>2, <2>1, <2>2, <2>3, <2>4, DoneOneMore DEF Writing
    <3>2. Done(Reading)' = Done(Reading)
      BY <1>2, <2>1, <2>2, <2>4, DoneSame DEF Writing, Reading
    <3> QED
      BY <1>12, <1>1, <1>3, <2>1, <2>4, <3>1, <3>2 DEF WorkInv, CountInv, Counting, Locked
  <2>5. CASE ~Work!IsWriter(t)
    <3>1. Cardinality(Done(Reading))' = Cardinality(Done(Reading)) + 1
      BY <1>2, <2>1, <2>2, <2>3, <2>5, DoneOneMore DEF Writing, Reading
    <3>2. Done(Writing)' = Done(Writing)
      BY <1>2, <2>1, <2>2, <2>5, DoneSame DEF Writing
    <3> QED
      BY <1>12, <1>1, <1>3, <2>1, <2>5, <3>1, <3>2 DEF WorkInv, CountInv, Counting, Locked
  <2> QED
    BY <2>4, <2>5
<1>13. ASSUME NEW t \in Work!Slots, Locked, Work!Unlock(t) PROVE CountInv'
  <2>1. /\ UNCHANGED << wmpc, created, countA, countB >>
        /\ wpc[t] = "unlock" /\ wpc' = [wpc EXCEPT ![t] = "lock"] /\ n' = [n EXCEPT ![t] = @ - 1]
    BY <1>13 DEF Work!Unlock, Work!mainVars, Work!workVars
  <2>2. \A u \in Work!Slots : u < created => Does(u)' = Does(u)
    BY <2>1, WorkSizes DEF Does, WorkInv, Work!TypeOK
  <2> QED
    BY <1>4, <1>13, <2>1, <2>2 DEF Counting
<1>14. ASSUME NEW t \in Work!Slots, Locked, Work!CountPong(t) PROVE FALSE
  BY <1>14 DEF Work!CountPong, Locked, Kind
<1>15. CASE Kind = "proc-pthread"
  BY <1>15, <1>3 DEF CountInv, Locked
<1>16. CASE Kind = "cswitch-smt"
  <2>1. /\ 0 \in Work!Slots /\ Work!Threads = 1 /\ Work!Share(0) = WorkOps
        /\ created \in {0, 1} /\ created = 1 => \A t \in Work!Slots : wpc[t] # "none" => t = 0
    BY <1>16 DEF WorkInv, Work!TypeOK, WorkerInv
  <2> USE <1>16, <1>3, <2>1 DEF WorkInv, CountInv, Counting, Locked, Work!TypeOK, Work!mainVars,
          Work!workVars, Work!lockVars
  <2>2. CASE Work!Warmup \/ Work!CreateFails
    BY <2>2 DEF MainInv, Work!Warmup, Work!CreateFails, Kind
  <2>3. CASE Work!Call \/ Work!Release
    BY <2>3 DEF Work!Call, Work!Release, Kind, MainInv
  <2>4. CASE Work!Create
    BY <2>4 DEF Work!Create, Work!AfterCreate, Kind, MainInv
  <2>5. CASE Work!SpinReady \/ Work!CountPing
    BY <2>5 DEF Work!SpinReady, Work!CountPing, MainInv, Kind
  <2>6. CASE Work!Join
    BY <2>6 DEF Work!Join, MainInv, Kind
  <2>7. ASSUME NEW t \in Work!Slots, Work!Start(t) \/ Work!Lock(t) \/ Work!Add(t) \/ Work!Unlock(t)
        PROVE  CountInv'
    BY <2>7 DEF Work!Start, Work!Lock, Work!Add, Work!Unlock, WorkerInv, Kind
  <2>8. ASSUME NEW t \in Work!Slots, Work!CountPong(t) PROVE CountInv'
    BY <2>8 DEF Work!CountPong, WorkerInv, Kind
  <2> QED
    BY <2>2, <2>3, <2>4, <2>5, <2>6, <2>7, <2>8
    DEF Work!Next, Work!MainStep, Work!WorkerStep
<1> QED
  BY <1>5, <1>6, <1>7, <1>8, <1>9, <1>10, <1>11, <1>12, <1>13, <1>14, <1>15, <1>16
  DEF Work!Next, Work!MainStep, Work!WorkerStep, Locked, WorkKinds
(* Workers that have done their shares have done these between them.        *)
LEMMA DoneIsAll ==
  ASSUME WorkInv, Locked, wmpc = "idle", created > 0, NEW a \in Nat, NEW z \in Int, z >= a - 1,
         NEW T \in SUBSET Work!Slots, NEW share \in Nat, z < created,
         \A t \in T : t < created <=> t \in a..z,
         a..z \subseteq T, \A t \in T : Work!Share(t) = share
  PROVE  Cardinality(Done(T)) = (z - a + 1) * share
<1>1. ASSUME NEW t \in a..z PROVE Does(t) = share /\ share <= WorkOps
  <2>1. t \in Work!Slots /\ t < created /\ wpc[t] = "none"
    BY WorkSizes DEF WorkInv, WorkerInv, Begun, Work!TypeOK
  <2> QED
    BY <2>1, DoesBounds
<1>2. Done(T) = (a..z) \X (1..share)
  <2>1. \A t \in T, j \in Nat :
          (j \in 1..WorkOps /\ t < created /\ j <= Does(t)) <=> (t \in a..z /\ j \in 1..share)
    BY <1>1, WorkSizes
  <2> QED
    BY <2>1 DEF Done
<1>3. IsFiniteSet(a..z) /\ Cardinality(a..z) = z - a + 1
  BY FS_Interval, SMTT(30)
<1>4. IsFiniteSet(1..share) /\ Cardinality(1..share) = share
  BY FS_Interval
<1> QED
  BY <1>2, <1>3, <1>4, FS_Product, ZenonT(60)

LEMMA WorkCounts == WorkInv => Work!CountsOwnWork
<1>1. SUFFICES ASSUME WorkInv, wmpc = "idle", created > 0
               PROVE  /\ \A t \in Work!Slots : wpc[t] = "none"
                      /\ writer = Work!None /\ readers = {}
                      /\ Kind = "sync-mutex" => countA = Work!Threads * WorkOps
                      /\ Kind = "sync-rwlock" => /\ countA = Work!NWriters * (WorkOps \div 3)
                                                 /\ countB = Work!NReaders * WorkOps
                      /\ Kind = "cswitch-smt" => countA + countB = 2 * WorkOps
  BY WorkSizes DEF Work!CountsOwnWork, Kind, WorkKinds
<1>2. \A t \in Work!Slots : wpc[t] = "none"
  BY <1>1, WorkSizes DEF WorkInv, WorkerInv, Begun, Work!TypeOK
<1>3. writer = Work!None /\ readers = {}
  BY <1>1, <1>2 DEF WorkInv, LockInv, Work!TypeOK
<1>4. Writing \in SUBSET Work!Slots /\ Reading \in SUBSET Work!Slots
  BY DEF Writing, Reading
<1>5. Kind # "proc-pthread" => created = Work!Threads
  BY <1>1 DEF WorkInv, MainInv
<1>6. CASE Kind = "sync-mutex"
  <2>1. countA = Cardinality(Done(Writing))
    BY <1>1, <1>6 DEF WorkInv, CountInv, Counting, Locked
  <2>2. Cardinality(Done(Writing)) = (Work!Threads - 1 - 0 + 1) * WorkOps
    <3>1. /\ 0 \in Nat /\ Work!Threads - 1 \in Int /\ Work!Threads - 1 >= 0 - 1 /\ Work!Threads - 1 < created /\ WorkOps \in Nat
          /\ \A t \in Writing : t < created <=> t \in 0..Work!Threads - 1
          /\ 0..Work!Threads - 1 \subseteq Writing /\ \A t \in Writing : Work!Share(t) = WorkOps
      BY <1>1, <1>5, <1>6, WorkSizes DEF Writing, Reading
    <3> QED
      BY <1>1, <1>4, <1>6, <3>1, DoneIsAll DEF Locked
  <2> QED
    BY <1>2, <1>3, <1>6, <2>1, <2>2, WorkSizes
<1>7. CASE Kind = "sync-rwlock"
  <2>1. countA = Cardinality(Done(Writing)) /\ countB = Cardinality(Done(Reading))
    BY <1>1, <1>7 DEF WorkInv, CountInv, Counting, Locked
  <2>2. /\ Work!NWriters \in 0..Work!Threads /\ Work!NReaders = Work!Threads - Work!NWriters
        /\ \A t \in Work!Slots : Work!IsWriter(t) <=> t < Work!NWriters
        /\ \A t \in Work!Slots : Work!Share(t) = IF t < Work!NWriters THEN WorkOps \div 3
                                                                     ELSE WorkOps
    BY <1>7, WorkSizes DEF Work!NWriters, Work!NReaders, Work!IsWriter, Work!Share, Kind
  <2>3. Cardinality(Done(Writing)) = (Work!NWriters - 1 - 0 + 1) * (WorkOps \div 3)
    <3>1. /\ 0 \in Nat /\ Work!NWriters - 1 \in Int /\ Work!NWriters - 1 >= 0 - 1 /\ Work!NWriters - 1 < created /\ (WorkOps \div 3) \in Nat
          /\ \A t \in Writing : t < created <=> t \in 0..Work!NWriters - 1
          /\ 0..Work!NWriters - 1 \subseteq Writing /\ \A t \in Writing : Work!Share(t) = (WorkOps \div 3)
      BY <1>1, <1>5, <1>7, <2>2, WorkSizes DEF Writing, Reading
    <3> QED
      BY <1>1, <1>4, <1>7, <2>2, <3>1, DoneIsAll DEF Locked
  <2>4. Cardinality(Done(Reading)) = (Work!Threads - 1 - Work!NWriters + 1) * WorkOps
    <3>1. /\ Work!NWriters \in Nat /\ Work!Threads - 1 \in Int /\ Work!Threads - 1 >= Work!NWriters - 1 /\ Work!Threads - 1 < created /\ WorkOps \in Nat
          /\ \A t \in Reading : t < created <=> t \in Work!NWriters..Work!Threads - 1
          /\ Work!NWriters..Work!Threads - 1 \subseteq Reading /\ \A t \in Reading : Work!Share(t) = WorkOps
      BY <1>1, <1>5, <1>7, <2>2, WorkSizes DEF Writing, Reading
    <3> QED
      BY <1>1, <1>4, <1>7, <2>2, <3>1, DoneIsAll DEF Locked
  <2> QED
    BY <1>2, <1>3, <1>7, <2>1, <2>2, <2>3, <2>4, WorkSizes
<1>8. CASE Kind = "cswitch-smt"
  <2>1. created = 1 /\ 0 \in Work!Slots /\ n[0] = 0
    BY <1>1, <1>2, <1>5, <1>8, WorkSizes DEF WorkInv, WorkerInv, Work!TypeOK
  <2> QED
    BY <1>1, <1>2, <1>3, <1>8, <2>1, WorkSizes DEF WorkInv, CountInv, Counting
<1> QED
  BY <1>2, <1>3, <1>6, <1>7, <1>8
LEMMA WorkInit == Work!Init /\ bench \in Benches => WorkInv
<1>1. SUFFICES ASSUME Work!Init PROVE WorkInv
  OBVIOUS
<1> USE <1>1, WorkSizes DEF Work!Init
<1>2. Work!TypeOK
  <2>1. Kind \in Work!Kinds
    BY DEF Work!Kinds, WorkKinds
  <2>2. 0 \in 0..(Work!Threads + WorkOps) /\ 0 \in 0..Work!Threads /\ 0 \in 0..WorkOps
    OBVIOUS
  <2> QED
    BY <2>1, <2>2 DEF Work!TypeOK, Kind
<1>3. MainInv
  BY DEF MainInv
<1>4. \A t \in Work!Slots : WorkerInv(t)
  BY DEF WorkerInv, Begun
<1>5. LockInv
  BY DEF LockInv
<1>6. CountInv
  BY DEF CountInv, Counting
<1> QED
  BY <1>2, <1>3, <1>4, <1>5, <1>6 DEF WorkInv

LEMMA WorkInvariant == Spec => []WorkInv
<1>1. Init => WorkInv
  BY WorkInit DEF Init
<1>2. WorkInv /\ [Next]_vars => WorkInv'
  <2>1. SUFFICES ASSUME WorkInv, [Next]_vars PROVE WorkInv'
    OBVIOUS
  <2>2. CASE UNCHANGED << bench, workVars >>
    BY <2>1, <2>2 DEF workVars, WorkInv, Work!TypeOK, MainInv, WorkerInv, LockInv, CountInv,
                     Counting, Done, Does, Begun, Locked, Kind, Writing, Reading,
                     Work!IsWriter, Work!Share, Work!Threads, Work!NWriters, Work!NReaders
  <2>3. CASE bench' = bench /\ Work!Next
    BY <2>1, <2>3, WorkTypeStep, MainInvStep, WorkerInvStep, LockInvStep, CountInvStep
    DEF WorkInv
  <2> QED
    BY <2>1, <2>2, <2>3 DEF Next, vars, RunsFutex, RunsPipe, RunsMpmc, RunsWork
<1> QED
  BY <1>1, <1>2, PTL DEF Spec

-----------------------------------------------------------------------------
(* Types.                                                                   *)

(* Each side of the futex counts its rounds up to the last.                 *)
FutexRoundsInv ==
  /\ Futex!TypeOK
  /\ switches = 2 * ti \/ mpc = "idle"
  /\ mpc \in {"store", "wake", "wait", "asleep"} => mi < FutexRounds
  /\ tpc \in {"start", "wait", "asleep", "store", "wake", "count"} => ti < FutexRounds
  /\ mpc = "idle" => tpc = "none"
  /\ mpc = "spin" => mi = 0
  /\ mpc # "idle" => tpc # "none"

LEMMA FutexTypeStep == ASSUME FutexRoundsInv, Futex!Next PROVE FutexRoundsInv'
<1> USE DEF FutexRoundsInv, Futex!TypeOK, Futex!mainVars, Futex!threadVars
<1> FutexRounds \in Nat \ {0}
  BY FutexAssumption DEF Futex!RoundsAssumption
<1>1. CASE Futex!Call
  BY <1>1 DEF Futex!Call
<1>2. CASE Futex!SpinReady \/ Futex!MainStore \/ Futex!MainWake
  BY <1>2 DEF Futex!SpinReady, Futex!MainStore, Futex!MainWake, Futex!WakeThread
<1>3. CASE Futex!MainWait
  BY <1>3 DEF Futex!MainWait, Futex!NextRound
<1>4. CASE Futex!MainJoin
  BY <1>4 DEF Futex!MainJoin
<1>5. CASE Futex!ThreadStart \/ Futex!ThreadWait \/ Futex!ThreadStore
  BY <1>5 DEF Futex!ThreadStart, Futex!ThreadWait, Futex!ThreadStore
<1>6. CASE Futex!ThreadWake
  BY <1>6 DEF Futex!ThreadWake, Futex!WakeMain, Futex!NextRound
<1>7. CASE Futex!ThreadCount
  BY <1>7 DEF Futex!ThreadCount
<1> QED
  BY <1>1, <1>2, <1>3, <1>4, <1>5, <1>6, <1>7 DEF Futex!Next, Futex!MainStep, Futex!ThreadStep

PipeTypes ==
  /\ Pipe!TypeOK
  /\ pong \in {"spin", "read", "write"} => qi < PipeRounds

LEMMA PipeTypeStep == ASSUME PipeInv, PipeInv', PipeTypes, Pipe!Next PROVE PipeTypes'
<1> USE DEF PipeTypes, Pipe!TypeOK, PipeInv, Calling, Pipe!pingVars, Pipe!pongVars
<1> PipeRounds \in Nat \ {0}
  BY PipeAssumption DEF Pipe!RoundsAssumption
<1>1. CASE Pipe!Call
  <2>1. 0 \in 0..PipeRounds /\ 0 \in 0..2 * PipeRounds /\ -1 \in -1..2 * PipeRounds
    OBVIOUS
  <2> QED
    <3>1. /\ bytes' = bytes /\ pi' = 0 /\ qi' = 0 /\ broke' = FALSE /\ failed' = FALSE
          /\ pipeSwitches' = 0
      BY <1>1 DEF Pipe!Call
    <3>2. /\ ping' \in {ping, "start"} /\ pong' \in {"spin", "over"}
          /\ pipeReported' \in {pipeReported, -1}
      BY <1>1 DEF Pipe!Call
    <3>3. pipeReported' \in -1..2 * PipeRounds
      BY <2>1, <3>2
    <3>4. ping' \in {"none", "start", "write", "read", "exit"}
      BY <3>2
    <3>5. bytes' \in Nat /\ pi' \in 0..PipeRounds /\ qi' \in 0..PipeRounds
      BY <2>1, <3>1
    <3>6. broke' \in BOOLEAN /\ failed' \in BOOLEAN /\ pipeSwitches' \in 0..2 * PipeRounds
      BY <2>1, <3>1
    <3>7. pong' \in {"idle", "spin", "read", "write", "join", "over"} /\ qi' < PipeRounds
      BY <3>1, <3>2
    <3> HIDE DEF PipeInv, Calling
    <3> QED
      BY <3>3, <3>4, <3>5, <3>6, <3>7
<1>2. CASE Pipe!PingStart \/ Pipe!PingWrite \/ Pipe!PingFails
  BY <1>2 DEF Pipe!PingStart, Pipe!PingWrite, Pipe!PingFails
<1>3. CASE Pipe!PingRead
  BY <1>3 DEF Pipe!PingRead
<1>4. CASE Pipe!SpinReady \/ Pipe!PongRead \/ Pipe!PongFails
  BY <1>4 DEF Pipe!SpinReady, Pipe!PongRead, Pipe!PongFails
<1>5. CASE Pipe!PongWrite
  BY <1>5 DEF Pipe!PongWrite
<1>6. CASE Pipe!PongJoin
  BY <1>6 DEF Pipe!PongJoin
<1> QED
  BY <1>1, <1>2, <1>3, <1>4, <1>5, <1>6 DEF Pipe!Next, Pipe!PingStep, Pipe!PongStep

LEMMA QueueTypeStep ==
  ASSUME NEW p, Producers = {p}, NEW c, Consumers = {c}, QueueInv(p, c), QueueInv(p, c)',
         Mpmc!TypeOK, Mpmc!Next
  PROVE  Mpmc!TypeOK'
<1> USE Size DEF Mpmc!TypeOK, Mpmc!queueVars, Mpmc!producerVars, Mpmc!consumerVars
<1>1. /\ head' \in Mpmc!Cells /\ tail' \in Mpmc!Cells
      /\ sent' \in Seq(Mpmc!Items) /\ received' \in Seq(Mpmc!Items)
  BY DEF QueueInv, RingInv
<1>2. produced' \in 0..Ops * Mpmc!Cardinality(Producers)
  <2>1. produced' \in 0..Ops
    BY DEF QueueInv, ProducerInv
  <2>2. Ops * Mpmc!Cardinality(Producers) = Ops
    BY TargetIs DEF Mpmc!Target
  <2> QED
    BY <2>1, <2>2
<1>3. consumed' \in Nat /\ local'[c] \in Nat /\ drain'[c] \in BOOLEAN /\ pn'[p] \in 0..Ops
  BY SMTT(30) DEF QueueInv, ProducerInv, ConsumerInv, RingInv
<1>4. ASSUME Mpmc!LoadTail(p) \/ Mpmc!CheckRoom(p) \/ Mpmc!StoreTail(p) PROVE Mpmc!TypeOK'
  BY <1>1, <1>2, <1>3, <1>4 DEF Mpmc!LoadTail, Mpmc!CheckRoom, Mpmc!StoreTail
<1>5. ASSUME Mpmc!StoreItem(p) PROVE Mpmc!TypeOK'
  <2>1. Mpmc!Item(p) \in Mpmc!Items
    BY <1>5 DEF Mpmc!StoreItem, Mpmc!Item, Mpmc!Items, QueueInv, ProducerInv
  <2> QED
    BY <1>1, <1>2, <1>3, <1>5, <2>1 DEF Mpmc!StoreItem
<1>6. ASSUME Mpmc!CountProduced(p) PROVE Mpmc!TypeOK'
  BY <1>1, <1>2, <1>3, <1>6 DEF Mpmc!CountProduced
<1>7. ASSUME Mpmc!CheckProduced(c) \/ Mpmc!LoadHead(c) \/ Mpmc!LoadItem(c) PROVE Mpmc!TypeOK'
  BY <1>1, <1>2, <1>3, <1>7 DEF Mpmc!CheckProduced, Mpmc!LoadHead, Mpmc!LoadItem
<1>8. ASSUME Mpmc!CheckEmpty(c) PROVE Mpmc!TypeOK'
  BY <1>1, <1>2, <1>3, <1>8 DEF Mpmc!CheckEmpty, Mpmc!Returned
<1>9. ASSUME Mpmc!StoreHead(c) PROVE Mpmc!TypeOK'
  BY <1>1, <1>2, <1>3, <1>9 DEF Mpmc!StoreHead, Mpmc!Returned
<1>10. ASSUME Mpmc!CallAgain PROVE Mpmc!TypeOK'
  BY <1>1, <1>2, <1>3, <1>10 DEF Mpmc!CallAgain
<1> QED
  BY <1>4, <1>5, <1>6, <1>7, <1>8, <1>9, <1>10
  DEF Mpmc!Next, Mpmc!ProducerStep, Mpmc!ConsumerStep

(* Every variable has its type: no index of the ring leaves its cells, no   *)
(* count exceeds what a call has to do, a lock is held by a worker          *)
(* (cswitch_futex.c:28-101, cswitch_pipe.c:26-115, sync_mpmc.c:20-120,      *)
(* sync_mutex.c, sync_rwlock.c, cswitch_smt.c, proc_pthread.c).  For        *)
(* sync_mpmc this is so with one thread of each kind; with more a dequeue   *)
(* may return a cell nobody has filled.                                     *)
THEOREM ThreadTypesCorrect ==
  ASSUME NEW p, Producers = {p}, NEW c, Consumers = {c}
  PROVE  Spec => []TypeOK
<1> DEFINE I == bench \in Benches /\ FutexRoundsInv /\ PipeInv /\ PipeTypes /\ QueueInv(p, c)
                /\ Mpmc!TypeOK
<1>1. Init => I
  <2>1. SUFFICES ASSUME Init PROVE I
    OBVIOUS
  <2>2. FutexRoundsInv
    BY <2>1, FutexAssumption DEF Init, Futex!Init, FutexRoundsInv, Futex!TypeOK, Futex!RoundsAssumption
  <2>3. PipeInv /\ PipeTypes
    <3>1. PipeRounds \in Nat \ {0} /\ 0 \in -1..2 * PipeRounds
      BY PipeAssumption DEF Pipe!RoundsAssumption
    <3>2. PipeInv
      BY <2>1, <3>1 DEF Init, Pipe!Init, PipeInv, Calling
    <3>3. PipeTypes
      <4>1. 0 \in 0..PipeRounds /\ 0 \in 0..2 * PipeRounds
        BY <3>1
      <4> QED
        BY <2>1, <3>1, <4>1 DEF Init, Pipe!Init, PipeTypes, Pipe!TypeOK
    <3> QED
      BY <3>2, <3>3
  <2>4. QueueInv(p, c)
    BY <2>1, QueueInit DEF Init
  <2>5. Mpmc!TypeOK
    <3>1. Ops * Mpmc!Cardinality(Producers) = Ops
      BY TargetIs, Size DEF Mpmc!Target
    <3>2. 0 \in 0..Ops /\ 0 \in Mpmc!Cells
      BY Size DEF Mpmc!Cells
    <3> QED
      BY <2>1, <3>1, <3>2 DEF Init, Mpmc!Init, Mpmc!TypeOK
  <2> QED
    BY <2>1, <2>2, <2>3, <2>4, <2>5 DEF Init
<1>2. I /\ [Next]_vars => I'
  <2>1. SUFFICES ASSUME I, [Next]_vars PROVE I'
    OBVIOUS
  <2>2. bench' = bench
    BY <2>1 DEF Next, vars, RunsFutex, RunsPipe, RunsMpmc, RunsWork
  <2>3. FutexRoundsInv'
    <3>1. CASE UNCHANGED futexVars
      BY <2>1, <3>1 DEF futexVars, FutexRoundsInv, Futex!TypeOK
    <3>2. CASE Futex!Next
      BY <2>1, <3>2, FutexTypeStep
    <3> QED
      BY <2>1, <3>1, <3>2 DEF Next, vars, RunsFutex, RunsPipe, RunsMpmc, RunsWork
  <2>4. PipeInv' /\ PipeTypes'
    <3>1. CASE UNCHANGED pipeVars
      BY <2>1, <3>1 DEF pipeVars, PipeInv, Calling, OfPing, PipeTypes, Pipe!TypeOK
    <3>2. CASE Pipe!Next
      BY <2>1, <3>2, PipeStep, PipeTypeStep
    <3> QED
      BY <2>1, <3>1, <3>2 DEF Next, vars, RunsFutex, RunsPipe, RunsMpmc, RunsWork
  <2>5. QueueInv(p, c)'
    BY <2>1, QueueStep
  <2>6. Mpmc!TypeOK'
    <3>1. CASE UNCHANGED mpmcVars
      BY <2>1, <3>1 DEF mpmcVars, Mpmc!TypeOK
    <3>2. CASE Mpmc!Next
      BY <2>1, <2>5, <3>2, QueueTypeStep
    <3> QED
      BY <2>1, <3>1, <3>2 DEF Next, vars, RunsFutex, RunsPipe, RunsMpmc, RunsWork
  <2> QED
    BY <2>1, <2>2, <2>3, <2>4, <2>5, <2>6
<1>3. I /\ WorkInv => TypeOK
  BY DEF TypeOK, FutexRoundsInv, PipeTypes, WorkInv
<1> QED
  BY <1>1, <1>2, <1>3, WorkInvariant, PTL DEF Spec

(* A call reports its own work, all of it: with one producer and one        *)
(* consumer for sync_mpmc (sync_mpmc.c:48, 61-73), with any number of       *)
(* rounds for cswitch_pipe (cswitch_pipe.c:34-43, 88-105), and for any      *)
(* number of CPUs and operations for the benchmarks whose workers count     *)
(* (sync_mutex.c:55-84, sync_rwlock.c:63-99, cswitch_smt.c:56-94): every    *)
(* operation of every worker is counted once.                               *)
THEOREM CallsCountOwnWork ==
  ASSUME NEW p, Producers = {p}, NEW c, Consumers = {c}
  PROVE  Spec => []CountsOwnWork
<1>1. Mpmc!AllConsumed /\ Pipe!LeavesNothing /\ Work!CountsOwnWork => CountsOwnWork
  BY DEF CountsOwnWork
<1> QED
  BY <1>1, NothingStaysInside, PipeLeftEmpty, WorkInvariant, WorkCounts, PTL
================================================================================
