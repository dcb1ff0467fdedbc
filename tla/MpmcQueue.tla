------------------------------- MODULE MpmcQueue -------------------------------
(***************************************************************************)
(* The queue of src/benchmarks/sync/sync_mpmc.c with its producer and       *)
(* consumer threads, one step per atomic access.  Enqueue loads tail, loads *)
(* head, stores the item and stores tail; dequeue loads head, loads tail,   *)
(* loads the item and stores head: no step is a compare-and-swap.  Each     *)
(* producer enqueues the items 0..Ops-1; dequeue returns 0 for "empty", and *)
(* so for the item 0.  Memory is sequentially consistent.                   *)
(*                                                                          *)
(* measure is called again and again on the same queue: produced and        *)
(* consumed start from zero, head, tail and the items stay as they were.    *)
(***************************************************************************)
EXTENDS Integers, Sequences, FiniteSets

CONSTANTS
  Producers, Consumers,  (* the threads of each kind                        *)
  QueueSize,             (* QUEUE_SIZE                                      *)
  Ops                    (* OPS_PER_PRODUCER                                *)

(* sync_mpmc_init makes at least one thread of each kind.  A producer has   *)
(* more items than the queue has cells.                                     *)
ThreadsAssumption ==
  /\ IsFiniteSet(Producers) /\ Producers # {}
  /\ IsFiniteSet(Consumers) /\ Consumers # {}
SizeAssumption == QueueSize \in Nat \ {0, 1} /\ Ops \in Nat /\ Ops >= QueueSize

Cells == 0..QueueSize-1

(* An item: its value with the producer that enqueued it, which the code    *)
(* does not store.                                                          *)
Items == [by : Producers, value : 0..Ops-1]
Empty == [by |-> "nobody", value |-> 0]

VARIABLES
  items, head, tail,  (* the queue                                          *)
  produced,           (* items enqueued in this call                        *)
  consumed,           (* sum of what the finished consumers counted         *)
  ppc,                (* producers: where each is in mpmc_producer          *)
  pn,                 (* the item it is at                                  *)
  pt,                 (* its t in mpmc_enqueue                              *)
  cpc,                (* consumers: where each is in mpmc_consumer          *)
  ch,                 (* its h in mpmc_dequeue                              *)
  citem,              (* its item                                           *)
  local,              (* its local counter                                  *)
  drain,              (* whether it has left its first loop                 *)
  sent,               (* history: items in the order their enqueue ended    *)
  received            (* history: items in the order their dequeue ended    *)

queueVars == << items, head, tail >>
producerVars == << ppc, pn, pt >>
consumerVars == << cpc, ch, citem, local, drain >>
vars == << queueVars, produced, consumed, producerVars, consumerVars, sent, received >>

TypeOK ==
  /\ items \in [Cells -> Items \cup {Empty}]
  /\ head \in Cells /\ tail \in Cells
  /\ produced \in 0..Ops * Cardinality(Producers)
  /\ consumed \in Nat
  /\ ppc \in [Producers -> {"tail", "head", "item", "publish", "count", "exit"}]
  /\ pn \in [Producers -> 0..Ops] /\ pt \in [Producers -> Cells]
  /\ cpc \in [Consumers -> {"check", "head", "tail", "item", "release", "exit"}]
  /\ ch \in [Consumers -> Cells] /\ citem \in [Consumers -> Items \cup {Empty}]
  /\ local \in [Consumers -> Nat]
  /\ drain \in [Consumers -> BOOLEAN]
  /\ sent \in Seq(Items) /\ received \in Seq(Items)

Init ==
  /\ items = [k \in Cells |-> Empty] /\ head = 0 /\ tail = 0
  /\ produced = 0 /\ consumed = 0
  /\ ppc = [p \in Producers |-> "tail"]
  /\ pn = [p \in Producers |-> 0]
  /\ pt = [p \in Producers |-> 0]
  /\ cpc = [c \in Consumers |-> "check"]
  /\ ch = [c \in Consumers |-> 0]
  /\ citem = [c \in Consumers |-> Empty]
  /\ local = [c \in Consumers |-> 0]
  /\ drain = [c \in Consumers |-> FALSE]
  /\ sent = << >> /\ received = << >>

NextCell(k) == (k + 1) % QueueSize

Target == Ops * Cardinality(Producers)

-----------------------------------------------------------------------------
(* mpmc_producer.                                                           *)

LoadTail(p) ==
  /\ ppc[p] = "tail"
  /\ pt' = [pt EXCEPT ![p] = tail]
  /\ ppc' = [ppc EXCEPT ![p] = "head"]
  /\ UNCHANGED << queueVars, produced, consumed, pn, consumerVars, sent, received >>

Full_Never(t) == FALSE

(* The test of enqueue: one cell always stays empty.                        *)
Full(t) == NextCell(t) = head

CheckRoom(p) ==
  /\ ppc[p] = "head"
  /\ ppc' = [ppc EXCEPT ![p] = IF Full(pt[p]) THEN "tail" ELSE "item"]
  /\ UNCHANGED << queueVars, produced, consumed, pn, pt, consumerVars, sent, received >>

Item(p) == [by |-> p, value |-> pn[p]]

StoreItem(p) ==
  /\ ppc[p] = "item"
  /\ items' = [items EXCEPT ![pt[p]] = Item(p)]
  /\ ppc' = [ppc EXCEPT ![p] = "publish"]
  /\ UNCHANGED << head, tail, produced, consumed, pn, pt, consumerVars, sent, received >>

StoreTail(p) ==
  /\ ppc[p] = "publish"
  /\ tail' = NextCell(pt[p])
  /\ sent' = Append(sent, Item(p))
  /\ ppc' = [ppc EXCEPT ![p] = "count"]
  /\ UNCHANGED << items, head, produced, consumed, pn, pt, consumerVars, received >>

CountProduced(p) ==
  /\ ppc[p] = "count"
  /\ produced' = produced + 1
  /\ pn' = [pn EXCEPT ![p] = @ + 1]
  /\ ppc' = [ppc EXCEPT ![p] = IF pn[p] + 1 < Ops THEN "tail" ELSE "exit"]
  /\ UNCHANGED << queueVars, consumed, pt, consumerVars, sent, received >>

-----------------------------------------------------------------------------
(* mpmc_consumer.                                                           *)

(* The first loop ends when everything is produced, the second is entered.  *)
CheckProduced(c) ==
  /\ cpc[c] = "check"
  /\ cpc' = [cpc EXCEPT ![c] = "head"]
  /\ drain' = [drain EXCEPT ![c] = @ \/ produced >= Target]
  /\ UNCHANGED << queueVars, produced, consumed, producerVars, ch, citem, local,
                  sent, received >>

LoadHead(c) ==
  /\ cpc[c] = "head"
  /\ ch' = [ch EXCEPT ![c] = head]
  /\ cpc' = [cpc EXCEPT ![c] = "tail"]
  /\ UNCHANGED << queueVars, produced, consumed, producerVars, citem, local,
                  drain, sent, received >>

(* Dequeue has returned value v: another round, or the end of the drain.    *)
Returned(c, v) ==
  /\ local' = [local EXCEPT ![c] = IF v # 0 THEN @ + 1 ELSE @]
  /\ IF drain[c] /\ v = 0
     THEN /\ cpc' = [cpc EXCEPT ![c] = "exit"]
          /\ consumed' = consumed + local[c]
     ELSE /\ cpc' = [cpc EXCEPT ![c] = IF drain[c] THEN "head" ELSE "check"]
          /\ UNCHANGED consumed

CheckEmpty(c) ==
  /\ cpc[c] = "tail"
  /\ IF ch[c] = tail
     THEN Returned(c, 0)
     ELSE /\ cpc' = [cpc EXCEPT ![c] = "item"]
          /\ UNCHANGED << consumed, local >>
  /\ UNCHANGED << queueVars, produced, producerVars, ch, citem, drain, sent, received >>

LoadItem(c) ==
  /\ cpc[c] = "item"
  /\ citem' = [citem EXCEPT ![c] = items[ch[c]]]
  /\ cpc' = [cpc EXCEPT ![c] = "release"]
  /\ UNCHANGED << queueVars, produced, consumed, producerVars, ch, local, drain,
                  sent, received >>

StoreHead(c) ==
  /\ cpc[c] = "release"
  /\ head' = NextCell(ch[c])
  /\ received' = Append(received, citem[c])
  /\ Returned(c, citem[c].value)
  /\ UNCHANGED << items, tail, produced, producerVars, ch, citem, drain, sent >>

-----------------------------------------------------------------------------
(* measure joins all threads and is called again.                           *)
Over == /\ \A p \in Producers : ppc[p] = "exit"
        /\ \A c \in Consumers : cpc[c] = "exit"

CallAgain ==
  /\ Over
  /\ produced' = 0 /\ consumed' = 0
  /\ ppc' = [p \in Producers |-> "tail"]
  /\ pn' = [p \in Producers |-> 0]
  /\ cpc' = [c \in Consumers |-> "check"]
  /\ local' = [c \in Consumers |-> 0]
  /\ drain' = [c \in Consumers |-> FALSE]
  /\ sent' = << >> /\ received' = << >>
  /\ UNCHANGED << queueVars, pt, ch, citem >>

ProducerStep(p) ==
  LoadTail(p) \/ CheckRoom(p) \/ StoreItem(p) \/ StoreTail(p) \/ CountProduced(p)

ConsumerStep(c) ==
  CheckProduced(c) \/ LoadHead(c) \/ CheckEmpty(c) \/ LoadItem(c) \/ StoreHead(c)

Next ==
  \/ \E p \in Producers : ProducerStep(p)
  \/ \E c \in Consumers : ConsumerStep(c)
  \/ CallAgain

Spec == Init /\ [][Next]_vars

-----------------------------------------------------------------------------
(* With one producer and one consumer the queue is a bounded FIFO queue     *)
(* across calls: an item enters when tail is stored and leaves when head    *)
(* is, a cell is never overwritten before it was read, and nothing of one   *)
(* call is left for the next.                                               *)
Fifo == INSTANCE BoundedFifo WITH
  Capacity  <- QueueSize - 1,
  queue     <- SubSeq(sent, Len(received) + 1, Len(sent)),
  delivered <- received

ImplementsFifo == Fifo!Spec

(* With one thread of each kind a call ends with every item taken out, in   *)
(* order, and all but the item 0 counted: dequeue cannot tell 0 from empty. *)
AllConsumed ==
  Over => received = sent /\ consumed = Target - Cardinality(Producers)

(* Every item a dequeue returns was enqueued, at most once each: the queue  *)
(* is a multi-producer multi-consumer queue (sync_mpmc.c:13).               *)
EachItemOnce ==
  \A j, k \in 1..Len(received) : received[j] = received[k] => j = k

(* A call returns: producers find room and consumers an end, however the    *)
(* threads interleave.                                                      *)
CallReturns == []<>Over
=============================================================================
