---------------------------- MODULE ParkHandshake ----------------------------
(***************************************************************************)
(* How LockFreeMPSC's and ShardedBQueue's threads put each other to sleep  *)
(* and wake each other up: the consumer parks on an empty mailbox, a       *)
(* producer waits for space in a full ring.                                *)
(*                                                                         *)
(* The ring itself is a counter here (LockFreeMPSC shows it to be a FIFO   *)
(* mailbox).  What matters is when stores become visible: each thread has  *)
(* an x86 store buffer, drained in order at any time; a compare-exchange,  *)
(* a mutex operation and a seq_cst fence wait until it is empty.           *)
(***************************************************************************)
EXTENDS Producers, Integers, Sequences

CONSTANT Cap    \* cells of the ring
ASSUME CapAssumption == Cap \in Nat \ {0}

VARIABLES
    used,               \* cells claimed and not seen freed
    items,              \* messages published and not taken
    parked_,
    producers_waiting_,
    cbuf,               \* the consumer's store buffer: "free", "arm", "disarm"
    pbuf,               \* per producer: its publishing store is buffered
    wait_mtx_, space_mtx_,  \* "none" or the holder
    ppc, popPc,           \* where each thread is
    left,               \* pushes each producer has left
    signalled,          \* the consumer's wait has been notified
    spaceSignalled      \* producers whose wait for space has been notified

parkVars == <<used, items, parked_, producers_waiting_, cbuf, pbuf, wait_mtx_, space_mtx_,
          ppc, popPc, left, signalled, spaceSignalled>>
ringVars == <<used, items>>
consumerVars == <<cbuf, popPc, signalled>>
producerVars == <<pbuf, ppc, left, spaceSignalled, producers_waiting_>>

ParkInit ==
    /\ used = 0
    /\ items = 0
    /\ parked_ = FALSE
    /\ producers_waiting_ = 0
    /\ cbuf = <<>>
    /\ pbuf = [p \in Producer |-> FALSE]
    /\ wait_mtx_ = "none"
    /\ space_mtx_ = "none"
    /\ ppc = [p \in Producer |-> "push"]
    /\ popPc = "pop"
    /\ left = [p \in Producer |-> MaxPush]
    /\ signalled = FALSE
    /\ spaceSignalled = {}

Goto(p, l) == ppc' = [ppc EXCEPT ![p] = l]

-----------------------------------------------------------------------------
(* Store buffers *)

DrainProducer(p) ==
    /\ pbuf[p]
    /\ pbuf' = [pbuf EXCEPT ![p] = FALSE]
    /\ items' = items + 1
    /\ UNCHANGED <<used, parked_, producers_waiting_, wait_mtx_, space_mtx_, ppc, left,
                   spaceSignalled, consumerVars>>

DrainConsumer ==
    /\ cbuf # <<>>
    /\ cbuf' = Tail(cbuf)
    /\ used' = IF Head(cbuf) = "free" THEN used - 1 ELSE used
    /\ parked_' = CASE Head(cbuf) = "arm" -> TRUE
                    [] Head(cbuf) = "disarm" -> FALSE
                    [] OTHER -> parked_
    /\ UNCHANGED <<items, wait_mtx_, space_mtx_, popPc, signalled, producerVars>>

-----------------------------------------------------------------------------
(* push *)

\* try_push succeeds: the cell is claimed, its publication is buffered.
Publish(p) ==
    /\ used < Cap
    /\ used' = used + 1
    /\ pbuf' = [pbuf EXCEPT ![p] = TRUE]
    /\ left' = [left EXCEPT ![p] = @ - 1]
    /\ UNCHANGED <<items, parked_, wait_mtx_, consumerVars>>

PushNow(p) ==
    /\ ppc[p] = "push" /\ left[p] > 0
    /\ ~ pbuf[p]
    /\ Publish(p)
    /\ Goto(p, "fence")
    /\ UNCHANGED <<space_mtx_, producers_waiting_, spaceSignalled>>

\* The ring is full, also after the spinning: take space_mtx_ and count.
PushFull(p) ==
    /\ ppc[p] = "push" /\ left[p] > 0
    /\ used >= Cap
    /\ space_mtx_ = "none" /\ ~ pbuf[p]
    /\ space_mtx_' = p
    /\ producers_waiting_' = producers_waiting_ + 1
    /\ Goto(p, "full")
    /\ UNCHANGED <<ringVars, parked_, wait_mtx_, pbuf, left, spaceSignalled, consumerVars>>

\* Under the mutex: one more try_push, then wait.
PushRetry(p) ==
    /\ ppc[p] = "full"
    /\ Publish(p)
    /\ producers_waiting_' = producers_waiting_ - 1
    /\ space_mtx_' = "none"
    /\ Goto(p, "fence")
    /\ UNCHANGED spaceSignalled

PushWait(p) ==
    /\ ppc[p] = "full"
    /\ used >= Cap
    /\ space_mtx_' = "none"
    /\ spaceSignalled' = spaceSignalled \ {p}
    /\ Goto(p, "space")
    /\ UNCHANGED <<ringVars, parked_, wait_mtx_, pbuf, left, producers_waiting_, consumerVars>>

\* Mutant of PushWake: no 1 ms poll.
PushWakeOnSignalOnly(p) ==
    /\ ppc[p] = "space"
    /\ p \in spaceSignalled
    /\ space_mtx_ = "none"
    /\ space_mtx_' = p
    /\ Goto(p, "full")
    /\ UNCHANGED <<ringVars, parked_, wait_mtx_, pbuf, left, producers_waiting_, spaceSignalled,
                   consumerVars>>

\* wait_for returns: notified, or after a millisecond.
PushWake(p) ==
    /\ ppc[p] = "space"
    /\ space_mtx_ = "none"
    /\ space_mtx_' = p
    /\ Goto(p, "full")
    /\ UNCHANGED <<ringVars, parked_, wait_mtx_, pbuf, left, producers_waiting_, spaceSignalled,
                   consumerVars>>

\* Mutant of PushFence: the producer's fence is missing.
PushFenceMissing(p) ==
    /\ ppc[p] = "fence"
    /\ Goto(p, "load")
    /\ UNCHANGED <<ringVars, parked_, producers_waiting_, wait_mtx_, space_mtx_, pbuf, left,
                   spaceSignalled, consumerVars>>

PushFence(p) ==
    /\ ppc[p] = "fence"
    /\ ~ pbuf[p]
    /\ Goto(p, "load")
    /\ UNCHANGED <<ringVars, parked_, producers_waiting_, wait_mtx_, space_mtx_, pbuf, left,
                   spaceSignalled, consumerVars>>

PushLoadParked(p) ==
    /\ ppc[p] = "load"
    /\ Goto(p, IF parked_ THEN "lock" ELSE "push")
    /\ UNCHANGED <<ringVars, parked_, producers_waiting_, wait_mtx_, space_mtx_, pbuf, left,
                   spaceSignalled, consumerVars>>

\* wait_mtx_ is locked and unlocked, so that the consumer is not between its
\* re-check and its wait.
PushLock(p) ==
    /\ ppc[p] = "lock"
    /\ wait_mtx_ = "none" /\ ~ pbuf[p]
    /\ Goto(p, "notify")
    /\ UNCHANGED <<ringVars, parked_, producers_waiting_, wait_mtx_, space_mtx_, pbuf, left,
                   spaceSignalled, consumerVars>>

PushNotify(p) ==
    /\ ppc[p] = "notify"
    /\ signalled' = (signalled \/ popPc = "wait")
    /\ Goto(p, "push")
    /\ UNCHANGED <<ringVars, parked_, producers_waiting_, wait_mtx_, space_mtx_, pbuf, left,
                   spaceSignalled, cbuf, popPc>>

-----------------------------------------------------------------------------
(* pop *)

\* try_pop succeeds (its compare-exchange empties the store buffer) and then
\* buffers the store that frees the cell.
TakeThen(stores, l) ==
    /\ items > 0 /\ cbuf = <<>>
    /\ items' = items - 1
    /\ cbuf' = <<"free">> \o stores
    /\ popPc' = l
    /\ UNCHANGED <<used, parked_, space_mtx_, signalled, producerVars>>

PopNow ==
    /\ popPc = "pop"
    /\ TakeThen(<<>>, "space")
    /\ UNCHANGED wait_mtx_

PopEmpty ==
    /\ popPc = "pop" /\ items = 0
    /\ wait_mtx_ = "none" /\ cbuf = <<>>
    /\ wait_mtx_' = "consumer"
    /\ cbuf' = <<"arm">>
    /\ popPc' = "fence"
    /\ UNCHANGED <<ringVars, parked_, space_mtx_, signalled, producerVars>>

PopFence ==
    /\ popPc = "fence"
    /\ cbuf = <<>>
    /\ popPc' = "recheck"
    /\ UNCHANGED <<ringVars, parked_, wait_mtx_, space_mtx_, cbuf, signalled, producerVars>>

\* The re-check finds a message: disarm, and call notify_space with wait_mtx_
\* still held.
PopRecheck ==
    /\ popPc = "recheck"
    /\ TakeThen(<<"disarm">>, "held")
    /\ UNCHANGED wait_mtx_

PopRecheckEmpty ==
    /\ popPc = "recheck" /\ items = 0
    /\ popPc' = "park"
    /\ UNCHANGED <<ringVars, parked_, wait_mtx_, space_mtx_, cbuf, signalled, producerVars>>

\* wait_for, which releases wait_mtx_.
PopWait ==
    /\ popPc = "park"
    /\ cbuf = <<>>
    /\ wait_mtx_' = "none"
    /\ signalled' = FALSE
    /\ popPc' = "wait"
    /\ UNCHANGED <<ringVars, parked_, space_mtx_, cbuf, producerVars>>

PopUnpark ==
    /\ wait_mtx_ = "none"
    /\ cbuf' = Append(cbuf, "disarm")
    /\ popPc' = "pop"
    /\ UNCHANGED <<ringVars, parked_, wait_mtx_, space_mtx_, signalled, producerVars>>

PopWake == popPc = "wait" /\ signalled /\ PopUnpark

\* wait_for's millisecond is over.
PopTimeout == popPc = "wait" /\ ~ signalled /\ PopUnpark

\* notify_space: its load of producers_waiting_ is not ordered after the store
\* that frees the cell.
NotifySpace ==
    /\ popPc \in {"space", "held"}
    /\ \/ producers_waiting_ = 0 /\ UNCHANGED spaceSignalled
       \/ /\ producers_waiting_ > 0
          /\ space_mtx_ = "none" /\ cbuf = <<>>
          /\ spaceSignalled' = spaceSignalled \cup {p \in Producer : ppc[p] = "space"}
    /\ popPc' = IF popPc = "held" THEN "unlock" ELSE "pop"
    /\ UNCHANGED <<ringVars, parked_, producers_waiting_, wait_mtx_, space_mtx_, pbuf, ppc, left,
                   cbuf, signalled>>

\* The message of the re-check is returned.
PopUnlock ==
    /\ popPc = "unlock"
    /\ cbuf = <<>>
    /\ wait_mtx_' = "none"
    /\ popPc' = "pop"
    /\ UNCHANGED <<ringVars, parked_, space_mtx_, cbuf, signalled, producerVars>>

-----------------------------------------------------------------------------
PushStep(p) ==
    \/ DrainProducer(p)
    \/ PushNow(p) \/ PushFull(p) \/ PushRetry(p) \/ PushWait(p) \/ PushWake(p)
    \/ PushFence(p) \/ PushLoadParked(p) \/ PushLock(p) \/ PushNotify(p)
PopStep ==
    \/ PopNow \/ PopEmpty \/ PopFence \/ PopRecheck \/ PopRecheckEmpty \/ PopWait \/ PopWake
    \/ NotifySpace \/ PopUnlock

ParkNext == PopStep \/ DrainConsumer \/ PopTimeout \/ \E p \in Producer : PushStep(p)

ParkSpec == ParkInit /\ [][ParkNext]_parkVars

\* Threads run, buffers drain and a mutex that keeps being released is got;
\* nothing is assumed of the consumer's millisecond, so no message may need it.
FairParkSpec ==
    /\ ParkSpec
    /\ SF_parkVars(PopStep) /\ WF_parkVars(DrainConsumer)
    /\ \A p \in Producer : SF_parkVars(PushStep(p))

-----------------------------------------------------------------------------
(* Properties *)

\* No lost wakeup: while the consumer sleeps unnotified and a message is in
\* the mailbox, some producer is still on its way to notify it (push's and
\* pop's fences and the re-check).
NoLostWakeup ==
    popPc = "wait" /\ ~ signalled /\ items > 0 =>
        \E p \in Producer : \/ ppc[p] \in {"lock", "notify"}
                            \/ ppc[p] \in {"fence", "load"} /\ parked_

\* What makes NoLostWakeup inductive: from its re-check on the consumer is seen
\* to be parked, and a message that arrives after the re-check has a producer
\* that cannot pass wait_mtx_ before the consumer waits.
ParkInv ==
    /\ \A p \in Producer : pbuf[p] => ppc[p] = "fence"
    /\ wait_mtx_ = IF popPc \in {"fence", "recheck", "park", "held", "unlock"} THEN "consumer" ELSE "none"
    /\ popPc = "fence" => cbuf = <<"arm">> \/ (cbuf = <<>> /\ parked_)
    /\ popPc \in {"recheck", "park", "wait"} => cbuf = <<>> /\ parked_
    /\ popPc = "park" /\ items > 0 => \E p \in Producer : ppc[p] \in {"fence", "load", "lock"}
    /\ popPc = "wait" /\ ~ signalled /\ items > 0 =>
            \E p \in Producer : ppc[p] \in {"fence", "load", "lock", "notify"}

\* Every message is taken and every push returns, without the consumer's
\* millisecond; a producer that waits for space may need its own.
Drained == <>[](items = 0 /\ \A p \in Producer : left[p] = 0 /\ ppc[p] = "push")
=============================================================================
