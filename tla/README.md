# Verification of kaspar-hft

TLA+ models of kaspar-hft, a C++ trading system and order book simulator for CME
futures. The modules follow the code in `src/`; `PROJECT.json` maps every
definition that models code to the lines it stands for. TLC checks the models on
small instances, TLAPS proves many of the properties for every instance.

Contents: [inventory](#inventory), [plan](#plan), [modules](#modules-and-code),
[runs](#runs), [fairness](#fairness), [proofs](#proofs),
[disagreements](#where-the-code-and-its-documentation-disagree),
[further hazards](#further-hazards), [limits](#not-modelled).

## Inventory

The system is a set of actors. An actor has private state, a mailbox, a thread
that takes messages from it, and a mutex (`fast_send_mutex`) that every handler
runs under. `send` queues a message; `fast_send` runs the receiver's handler on
the caller's thread. Everything below is built on that.

| Part | State | Operations | Talks to |
|---|---|---|---|
| Mailboxes `LockFreeMPSC`, `BQueue`, `BQueueBatched`, `ShardedBQueue` | ring or deque, positions, `parked_`, `producers_waiting_` | `push`, `pop`, `pop_batch` | sending threads, the actor's thread |
| Actor dispatch `Actor`, `Manager`, `Group` | handler table, current sender, thread | `send`, `fast_send`, `reply`, `run_loop`, `terminate` | mailboxes |
| Group coordination `GroupManager`, `CoordinatorActor` | permission queue, active permission, breakpoints, last-seen times | register, token, request, done, shutdown, debugger commands, time-out | groups over ZeroMQ |
| Registry `RegistryActor`, `RegistryClient` | managers and their actors, the inverse map, heartbeat times | register, update, look up, heartbeat, leave, time out | processes over ZeroMQ |
| Feed arbitration `mdp3::MessageProcessor` | `qseq_num`, `msg_q`, `waitcnt`, recovery flags | `processq`, ends of recoveries, stop and start | sockets, `RecoveryProcessor`, decoder |
| `mdp3::RecoveryProcessor` | `curr_seq_num`, `recovered_books`, `last_seq_num` | data and instrument recovery | snapshot feeds, books |
| Order book `OB`, `OrderQ`, `FillSlate` | `ordermap`, levels, best prices, transaction times, `is_in_recovery`, `del_q`, `pub_q`, `exec_slate` | market data, our orders, clear | decoder, `SOM`, lights |
| `SOM`, the order manager | `orders`, `curr_id`, `stopped`, positions, limits | order, cancel, fill, acks and rejects, stop, start | lights, `OB` or iLink, `MTD` |
| Lights (`light22`) | `ord_info`, `cancel_requests` | quote, cancel, the SOM's reports | `SOM`, `OB`, `QCoord`, `PCoord` |
| `QCoord`, `PCoord` | size by price and light; position | add, remove | the lights, under a mutex |
| `PositionManager`, `Position` | lots, profit | add, close | console, SOM |
| iLink 3 `ILinkHandler`, `ILinkRec`, `ILinkArbiter` | session state, sequence numbers, retransmissions, orders by number | negotiate, establish, send, receive, retransmit, keep alive, fail over | exchange, `SOM` |
| `Timer`, `MTD`, consoles, logger, `MQ0`, probes, simulator | commands, files, measurements | – | all |

What is hard about it:

* **Interleaving.** Producers race for a ring's cells and with the consumer's
  decision to sleep, under x86's store buffers. A light's calls run the SOM on
  the light's thread while the SOM's own thread handles the book's answers; the
  book calls the lights, which call the SOM, which mails the book.
* **An unreliable feed.** Packets come twice, late, out of order, corrupt or not
  at all, on the incremental and on the snapshot feeds; a snapshot may be older or
  newer than what has been decoded.
* **Ordering across queues.** An order goes through `del_q` (wire latency), its
  answers through `pub_q` (feed latency) and two mailboxes; a fill and a cancel of
  one order race.
* **Processes that fail.** A group crashes with the permission in its hand, a manager
  restarts before its farewell has arrived, a session loses reports, is terminated or
  goes silent; time-outs race late answers.
* **Intermediate states.** One transaction of the exchange is several records, between
  which the book is locked or crossed and our own orders arrive.
* **Limits.** A full ring, an empty mailbox, a position limit that several lights
  approach at once.
* **Liveness.** A recovery that does not end stops a channel, a cancel that is not
  answered silences a light, a stop must get the orders out of the market, a waiting
  group must get its turn, a gap must close, a dead session must be noticed.

What makes each part correct, in one line: a mailbox delivers every message once
and in order, and never sleeps on one; the arbitration decodes every packet once,
in order, or is covered by a snapshot; a recovered book is the exchange's, and stays
it record by record; our simulated fills are backed by trades; no order and no fill is lost
between light, SOM and book, and the three agree on position and open size up to what
is in flight; one group at a time runs, in order of announcement; a living manager can
be found; every report of the exchange is counted once.

`PROJECT.json` lists the parts as "components" and the places where the code is
exposed as "hazards", each with the properties that cover it. Those that no property
covers, and some that are close to a listed one, are under
[further hazards](#further-hazards).

## Plan

Done, in this order:

1. **Mailboxes**: `Mailbox` (what a mailbox promises), `LockFreeMPSC` (implements
   it), `ParkHandshake`; proofs of both.
2. **Feed**: `MessageProcessor`, `RecoveryProcessor`, and `BookRecovery`, which
   composes the first with one book; proofs of all three.
3. **Order path**: `SOM`, `SimVenue`, `LightOrders` over `OrderMsgs`, composed by
   `OrderPath`; proof of its invariants.
4. **Group coordination**: `FifoPermission` (what the manager promises) and
   `GroupManager`; proof that the second implements the first.
5. **Registry**: `Registry`, both ends and the sockets between them; proof.
6. **iLink 3**: `ILinkOrders` (numbers, gaps, orders) and `ILinkSession` (login,
   keep-alive, failover); proofs of both.
7. **Matching**: `FillSlate` and `MatchingBook`, the book record by record.

To do:

* **Proofs**: the safety of `MatchingBook`, once its folds are recursive functions; it
  needs an invariant for every point inside a transaction.
* **Accounts**: `Position` and `PositionManager` (close), `QCoord` by price with its
  caches.
* **Actor framework**: dispatch with `fast_send` and `reply`, `CoordinatorActor`, the
  locked queues, whose ring and overflow deque must stay in order, `Timer`.
* **Live mode**: the SOM with acks and unacked cancels, composed with `ILinkOrders`;
  `TachBook`, the other user of `FillSlate`; halts and auctions of the book.

## Modules and code

**`Mailbox`** states what `actors/Queue.hpp` promises: `sent` and `rcvd` are
histories, a pop yields the next message not yet received.

**`LockFreeMPSC`** models `try_push` and `try_pop` of `LockFreeMPSC.hpp` with one
action per atomic access: `PushLoad` reads `enqueue_pos_`, `PushSeq` tests the
cell's `seq` (free, full, or lost the race), `PushClaim`/`PushCasFail` are the
compare-exchange, `PushWrite` the plain store of the message, `PushPublish` the
release store; the `Pop` actions are the consumer's. `push`, `pop` and `pop_batch`
repeat them. Ownership of a cell (`Holds`, `ConsumerHolds`) is what `NoDataRace`
is about. `MailboxSpec` is `Mailbox!Spec` with `sent` ordered by claimed position.

**`Producers`** declares what the ring and the handshake share: the producers and the
bound on their pushes.

**`ParkHandshake`** models what surrounds the ring: `pop` arms `parked_`, fences,
re-checks and waits; `push` publishes, fences, reads `parked_` and notifies under
`wait_mtx_`; a producer facing a full ring counts itself in `producers_waiting_`. After a
re-check that finds a message, `notify_space` runs under `wait_mtx_`, which `PopUnlock`
then releases. The ring is a counter. Each thread has a store buffer, drained by actions
of its own (external: the processor), so a missing fence is a behaviour of the model.
`ShardedBQueue` uses the same handshake.

**`MessageProcessor`** models `MessageProcessor.hpp`: `ProcessQ` is the whole
`processq` for one arriving packet, from the recovery test to the branches that
drain, wait, recover, skip or fail to decode; `EndDataRecovery` and
`EndInstrumentRecovery` are the answers; `Publish` is the exchange (external). A
packet is its sequence number. The constructor's `dorecovery` is a variable that
never changes, so that one run has both modes. The histories `decoded`, `covered` and
`base` say what has reached the decoder, what a snapshot covers and where the channel
was joined. `running = "crashed"` stands for the null `recovery_processor` of a
replay.

**`RecoveryProcessor`** models both loops of `RecoveryProcessor.hpp`: one action
for each way a packet is treated (wait for the first, gap, changed number of
reports, load a chunk; the same for definitions). A packet carries one chunk of
one book. The socket loses, repeats and reorders packets.

**`BookRecovery`** extends `MessageProcessor` with one book: `Handle` is
`OB::data_handler` for a record (time gates, clear on the first snapshot record,
add, change, delete). One order comes and goes at any two packets; another stays. A
packet that does not decode is not simply absent: `DataDecoder` applies its messages
one by one, so when a later one fails the book may have the record about it already
(`torn`), with the transaction time that gates a snapshot, and the packet stays in
`msg_q` and is decoded again after the recovery. Whether the record comes before or
after the failure is left open (`FailedAt`). The histories of the arbitration, `decoded`
among them, are of packets decoded to the end.

**`FillSlate`** has the operations of `FillSlate.hpp` as functions from a slate to a
slate and the fills it releases: `on_trade` holds a trade back, `on_book` decides by
`compute_side` which side was the aggressor's, `close_tx` ends a transaction.
**`MatchingBook`** is `OB` on one complete feed: `AddRecord`, `ExecRecord`,
`ChangeRecord` and `DeleteRecord` are the four records of `data_handler`, each with
everything it calls (`process_q`, `add` with `fill_stray_sim_orders` and
`check_for_bo_change`, `mod` with `do_exec` and the walk of the inside, the release of
slated fills). `SimAdd` and `SimCancel` are our own orders, released from `del_q`
before a record is applied. `do_cross_check` is a variable that never changes: replay
(a crossed book is fatal) and live (it is repaired) are both checked. The exchange is
external: a transaction is one incoming order that trades by price and time, and the
feed lists its trades and then, in one of two orders, what became of everyone. A book
operation maps a record of queues and best prices to the next, as the C++ methods do
with the object.

**`OrderMsgs`** declares the messages and mailboxes between lights, SOM and book,
and `aborted`, set when an assertion of an actor ends the process. **`SOM`** has
the handlers of `SOM.cpp` in `sim_mode`, which `kaspr.cpp` and `SimKaspr.cpp` both
choose: `order_handler` in its three outcomes, `canc_handler` with
`internal_reject` and `cancel_order`, stop, start, and the three reports of the
book. **`SimVenue`** is `OB` as the exchange of our orders: `ObData` puts a timed
message on `del_q` or applies an untimed one, `ReleaseOrder` is `process_q`'s
release, `DrainPubQ` and `Publish` are `pub_q`, `MarketFill` is `OB::fill`,
`ClearBegin`, `ClearLight` and `ClearBook` are `OB::clear`, whose calls of the
lights interleave with the lights' own threads. Which record releases or fills is
left open here; `MatchingBook` is about that. **`LightOrders`** is the order handling
of `light22_base.hpp` with the light's entry in `QCoord` and `PCoord`'s position; when
to quote or cancel is left open. **`OrderPath`** composes them: an action of a light
and the SOM handler it calls are one step, everything else goes through the mailboxes.

Abstractions of the order path. Prices are left out, as a light has one order: an
order may fill on arrival or rest, and any resting order may fill. `canced` and
`rejed` are left out, as the handlers that would set them erase the order.
Messages of one `pub_q` stamp may be delivered apart, which allows more than the
code does. `ALLOWREJONARR` is not defined in the build, so the book never rejects
an order, and `ack_handler` and `rej_handler` are live only. `QCoord`'s assertion
on adding a second entry is stated for one price, where a light places again.

**`FifoPermission`** states what `GroupManager` promises: one holder at a time, turns in
the order of the tokens, and the withdrawal of actors whose group is gone.
**`GroupManager`** models `GroupManager.cpp`. The manager is one thread; its state is the
record `gm` and every handler a function on it, including the grant that a handler ends
with (`TryGrantNext`, `GrantHead`). `Receive` is one turn of its loop, `CheckStaleGroups`
its clock. A group (external) registers, announces and asks for each message, works,
reports DONE, may be slow, crash and restart. No client of this protocol is in `src/`
(`Group.cpp` speaks to the `CoordinatorActor`, in JSON), so a group may do what
`messages.hpp` asks of it, repeat its REQUEST after a WAIT and answer a SHUTDOWN, or what
`Group.cpp` does with the same messages, which is nothing; it chooses anew with each
answer. `FifoPermissionSpec` is `FifoPermission!Spec` with the queue and the holder of
`gm`.

**`Registry`** models `RegistryActor.cpp` and `RegistryClient.cpp/.hpp`: the handlers
of the registry, and of a client the caller's requests and the heartbeat thread, which
share one DEALER socket. An endpoint is the incarnation of the process behind it. The
socket holds `HighWater` answers; what does not fit is dropped. The heartbeat thread may
send whenever the client is connected and no call holds `socket_mutex_`, whatever is
still on the way. Nobody reads the acknowledgements of heartbeats, so they stay in the
socket for the next lookup to find. `Enter` puts a manager into both maps.

**`ILinkOrders`** models an established session of `ILinkHandler.hpp`: numbering,
`check_seq`, requests for retransmission in pieces, `NotApplied`, orders, cancels,
every report and every kind of refusal. The gateway (external) numbers, loses and
retransmits reports. **`ILinkSession`** models the rest: the arbiter's choice of
handler, negotiate and establish, the receiver's loop, keep-alive, terminate, lost
connections, and the order manager of the SOM. As in the code, `establish` is set by a
login and by nothing cleared: after `terminate` it still reads true, and
`ManagerEstablished` says that the order manager's session has been established, not
that it still is.

`MC...` modules and the `.cfg` files give the constants their values. The
operators that a comment calls "mutant" are deliberate errors: each replaces one
definition, and TLC then finds the property named in `PROJECT.json` violated.

## Runs

| Run | What it asks | Bounds |
|---|---|---|
| `ring` | No two threads own a cell, the ring is a FIFO mailbox, everything is delivered, held-up pushes resume | 2 producers, 2 cells, 3 messages each: the ring is lapped three times and full and empty in every phase; more producers and cells are the proof's matter |
| `park_handshake` | No wakeup is lost, everything is drained | 2 producers of 2 messages, 1 cell: full, empty, waiting and parked meet |
| `recovery_feed` | The position handed back is covered by every book loaded, books are whole and all there, recovery completes | 2 books (1 and 2 chunks), 2 cycles that differ, packets overtaken by up to 2, 3 faults, 2 requests |
| `book_recovery` | Nothing skipped silently, dropped from the buffer, decoded twice, out of order or during a replay; recoveries end; between recoveries the book has every order of the exchange's, and no other after a recovery into an empty book | both values of `dorecovery`, 4 packets, of which the third may arrive corrupt and be decoded as far as its record about the book or not, 3 recoveries, `maxwaitcnt` 3 as in the code: a gap, its recovery, a second gap and a late copy fit |
| `book_matching` | The book is the exchange's after every transaction, our fills are backed by trades at their level, no order of ours is passed | 3 prices, 2 transactions of orders up to 2 lots from 2 starting books (one with an empty side), 2 of our orders: an aggressor that walks two levels, 1 against 1, 1 against 2, a locked and a crossed book in mid-transaction all occur |
| `orders_feed` | No assertion fails, no fill is lost, SOM, QCoord and PCoord agree | a buyer and a seller, 2 orders of up to 2 lots (partial fills), both latencies, clears at any time |
| `orders_stop` | No order is left behind, the position keeps to its bound, cancels settle, stopping unwinds | 1 light, limit 2, 2 orders of up to 2 lots, 2 console commands |
| `orders_overlimit` | violated: QCoord's assertion that a light has one entry | 2 buyers, limit 1 |
| `permission` | The manager is a FIFO lock held by the group that runs, a stop of the debugger holds, waiting groups are served, a shutdown is announced unless a waiting group does not ask again | 2 groups with 2 messages and 1, and one crash, one silence of a living group, or two debugger commands (`MaxFault` 1, a command counts half) |
| `registry` | Both maps are in step, a living manager is listed, and a lookup reads the answer to the question as far back as heartbeats and time-outs have put it | 2 managers, one of which starts twice while the other looks actors up; its socket holds 2 answers and sees up to 2 heartbeats or time-outs (`MaxStray`), so that answers are read late, and are lost |
| `ilink_orders` | Every gap is asked for and closes, fills add up, verdicts reach their order | 1 order of 3 lots (so that fills overtake), 5 numbered reports, 1 sent before the session, 2 losses, retransmission in pieces of one |
| `ilink_session` | Only a session that has been established manages orders, every login is reported, a silent gateway is noticed | a primary and a secondary handler, 2 logins, 1 event started by a gateway or the operator, 1 tolerated disconnect |

Each passing run is finite and complete within its bounds. Where bounds end a run
(ids, packets, requests, transactions used up) the model stops although the system
would not, and deadlock is not checked; the other runs check it.

`RecoveryInv`, `OrderInv`, `PermissionInv`, `RegistryInv`, `SequenceInv` and
`SessionInv` join the type invariant of their module with what its state must satisfy
at all times: whole and complete recoveries, no failed assertion, the running group
holding the permission, the inverse map, no unnoticed gap, no order manager without a
session.

`PositionBounded` is what `order_handler`'s check really gives: working orders are not
counted, so each other light of a side may take the position one order further. With one
light the limit holds, with two it is passed by at most one order. The run has one light;
several are the theorem's.

Some properties say how wrong the code may be where it is not right. `AnswerLag` does not
hold that a lookup gets its own answer, as after one heartbeat it does not; it says which
question the answer belongs to. `ShutdownAnnounced` does not hold that a shutdown ends, as
with a group like `Group.cpp` it need not; it says what the only cause of that is. Others
except a case, named in their comment: `BookCorrect` orders left over from a snapshot
loaded on top of another (none may be missing), `NoSimLeftBehind` an arrival at a locked
book (`late`), `AliveListed` managers timed out or caught up by their own late UNREGISTER,
`FillsExact` orders one of whose trades was overtaken (`late`), `GapHeals` requests that
are refused. `VerdictsMatch` is about sequence numbers of 16 bits; what happens above is
below. `LoginReported` does not tell a second login of a handler from its first.

## Fairness

* `ring`: weak fairness of each thread's steps, since every thread keeps running,
  and strong fairness of the two compare-exchanges (`PopClaim`, `PushClaim`):
  one may fail spuriously or lose to another producer, but a thread that keeps
  retrying with a current value wins in the end.
* `park_handshake`: strong fairness of the producers' and the consumer's steps,
  since a mutex is released again and again between short critical sections; weak
  fairness of the store buffers. Nothing is assumed of the consumer's one
  millisecond poll (`PopTimeout`), so no message may depend on it. A producer that
  waits for space does use its own poll, as `notify_space` has no fence.
* `recovery_feed`, `book_recovery` (`BookFairSpec`): both actors' threads run, the
  exchange repeats its snapshot and definition cycles for ever and has published
  something once. Losses are bounded. Nothing is assumed of the incremental feed.
* `orders_stop`: threads run and market data keeps coming, so that latencies pass.
  The book's thread handles nothing else during a clear but returns to its mailbox
  between any two, hence strong fairness of its other steps. Nothing is assumed of
  the lights' decisions, of fills or of the console.
* `permission`: the manager polls its socket and its clock; a living group reads its
  answers and returns from its handlers, but need not repeat a REQUEST or obey a
  SHUTDOWN; a dead one stays silent, so that its time-out
  comes. Nothing is assumed of the debugger, which is why its commands are bounded: a
  `DebugContinue` with the breakpoint still set hits it again and may do so for ever.
* `ilink_orders`: the gateway goes on sending, retransmitting and answering.
  `ilink_session`: each actor has a thread, clocks run, a gateway that is there answers.

## Proofs

All are checked by TLAPS and hold for every value of the constants under the named
assumptions. A theorem's lemmas are in its module.

* **`LockFreeMPSC_proofs`**, for any set of producers and any number of messages,
  and N >= 2 where stated. `RingInv` is the inductive invariant: `CounterInv`
  (histories match the positions, no claim is more than N ahead of the first cell
  not released), `ClaimInv` (producers that own a cell own different positions of
  that window), and what each cell's `seq` says of the position it serves. It is
  needed because two positions of one window never share a cell, which is the
  lemma `IndexDiffers` about `%`; with it a claimed cell is free (`RingCorrect`),
  cells have one owner (`NoDataRaceCorrect`) and every step is a step of `Mailbox`
  or a stutter (`RingRefinesMailbox`). With one cell the invariant fails, see below.
* **`LockFreeMPSC_proofs`**, second half, the handshake: `ParkInv` says that from its
  re-check on the consumer is visibly parked with an empty store buffer, and that a
  message which arrived after the re-check has a producer that must still pass
  `wait_mtx_` or notify. `NoLostWakeup` follows.
* **`MessageProcessor_proofs`**, with and without a RecoveryProcessor and with either
  gap handling: `ProcessorInv` with type correctness. The flags say exactly which
  request is under way (`FlagInv`), the position is neither ahead of the exchange nor
  behind what was decoded (`PositionInv`), a used-up `waitcnt` means that the packet
  behind the gap is buffered (`WaitInv`), and what the position has passed in the
  buffer is covered by a snapshot (`BufferInv`). From it `NoSilentLoss`, `DecodeOrder`,
  `HandlerExclusive` and `BufferedNotDropped`. `PassFact` is about the run of packets
  that one pass over `msg_q` decodes. The theorems also cover what no run has: a replay
  without a RecoveryProcessor, and the console's stop and start of the queue.
* **`MessageProcessor_proofs`**, second half, the book, for any packets about it, any
  lifetime of `x` and any snapshots. The composition implements the arbitration
  (`BookRefinesArbitration`), so `ProcessorInv` holds of it. `BookInv` follows the
  position that the book stands for, the latest of its snapshot's, the arbitration's and
  that of a packet decoded half-way (`BookAt`): the book has the orders of the
  exchange's at that position, and no others unless it was loaded on top of an older one
  (`BookKept`), `last_recovery_tx_tim` lies between the snapshot's time and that
  position's (`SnapTimes`), so that what the snapshot holds is rejected and nothing else
  is; `last_tx_tim` is that of the last record decoded, unless a `CLEAR` forgot it and a
  snapshot that covers the record is to come (`LiveTimes`); no answer leads the
  arbitration past the book, and a packet decoded half-way is the next one to decode or
  covered by a snapshot (`Joined`, from `FailedNext`). When it is decoded again the
  record is applied to a book that has it, which changes nothing (`UpdateAgain`).
  `BookCorrect` follows, under `OnStart`, the recovery at the start that `kaspr.cpp`
  always asks for. The hypothesis is needed, see below.
* **`RecoveryProcessor_proofs`**, for any books, any sequence of snapshot cycles and
  any losses, repetitions and overtakings. `FeedInv` (types, `NetOK`: the socket holds
  packets of the feed that is read, `Unanswered`: a recovery under way has no answer)
  gives `AnswerCovered`. `RecoveryInv` needs `BooksInv` with `Progress`: the packets up
  to `curr_seq_num` have been loaded, from cycles with the same layout. It is proved
  under `CountTellsBooks`, a hypothesis of the theorem and not an assumption of the
  module: cycles with equally many books have the same ones in the same order. The code
  compares `totNumReports` and nothing else, so it relies on that; the two cycles of the
  run satisfy it. `ChunkOrderAssumption` is the exchange's: the chunks of a book come
  in order.
* **`GroupManager_proofs`**, for any groups and actors, crashes, silences and debugger
  commands. Mutual exclusion is not inductive: a permission taken from a group that was
  unregistered may still be in a pipe, and its DONE come later. `ManagerInv` says where
  the permission numbered n can be: in one GRANT under way, with one running group, or
  in DONEs (`GrantsValid`, `GrantsUnique`, `RunnersAlone`, `DoneIsOver`). Each handler
  is shown once to keep it, to grant nothing while stopped (`Holds`) and to be a step of
  the lock (`PermStep`); `PermissionInv`, `StopHolds` and the whole refinement of
  `FifoPermission` follow, the sweep of several stale groups in one step included.
* **`Registry_proofs`**, for any managers, actors, lists and restarts. The first half
  shows that each handler keeps the two maps inverse to each other (`Sound`), from which
  `RegistryInv`. `ClientInv` adds what is on the way: the process a request is of, the
  registration an acknowledgement in a socket stands for, and the balance of a socket
  (`Backlog`): answers read, on the way and lost are what heartbeats, time-outs and the
  waiting call have asked for, in the order of the questions. `AliveListed` and
  `AnswerLag` rest on it, for any number of heartbeats and overflows.
* **`ILinkSession_proofs`**, for any handlers, logins and disconnects. `Sessions` holds
  everything on the way from a negotiation to an establishment (`Ordered`), what the
  arbiter has been told (`Told`), and that a receiver's loop has one Continue and none
  once it gave up (`Looping`), without which `nodatacnt` could pass its limit.
  `SessionInv` follows.
* **`ILinkOrders_proofs`**, for any orders, sizes, piece lengths, losses and reports
  missed before the session. `OrdersInv` joins three arguments. *Numbers*: nothing the
  handler keeps is above what it received or heard of (`Within`), so a report beyond it
  opens a gap that is seen whole; and a number at or below `lastseq` has been seen or
  the one after it is first in line (`Based`, `FirstAsked`), so that `check_seq` does
  not run into its assertion; `RequestPiecesFact` says that the pieces cover the gap and
  stay below its end. *Fills*: an order's trades go down along the gateway's log
  (`Descends`), so the lowest received is the newest (`Exact`). *Verdicts*: every order
  and cancel has a number of its own in the handler's tables (`Numbered`), so a business
  reject finds its message. `SequenceInv` and `FillsExact` follow. `VerdictsMatch` is
  proved as long as `NextSeqNo <= RefWidth`: beyond 16 bits it is false, see below. The
  proof found that the handler may also stop on too many rejects, within no bound of the
  run; `AbortExplained` now says so.

* **`OrderPath_proofs`**, for any lights, sides, sizes, limits and latencies. An order is in
  one place after another, its fills and acks follow through two queues and two
  mailboxes, and none of the properties is inductive without saying where everything is.
  `WireInv`: an order goes on the wire once, ahead of its cancels. `FlowInv`: an order in
  the market, an answer or a message in a mailbox belongs to the order in its light's
  slot, and the message that ends an order is the last one of it on each leg
  (`AnswerLast`, `MailLast`). These give `FillsFindOrder`. `SizeInv`: the SOM's count of
  what is left of an order is the book's plus the fills on their way; with it
  `LiveOrderKnown`. `LimitInv`: the position plus what the lights of one side have left
  of their orders stays within the limit plus one whole order of each other light; the
  SOM checks the limit against the fills it has heard of, and an unheard fill is still
  part of what is left; with it `PositionBounded`, for any number of lights, where the
  run has one. These three hold without hypotheses.
  `QInv` says the same of QCoord's entries as `SizeInv` of the SOM's orders; it and
  `AccountsAgree` are proved under `NoLimits` (no position and no size limit set), as
  the id of an order over the limit is given out again (`orders_overlimit`). `CalmInv`
  says that what is cancelled twice is answered too late to matter; with it `OrderInv`,
  that no assertion fails, under `NoLimits` and without console commands
  (`MaxConsole = 0`), as an untimed cancel of the console behind an order on the wire
  fails the book's assertion. Both hypotheses are those of the run `orders_feed`;
  neither is an assumption of a module.

Where a proof needs induction (the recursion of `Without` and of the sweep, the last of
several trades, the sums of the order path, the run of packets that reaches a book) it is
done on sets: a set of numbers that is not empty has a least one (`LeastNat`, from the
library's `WFMin`), hence `SetInduction`, `SeqInduction` and `UpToInduction`, which take a
set instead of a predicate. `Sum` and `LiveRun` are recursive functions for that reason;
that their recursion has a solution is proved (`PartExists`, `RunExists`).

Assumptions on constants, all named in the module that declares them: sizes, bounds and
lengths are numbers (positive where the code divides by them or needs one), the null
value is not a member of its set, and the sets of actors, books and lights are finite.

Only model-checked: all liveness (`EventualDelivery`, `PushesComplete`, `Drained`,
`RecoveryEnds`, `RecoveryCompletes`, `CancelSettles`, `StopUnwinds`, `WaitersServed`,
`ShutdownAnnounced`, `GapHeals`, `LoginReported`, `SilenceEnds`), which is out of the
prover's reach; and the three invariants of `MatchingBook` (`BookMatches`,
`SimFillsBacked`, `NoSimLeftBehind`). Its book operations and its exchange fold an operator
over queues and records, and a fold takes its operator as a parameter, which the provers
do not instantiate; and inside a transaction the book and the exchange differ by the
records still unread, which no short invariant describes.

## Where the code and its documentation disagree

Shown by a run:

* `orders_overlimit`: an order refused for the position limit is acknowledged with
  an id that the next order gets as well; cancelling the one cancels the other, and
  the confusion ends in QCoord's assertion.

Seen while modelling, without a run of their own; where a property would be violated
it excepts the case and says so.

* Mailboxes. A `LockFreeMPSC` of one cell does not notice that it is full (its
  published and its free sequence numbers coincide). No mailbox of the system is that
  small; the proofs assume two cells. `BQueueBatched.hpp:21-28` describes one lock per
  batch; `Actor.cpp:150-160` still takes the actor's mutex for every message.
* Feed. A capture replay calls the RecoveryProcessor it does not have when a packet
  does not decode (`MessageProcessor.hpp:322` and `:230`): `running = "crashed"`. A
  lost end of a snapshot cycle lets the next cycle be loaded on top of it without a
  restart (`RecoveryProcessor.hpp:158`), so a book may come from two cycles.
* Book recovery. A second recovery with no live record of the book in between does not
  clear the book (`OB.cpp:1856`), and an order deleted in between stays; `BookCorrect`
  excepts it (`stacked`) but holds that no order is missing then. The record of a packet
  that fails after it is applied twice (`DataDecoder.hpp:486-500`): for adds, changes
  and deletes by order id that changes nothing, for anything that counts records it
  would. Without `data_recoveryonstart` the channel is joined at any packet; if the
  first recovery then brings a snapshot from before that packet and the book has seen no
  record yet (`last_tx_tim` 0), the snapshot is taken in and what lies between it and
  the first packet is missing for good. `BookCorrect` is refuted with `OnStart = FALSE`;
  kaspr always sets it.
* Matching. `OB_SIMULATION.md` section 3.6 says that filling our orders at a level from
  the last to the first ends in the same state as from the first to the last; with
  partial fills it does not (its own example in 3.5). The live uncross in `add` does
  not ask whether the instrument is matching: during a halt, when a crossed book is
  what the exchange has (the comment in `process_market_data`), it would cancel orders
  the exchange still holds. With an empty side the best price stands at the end of the
  ladder, and an order of ours at that price fills on arrival against nobody. An order
  of ours that arrives while the book is locked or crossed rests through the market
  (`late` in `NoSimLeftBehind`).
* Order path. `stopom`, or a cancel from the console, is untimed, and
  `OB::data_handler` asserts that nothing is on the wire then: stopping while a light
  quotes ends the process. An order refused because trading is stopped stays in
  `SOM::orders`; a second stop cancels it, and the light asserts on the answer, its
  slot being empty. `orders_stop` has both behaviours; its liveness properties allow
  for the abort.
* Group coordination. `messages.hpp:190-195` says that a group which is told to WAIT
  asks again, and `:254-265` that it acknowledges a SHUTDOWN. `Group.cpp:570-576` does
  nothing on the same WAIT ("grant will follow") and has no handler for SHUTDOWN. With
  the manager that matters: `try_grant_next` grants nothing once a shutdown has begun
  (`GroupManager.cpp:495-498`), so a group that waits and does not ask again is never
  served, and with it the shutdown is never announced; a group that does not acknowledge
  keeps the manager running for ever. `ShutdownAnnounced` allows for the first and ends
  before the second. (`Group.cpp` is the `CoordinatorActor`'s client, not this manager's;
  the protocols are alike.)
* Registry. `send_and_receive` takes the next message out of the socket for its answer
  (`RegistryClient.hpp:311`), and nobody reads the acknowledgement of a heartbeat. From
  the first heartbeat on, and `Group.cpp:457` starts them right after registering, or
  from the first time-out on, every lookup on that socket reads the answer to an earlier
  question, until lost answers make up for it: first an acknowledgement, which
  `lookup_actor` reports as "not found", later the endpoint of the actor asked for
  before, as the name in the answer is not compared with the question's.
  `AnswerLag` says by how many questions; no comment of the repository says anything of
  it, so it is not a finding of a run.
* iLink sessions. `ILinkHandler::establish` stays set after a terminate, and the arbiter
  is not told of one; orders go to a terminated session until its connection is lost.
* iLink. `BusinessRejectRefID` is 16 bits wide (`ILinkCBIF.hpp:140`) where the comment
  at `ILinkHandler.hpp:746` treats it as the sequence number: `VerdictsMatch` is
  refuted with `FirstSeqNo = 65536`. The loss of one handler's session takes the order
  manager away from the other one, whose session is up (`ILinkArbiter.hpp:140`).

## Further hazards

Not in `PROJECT.json`, either because a listed hazard is its neighbour or because no
property covers it.

| Where | What | Covered by |
|---|---|---|
| `LockFreeMPSC.hpp:103` | one cell: published and free numbers coincide | the proofs assume two cells |
| `LockFreeMPSC.hpp:175` | between re-check and wait a producer may notify nobody | `NoLostWakeup` |
| `MessageProcessor.hpp:392` | an old snapshot must not move the position back | `DecodeOrder` |
| `MessageProcessor.hpp:315` | a packet in the middle of a run does not decode | `NoSilentLoss`, `ProcessorInv` |
| `MessageProcessor.hpp:291` | `qseq_num` 0 doubles as "nothing decoded yet" | `NoSilentLoss` (from `base` on) |
| `MessageProcessor.hpp:339` | `waitcnt` is armed again after a gap; armed wrongly, the wait is longer or shorter | its range only, by the theorem `ProcessorInv` |
| `OB.cpp:3304` | CLEAR forgets both times; a snapshot behind the position would be taken in | assumed away, see below |
| `OB.cpp:1845` | packets of one event share a time, the rest of an event is rejected after a snapshot inside it | every packet has its own time |
| `OB.cpp:1907` | untimed cancels meet orders on the wire | abort in `orders_stop` |
| `FillSlate.hpp:242` | a trade of the other side after the verdict counts as resting | trades precede book records in the modelled feed |
| `SOM.cpp:1335` | an order rejected while stopped stays in the table | abort in `orders_stop` |
| `SOM.cpp:1383` | live: an order for a venue without manager is never answered | live mode is not modelled |
| `light22_base.hpp:849` | a fill empties the slot though it holds a later order | `LiveOrderKnown`, `AccountsAgree` |
| `qcoord.hpp:271` | the size at a price is checked through a stale cache | sizes by price are not modelled |
| `light22.hpp:242` | the alarm of a delayed cancel may cancel the next order | any cancel may happen at any time |
| `GroupManager.cpp:796` | a pending request of a group timed out while idle survives it | `WaitersServed` excepts it (`orphaned`) |
| `GroupManager.cpp:821` | a group lost during a shutdown was the last to acknowledge | `ShutdownAnnounced` is for groups that stay alive, and ends with the announcement |
| `RegistryActor.cpp:186` | a timed-out manager's heartbeats are still acknowledged | `AliveListed` excepts it |
| `RegistryActor.cpp:97` | time-outs are looked for only when a message arrives | needs endless heartbeats |
| `ILinkHandler.hpp:233` | a large gap is asked for piece by piece | `SequenceInv`, `GapHeals` |
| `ILinkHandler.hpp:490` | numbers only heard of hide the gap below them | `SequenceInv` excepts them (`guessed`) |
| `ILinkHandler.hpp:680` | a request for retransmission is refused: the gap stays | `GapHeals` excepts it |
| `ILinkArbiter.hpp:140` | one handler's failure takes the other's order manager | stated nowhere what should happen |
| `CoordinatorActor.cpp:251` | DONE does not look at the next pending request | not modelled |
| `PositionManager.hpp:187` | `close` and a fill in between flip the position | not modelled |

## Not modelled

Not modelled, with the reason in `PROJECT.json`: decoding and generated codecs,
files and sockets, reference data, logging, measurement and statistics, the
strategy's choice of prices and times, the Rust framework. They are data and
input/output without a protocol, and they are most of the repository's lines; the
models cover the control of the parts above. Planned: the parts under "to do".

Assumptions a reader should know. Handlers of an actor exclude each other and its
mailbox is first in first out (`fast_send_mutex`, the mailboxes above).
`BookRecovery` gives every packet its own transaction time, assumes that a snapshot
read after a restart is not older than what was decoded, and leaves the console's stop
of the queue out (what a stopped queue drops is one more loss). Positions of the ring
do not wrap (64 bits). The order path has one instrument, one trader and the simulated
exchange. `MatchingBook` has one matching instrument and one venue, and trades only
between its records' own transaction; the publication of the inside is left out.
