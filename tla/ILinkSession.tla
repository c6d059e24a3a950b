---------------------------- MODULE ILinkSession ----------------------------
(* Logging in to the exchange and staying logged in: the arbiter, a primary  *)
(* and a secondary ILinkHandler, the receiver thread of each, the keep-alive *)
(* timer and the order manager the SOM uses.  A receiver calls its handler   *)
(* with fast_send, so a message taken from the socket and the handler's work *)
(* on it are one step.  The gateways of the exchange are external.           *)
EXTENDS Naturals, Sequences

CONSTANTS Handler,      \* the primary and the secondary handler
          NoHandler,    \* no order manager for the venue
          MaxDisconnect, \* the notices of a lost session the arbiter puts up with (2)
          MaxLogin,     \* bound: logins asked of the arbiter
          MaxEvent      \* bound: what gateways and the operator start by themselves

ASSUME SessionAssumption == NoHandler \notin Handler /\ MaxDisconnect \in Nat

VARIABLES hnd,          \* the ILinkHandlers
          rec,          \* the ILinkReceivers
          arb,          \* the ILinkArbiter
          som,          \* the SOM's order manager for the venue
          gwy,          \* the gateways, one for each session
          ext,          \* how often the outside has acted, against the bounds
          aborted       \* the process has stopped itself
vars == <<hnd, rec, arb, som, gwy, ext, aborted>>

Up == ~aborted
Post(box, m) == Append(box, m)
InBox(box, m) == \E i \in DOMAIN box : box[i] = m

---------------------------------------------------------------------------
(* What ILinkSnd puts on the socket; heartbeats are not answered, nor kept   *)
(* here.  A send on a connection the gateway has closed may still succeed,   *)
(* and is lost, or fail, which aborts the process.                           *)
SendOn(h, m) ==
  \/ /\ gwy[h].open
     /\ gwy' = IF m = "Sequence" THEN gwy ELSE [gwy EXCEPT ![h].asks = Append(@, m)]
     /\ UNCHANGED aborted
  \/ ~gwy[h].open /\ UNCHANGED <<gwy, aborted>>
  \/ ~gwy[h].open /\ aborted' = TRUE /\ UNCHANGED gwy

---------------------------------------------------------------------------
(* ILinkArbiter *)

\* Whoever wires the session asks for a login.
AskLogin(h) ==
  /\ Up /\ ext.logins < MaxLogin
  /\ ext' = [ext EXCEPT !.logins = @ + 1]
  /\ arb' = [arb EXCEPT !.box = Post(@, <<"Init", h>>)]
  /\ UNCHANGED <<hnd, rec, som, gwy, aborted>>

init_handler ==
  /\ Up /\ arb.box # <<>> /\ Head(arb.box)[1] = "Init"
  /\ hnd' = [hnd EXCEPT ![Head(arb.box)[2]].box = Post(@, "DoInitialize")]
  /\ arb' = [arb EXCEPT !.box = Tail(@)]
  /\ UNCHANGED <<ext, rec, som, gwy, aborted>>

connected_handler ==
  /\ Up /\ arb.box # <<>> /\ Head(arb.box)[1] = "Connected"
  /\ som' = [som EXCEPT !.box = Post(@, [manager |-> Head(arb.box)[2], about |-> Head(arb.box)[2]])]
  /\ arb' = [arb EXCEPT !.box = Tail(@)]
  /\ UNCHANGED <<ext, hnd, rec, gwy, aborted>>

disconnected_handler ==
  /\ Up /\ arb.box # <<>> /\ Head(arb.box)[1] = "Disconnected"
  /\ arb' = [arb EXCEPT !.box = Tail(@), !.disconnect_count = @ + 1]
  /\ IF arb.disconnect_count + 1 > MaxDisconnect
     THEN aborted' = TRUE /\ UNCHANGED som
     ELSE /\ som' = [som EXCEPT !.box = Post(@, [manager |-> NoHandler, about |-> Head(arb.box)[2]])]
          /\ UNCHANGED aborted
  /\ UNCHANGED <<ext, hnd, rec, gwy>>

set_exch_manager_handler ==
  /\ Up /\ som.box # <<>>
  /\ som' = [manager |-> Head(som.box).manager, heard |-> som.heard \cup {Head(som.box).about},
             box |-> Tail(som.box)]
  /\ UNCHANGED <<ext, hnd, rec, arb, gwy, aborted>>

---------------------------------------------------------------------------
(* ILinkHandler: messages of its own mailbox.  quiet says that more than the *)
(* keep-alive interval has passed since last_time.                           *)

Next1(h, m) == Up /\ hnd[h].box # <<>> /\ Head(hnd[h].box) = m
Done(h) == [hnd[h] EXCEPT !.box = Tail(@)]

do_initialize(h) ==
  /\ Next1(h, "DoInitialize")
  /\ SendOn(h, "Negotiate")
  /\ rec' = [rec EXCEPT ![h].box = Post(@, "StartReceiving")]
  /\ hnd' = [hnd EXCEPT ![h] = [Done(h) EXCEPT !.quiet = FALSE]]
  /\ UNCHANGED <<ext, arb, som>>

doBind(h) ==
  /\ Next1(h, "DoBind")
  /\ SendOn(h, "Establish")
  /\ rec' = [rec EXCEPT ![h].box = Post(@, "StartReceiving")]
  /\ hnd' = [hnd EXCEPT ![h] = [Done(h) EXCEPT !.quiet = FALSE]]
  /\ UNCHANGED <<ext, arb, som>>

\* The operator ends the session.
doTerminate(h) ==
  /\ Up /\ hnd[h].establish /\ ext.events < MaxEvent
  /\ SendOn(h, "Terminate")
  /\ ext' = [ext EXCEPT !.events = @ + 1]
  /\ UNCHANGED <<hnd, rec, arb, som>>

\* Mutant of Rearmed: not after a silent interval.
RearmedUnlessQuiet(h) == [hnd[h] EXCEPT !.timers = IF hnd[h].quiet THEN @ - 1 ELSE @]
\* A timeout of a session that is not over arms the timer again.
Rearmed(h) == [hnd[h] EXCEPT !.timers = (@ - 1) + 1]

violations(h) == IF hnd[h].quiet THEN hnd[h].timeout_violations + 1 ELSE 0

\* A timer runs out.  The time its Timeout spends in the mailbox counts as the timer's.
timeout(h) ==
  /\ Up /\ hnd[h].timers > 0
  /\ IF hnd[h].got_terminate
     THEN hnd' = [hnd EXCEPT ![h].timers = @ - 1] /\ UNCHANGED <<gwy, aborted>>
     ELSE /\ hnd' = [hnd EXCEPT ![h] = [Rearmed(h) EXCEPT !.timeout_violations = violations(h)]]
          /\ CASE violations(h) > 2 -> aborted' = TRUE /\ UNCHANGED gwy
               [] violations(h) = 2 -> SendOn(h, "Terminate")
               [] OTHER             -> SendOn(h, "Sequence")
  /\ UNCHANGED <<ext, rec, arb, som>>

\* The keep-alive interval passes without a message.  (Nothing reads last_time before
\* the session is established, which sets it.)
Lapse(h) ==
  /\ Up /\ ~hnd[h].quiet /\ hnd[h].establish
  /\ hnd' = [hnd EXCEPT ![h].quiet = TRUE]
  /\ UNCHANGED <<ext, rec, arb, som, gwy, aborted>>

---------------------------------------------------------------------------
(* ILinkHandler: messages the receiver hands over. *)

\* Mutants of negotiationResponse: no DoBind; the arbiter is told too early.
negotiationResponseNoBind(h) ==
  /\ hnd' = [hnd EXCEPT ![h].negotiate = TRUE, ![h].quiet = FALSE]
  /\ UNCHANGED arb

negotiationResponseConnected(h) ==
  /\ hnd' = [hnd EXCEPT ![h].negotiate = TRUE, ![h].quiet = FALSE, ![h].box = Post(@, "DoBind")]
  /\ arb' = [arb EXCEPT !.box = Post(@, <<"Connected", h>>)]

negotiationResponse(h) ==
  /\ hnd' = [hnd EXCEPT ![h].negotiate = TRUE, ![h].quiet = FALSE, ![h].box = Post(@, "DoBind")]
  /\ UNCHANGED arb

\* The arbiter is told before the session is established.
loginReject(h) ==
  /\ hnd' = [hnd EXCEPT ![h].quiet = FALSE]
  /\ arb' = [arb EXCEPT !.box = Post(@, <<"Disconnected", h>>)]

establishmentAck(h) ==
  /\ hnd' = [hnd EXCEPT ![h].establish = TRUE, ![h].quiet = FALSE, ![h].timers = @ + 1]
  /\ arb' = [arb EXCEPT !.box = Post(@, <<"Connected", h>>)]

terminate(h) ==
  /\ hnd' = [hnd EXCEPT ![h].got_terminate = TRUE]
  /\ UNCHANGED arb

\* A report or the gateway's own heartbeat.
heard(h) ==
  /\ hnd' = [hnd EXCEPT ![h].quiet = FALSE]
  /\ UNCHANGED arb

process_message(h, m) ==
  CASE m = "NegotiationResponse" -> negotiationResponse(h)
    [] m \in {"NegotiationReject", "EstablishmentReject"} -> loginReject(h)
    [] m = "EstablishmentAck"    -> establishmentAck(h)
    [] m = "Terminate"           -> terminate(h)
    [] OTHER                     -> heard(h)

---------------------------------------------------------------------------
(* ILinkReceiver: a loop of Continue messages to itself. *)

Next2(h, m) == Up /\ rec[h].box # <<>> /\ Head(rec[h].box) = m

startreceiving_handler(h) ==
  /\ Next2(h, "StartReceiving")
  /\ rec' = [rec EXCEPT ![h].box = Tail(@), ![h].terminated = FALSE]
  /\ UNCHANGED <<ext, hnd, arb, som, gwy, aborted>>

\* Not started yet: it sleeps and looks again, after what has come meanwhile.
continue_idle(h) ==
  /\ Next2(h, "Continue") /\ rec[h].terminated
  /\ rec' = [rec EXCEPT ![h].box = Post(Tail(@), "Continue")]
  /\ UNCHANGED <<ext, hnd, arb, som, gwy, aborted>>

\* It waits in recv until there is a message.
continue_receive(h) ==
  /\ Next2(h, "Continue") /\ ~rec[h].terminated /\ gwy[h].out # <<>>
  /\ process_message(h, Head(gwy[h].out))
  /\ gwy' = [gwy EXCEPT ![h].out = Tail(@)]
  /\ rec' = [rec EXCEPT ![h].box = Post(Tail(@), "Continue")]
  /\ UNCHANGED <<ext, som, aborted>>

\* The connection is closed: it tries three times more and then gives up.
continue_nodata(h) ==
  /\ Next2(h, "Continue") /\ ~rec[h].terminated /\ gwy[h].out = <<>> /\ ~gwy[h].open
  /\ rec' = [rec EXCEPT ![h].nodatacnt = @ + 1,
                        ![h].box = IF rec[h].nodatacnt < 3 THEN Post(Tail(@), "Continue")
                                                           ELSE Tail(@)]
  /\ UNCHANGED <<ext, hnd, arb, som, gwy, aborted>>

---------------------------------------------------------------------------
(* The gateways *)

Faithful(h) == gwy[h].open /\ ~gwy[h].silent

Reply(h, m) == [gwy EXCEPT ![h].asks = Tail(@), ![h].out = Append(@, m)]

Answer(h) ==
  /\ Up /\ Faithful(h) /\ gwy[h].asks # <<>>
  /\ CASE Head(gwy[h].asks) = "Negotiate" ->
            gwy' \in {Reply(h, "NegotiationResponse"), Reply(h, "NegotiationReject")}
       [] Head(gwy[h].asks) = "Establish" ->
            gwy' \in {Reply(h, "EstablishmentAck"), Reply(h, "EstablishmentReject")}
       [] Head(gwy[h].asks) = "Terminate" ->
            gwy' = [Reply(h, "Terminate") EXCEPT ![h].open = FALSE]
  /\ UNCHANGED <<ext, hnd, rec, arb, som, aborted>>

\* By itself a gateway sends reports and heartbeats, ends the session, closes the
\* connection without a word, or falls silent.
Traffic(h) ==
  /\ Up /\ Faithful(h) /\ ext.events < MaxEvent
  /\ ext' = [ext EXCEPT !.events = @ + 1]
  /\ \/ hnd[h].establish /\ gwy' = [gwy EXCEPT ![h].out = Append(@, "Sequence")]
     \/ gwy' = [gwy EXCEPT ![h].out = Append(@, "Terminate"), ![h].open = FALSE]
     \/ gwy' = [gwy EXCEPT ![h].open = FALSE]
     \/ gwy' = [gwy EXCEPT ![h].silent = TRUE]
  /\ UNCHANGED <<hnd, rec, arb, som, aborted>>

---------------------------------------------------------------------------
Init ==
  /\ hnd = [h \in Handler |-> [box |-> <<>>, negotiate |-> FALSE, establish |-> FALSE,
                               got_terminate |-> FALSE, quiet |-> FALSE,
                               timeout_violations |-> 0, timers |-> 0]]
  /\ rec = [h \in Handler |-> [box |-> <<"Continue">>, terminated |-> TRUE, nodatacnt |-> 0]]
  /\ arb = [box |-> <<>>, disconnect_count |-> 0]
  /\ som = [box |-> <<>>, manager |-> NoHandler, heard |-> {}]
  /\ gwy = [h \in Handler |-> [asks |-> <<>>, out |-> <<>>, open |-> TRUE, silent |-> FALSE]]
  /\ ext = [logins |-> 0, events |-> 0]
  /\ aborted = FALSE

HandlerStep(h) == do_initialize(h) \/ doBind(h)
ReceiverStep(h) == startreceiving_handler(h) \/ continue_idle(h)
                     \/ continue_receive(h) \/ continue_nodata(h)
ArbiterStep == init_handler \/ connected_handler \/ disconnected_handler

Next ==
  \/ ArbiterStep \/ set_exch_manager_handler
  \/ \E h \in Handler : \/ HandlerStep(h) \/ ReceiverStep(h) \/ doTerminate(h) \/ AskLogin(h)
                        \/ timeout(h) \/ Lapse(h) \/ Answer(h) \/ Traffic(h)

\* Every actor has a thread of its own; clocks run; a gateway that is there answers.
Fairness ==
  /\ WF_vars(ArbiterStep) /\ WF_vars(set_exch_manager_handler)
  /\ \A h \in Handler : /\ WF_vars(HandlerStep(h)) /\ WF_vars(ReceiverStep(h))
                        /\ WF_vars(timeout(h)) /\ WF_vars(Lapse(h)) /\ WF_vars(Answer(h))

Spec == Init /\ [][Next]_vars /\ Fairness

---------------------------------------------------------------------------
TypeOK ==
  /\ \A h \in Handler : /\ hnd[h].timeout_violations \in 0..3
                        /\ hnd[h].establish => hnd[h].negotiate
                        /\ rec[h].nodatacnt \in 0..4
  /\ arb.disconnect_count \in 0..(MaxDisconnect + 1)
  /\ som.manager \in Handler \cup {NoHandler}

\* The SOM never has, and is never about to get, an order manager that has not logged in
\* (manager_connected and the arbiter's Connected).  establish is set by the login and never
\* cleared: what the SOM knows of a session that has ended since is not the matter here.
ManagerEstablished ==
  /\ som.manager # NoHandler => hnd[som.manager].establish
  /\ \A i \in DOMAIN som.box : som.box[i].manager # NoHandler => hnd[som.box[i].manager].establish

\* The counters keep within their limits, a session is established only after it was
\* negotiated, and only one that has been established manages orders.
SessionInv == TypeOK /\ ManagerEstablished

\* A login asked of the arbiter ends with the SOM being told how it went.
LoginReported ==
  \A h \in Handler :
    InBox(arb.box, <<"Init", h>>) ~> (h \in som.heard \/ ~Faithful(h) \/ aborted)

\* A session whose gateway has gone is noticed: the process stops, unless a Terminate came.
SilenceEnds ==
  \A h \in Handler :
    (hnd[h].establish /\ ~Faithful(h)) ~> (aborted \/ hnd[h].got_terminate)

=============================================================================
