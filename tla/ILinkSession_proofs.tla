------------------------- MODULE ILinkSession_proofs -------------------------
(***************************************************************************)
(* SessionInv of ILinkSession, for any number of handlers, logins and      *)
(* disconnects.  Its two halves are not inductive alone.  That a session   *)
(* is established only after it was negotiated rests on everything that is *)
(* on the way from the one to the other (Ordered): the DoBind in the       *)
(* handler's mailbox, the Establish on the socket, the gateway's answer.   *)
(* That the counters stop rests on the receiver's loop having one Continue *)
(* at a time, and none once it has given up (Looping).                     *)
(***************************************************************************)
EXTENDS ILinkSession, SequenceTheorems, TLAPS

Ask == {"Negotiate", "Establish", "Terminate"}
Out == {"NegotiationResponse", "NegotiationReject", "EstablishmentAck",
        "EstablishmentReject", "Terminate", "Sequence"}
Kind == {"Init", "Connected", "Disconnected"}

Letter == {"DoInitialize", "DoBind"}
Signal == {"StartReceiving", "Continue"}
Notice == [manager : Handler \cup {NoHandler}, about : Handler]

HandlerState == [box : Seq(Letter), negotiate : BOOLEAN, establish : BOOLEAN,
                 got_terminate : BOOLEAN, quiet : BOOLEAN, timeout_violations : Nat, timers : Nat]
ReceiverState == [box : Seq(Signal), terminated : BOOLEAN, nodatacnt : Nat]
ArbiterState == [box : Seq(Kind \X Handler), disconnect_count : Nat]
ManagerState == [box : Seq(Notice), manager : Handler \cup {NoHandler}, heard : SUBSET Handler]
GatewayState == [asks : Seq(Ask), out : Seq(Out), open : BOOLEAN, silent : BOOLEAN]

Shape ==
  /\ hnd \in [Handler -> HandlerState]
  /\ rec \in [Handler -> ReceiverState]
  /\ arb \in ArbiterState
  /\ som \in ManagerState
  /\ gwy \in [Handler -> GatewayState]
  /\ aborted \in BOOLEAN

\* Whatever is under way towards an established session is of a negotiated one.
Ordered(h) ==
  ~hnd[h].negotiate =>
    /\ ~InBox(hnd[h].box, "DoBind")
    /\ ~InBox(gwy[h].asks, "Establish")
    /\ ~InBox(gwy[h].out, "EstablishmentAck")
    /\ ~hnd[h].establish

\* The arbiter is told of established sessions only.
Told == \A h \in Handler : InBox(arb.box, <<"Connected", h>>) => hnd[h].establish

Single(box) == \A i, j \in DOMAIN box : box[i] = "Continue" /\ box[j] = "Continue" => i = j

\* The receiver's loop: one Continue, and none when it has given up.
Looping(h) ==
  /\ Single(rec[h].box)
  /\ rec[h].nodatacnt <= 3 \/ (rec[h].nodatacnt = 4 /\ ~InBox(rec[h].box, "Continue"))

\* The counters that stop the process are at their limits only when it has stopped.
Limits ==
  /\ \A h \in Handler : hnd[h].timeout_violations <= IF aborted THEN 3 ELSE 2
  /\ arb.disconnect_count <= IF aborted THEN MaxDisconnect + 1 ELSE MaxDisconnect

Sessions ==
  /\ Shape
  /\ \A h \in Handler : Ordered(h) /\ Looping(h)
  /\ Told
  /\ ManagerEstablished
  /\ Limits

-----------------------------------------------------------------------------
(* Mailboxes *)

\* A mailbox with one more message.
LEMMA PostBox ==
  ASSUME NEW S, NEW s \in Seq(S), NEW y \in S
  PROVE  /\ Append(s, y) \in Seq(S)
         /\ \A x : InBox(Append(s, y), x) <=> InBox(s, x) \/ x = y
<1>1. /\ Append(s, y) \in Seq(S) /\ Len(Append(s, y)) = Len(s) + 1
      /\ \A i \in 1..Len(s) : Append(s, y)[i] = s[i]
      /\ Append(s, y)[Len(s) + 1] = y
      /\ DOMAIN s = 1..Len(s) /\ DOMAIN Append(s, y) = 1..(Len(s) + 1) /\ Len(s) \in Nat
  BY AppendProperties
<1> QED BY <1>1 DEF InBox

\* A mailbox whose first message was taken.
LEMMA TakeBox ==
  ASSUME NEW S, NEW s \in Seq(S), s # <<>>
  PROVE  /\ Tail(s) \in Seq(S) /\ Head(s) \in S
         /\ InBox(s, Head(s))
         /\ \A x : InBox(Tail(s), x) => InBox(s, x)
<1>1. /\ Tail(s) \in Seq(S) /\ Head(s) = s[1] /\ Len(s) \in Nat /\ Len(s) >= 1
      /\ DOMAIN s = 1..Len(s) /\ DOMAIN Tail(s) = 1..(Len(s) - 1)
      /\ \A i \in 1..(Len(s) - 1) : Tail(s)[i] = s[i + 1]
      /\ s[1] \in S
  OBVIOUS
<1>2. InBox(s, Head(s))
  BY <1>1 DEF InBox
<1>3. ASSUME NEW x, InBox(Tail(s), x) PROVE InBox(s, x)
  BY <1>1, <1>3 DEF InBox
<1> QED BY <1>1, <1>2, <1>3

\* What the receiver's mailbox keeps: at most one Continue.
LEMMA SingleBox ==
  ASSUME NEW S, NEW s \in Seq(S), NEW y \in S, Single(s)
  PROVE  /\ y # "Continue" \/ ~InBox(s, "Continue") => Single(Append(s, y))
         /\ s # <<>> => Single(Tail(s))
         /\ s # <<>> /\ Head(s) = "Continue" => ~InBox(Tail(s), "Continue")
<1>1. /\ Len(Append(s, y)) = Len(s) + 1
      /\ \A i \in 1..Len(s) : Append(s, y)[i] = s[i]
      /\ Append(s, y)[Len(s) + 1] = y
      /\ DOMAIN s = 1..Len(s) /\ DOMAIN Append(s, y) = 1..(Len(s) + 1) /\ Len(s) \in Nat
  BY AppendProperties
<1>2. y # "Continue" \/ ~InBox(s, "Continue") => Single(Append(s, y))
  BY <1>1 DEF Single, InBox
<1>3. ASSUME s # <<>>
      PROVE  /\ Single(Tail(s))
             /\ Head(s) = "Continue" => ~InBox(Tail(s), "Continue")
  <2>1. /\ Head(s) = s[1] /\ Len(s) >= 1 /\ DOMAIN Tail(s) = 1..(Len(s) - 1)
        /\ \A i \in 1..(Len(s) - 1) : Tail(s)[i] = s[i + 1] /\ i + 1 \in 1..Len(s)
    BY <1>3
  <2>2. Single(Tail(s))
    BY <1>1, <2>1 DEF Single
  <2>3. Head(s) = "Continue" => ~InBox(Tail(s), "Continue")
    BY <1>1, <2>1 DEF Single, InBox
  <2> QED BY <2>2, <2>3
<1> QED BY <1>2, <1>3

-----------------------------------------------------------------------------
(* What the steps have in common *)

\* The order of a login: nothing takes a session back to where it is not
\* negotiated or established, and each message on the way follows the last.
Forward ==
  /\ \A h \in Handler :
       /\ hnd[h].negotiate => hnd'[h].negotiate
       /\ hnd[h].establish => hnd'[h].establish
       /\ InBox(hnd'[h].box, "DoBind") => InBox(hnd[h].box, "DoBind") \/ hnd'[h].negotiate
       /\ InBox(gwy'[h].asks, "Establish") =>
             InBox(gwy[h].asks, "Establish") \/ InBox(hnd[h].box, "DoBind")
       /\ InBox(gwy'[h].out, "EstablishmentAck") =>
             InBox(gwy[h].out, "EstablishmentAck") \/ InBox(gwy[h].asks, "Establish")
       /\ hnd'[h].establish => hnd[h].establish \/ InBox(gwy[h].out, "EstablishmentAck")
       /\ InBox(arb'.box, <<"Connected", h>>) =>
             InBox(arb.box, <<"Connected", h>>) \/ hnd'[h].establish

\* A step that only moves a login forward keeps its order.
LEMMA ForwardKeeps ==
  ASSUME Sessions, Shape', Forward
  PROVE  (\A h \in Handler : Ordered(h)') /\ Told' /\ (UNCHANGED som => ManagerEstablished')
<1>1. ASSUME NEW h \in Handler PROVE Ordered(h)'
  <2>1. Ordered(h)
    BY DEF Sessions
  <2>2. hnd[h].negotiate \in BOOLEAN /\ hnd'[h].negotiate \in BOOLEAN
    BY DEF Sessions, Shape, HandlerState
  <2> QED BY <2>1, <2>2 DEF Ordered, Forward
<1>2. Told'
  BY DEF Sessions, Told, Forward
<1>3. ASSUME UNCHANGED som PROVE ManagerEstablished'
  <2>1. som.manager \in Handler \cup {NoHandler}
    BY DEF Sessions, Shape, ManagerState
  <2>2. \A i \in DOMAIN som.box : som.box[i].manager \in Handler \cup {NoHandler}
    <3>1. som.box \in Seq(Notice)
      BY DEF Sessions, Shape, ManagerState
    <3>2. \A i \in DOMAIN som.box :
             som.box[i] \in Notice
      BY <3>1
    <3> QED BY <3>2 DEF Notice
  <2>3. \A h \in Handler : hnd[h].establish => hnd'[h].establish
    BY DEF Forward
  <2> QED BY <1>3, <2>1, <2>2, <2>3 DEF Sessions, ManagerEstablished
<1> QED BY <1>1, <1>2, <1>3

\* What ILinkSnd does to the sockets.
LEMMA SendOnGateway ==
  ASSUME Shape, NEW h \in Handler, NEW m \in Ask \cup {"Sequence"}, SendOn(h, m)
  PROVE  /\ gwy' \in [Handler -> GatewayState]
         /\ aborted' \in BOOLEAN /\ (aborted => aborted')
         /\ \A k \in Handler :
              /\ InBox(gwy'[k].asks, "Establish") =>
                    InBox(gwy[k].asks, "Establish") \/ (k = h /\ m = "Establish")
              /\ gwy'[k].out = gwy[k].out
<1>0. gwy[h].asks \in Seq(Ask)
  BY DEF Shape, GatewayState
<1>1. CASE gwy' = gwy
  BY <1>1 DEF SendOn, Shape, GatewayState
<1>2. CASE m # "Sequence" /\ gwy' = [gwy EXCEPT ![h].asks = Append(@, m)] /\ UNCHANGED aborted
  <2>1. /\ Append(gwy[h].asks, m) \in Seq(Ask)
        /\ \A x : InBox(Append(gwy[h].asks, m), x) <=> InBox(gwy[h].asks, x) \/ x = m
    <3>1. m \in Ask
      BY <1>2
    <3> QED BY <1>0, <3>1, PostBox
  <2>2. gwy'[h].asks = Append(gwy[h].asks, m) /\ gwy'[h].out = gwy[h].out
    BY <1>2 DEF Shape, GatewayState
  <2>3. \A k \in Handler \ {h} : gwy'[k] = gwy[k]
    BY <1>2 DEF Shape
  <2>4. gwy' \in [Handler -> GatewayState]
    BY <1>2, <2>1 DEF Shape, GatewayState
  <2> QED BY <1>2, <2>1, <2>2, <2>3, <2>4 DEF Shape
<1> QED BY <1>1, <1>2 DEF SendOn

-----------------------------------------------------------------------------
(* The arbiter and the order manager *)

\* No handler has logged in; each receiver has its Continue.
LEMMA InitSessions == Init => Sessions
<1> SUFFICES ASSUME Init PROVE Sessions
  OBVIOUS
<1>1. Shape
  <2>1. "Continue" \in Signal /\ <<"Continue">> \in Seq(Signal)
    BY DEF Signal
  <2>2. /\ <<>> \in Seq(Letter) /\ <<>> \in Seq(Kind \X Handler) /\ <<>> \in Seq(Notice)
        /\ <<>> \in Seq(Ask) /\ <<>> \in Seq(Out)
    BY EmptySeq
  <2>3. hnd \in [Handler -> HandlerState]
    BY <2>2 DEF Init, HandlerState
  <2>4. rec \in [Handler -> ReceiverState]
    BY <2>1 DEF Init, ReceiverState
  <2>5. gwy \in [Handler -> GatewayState]
    BY <2>2 DEF Init, GatewayState
  <2>6. arb \in ArbiterState /\ som \in ManagerState /\ aborted \in BOOLEAN
    BY <2>2 DEF Init, ArbiterState, ManagerState
  <2> QED BY <2>3, <2>4, <2>5, <2>6 DEF Shape
<1>2. ASSUME NEW x PROVE ~InBox(<<>>, x)
  BY DEF InBox
<1>3. ASSUME NEW h \in Handler PROVE Ordered(h) /\ Looping(h)
  <2>1. Ordered(h)
    BY <1>2 DEF Init, Ordered
  <2>2. rec[h].box = <<"Continue">> /\ rec[h].nodatacnt = 0
    BY DEF Init
  <2>3. Single(<<"Continue">>)
    BY DEF Single
  <2> QED BY <2>1, <2>2, <2>3 DEF Looping
<1>4. Told
  BY <1>2 DEF Init, Told
<1>5. ManagerEstablished
  BY DEF Init, ManagerEstablished
<1>6. Limits
  BY SessionAssumption DEF Init, Limits
<1> QED BY <1>1, <1>3, <1>4, <1>5, <1>6 DEF Sessions

\* The arbiter hands the order manager on, or takes it away.
LEMMA ArbiterKeeps ==
  ASSUME Sessions, ArbiterStep
  PROVE  Sessions'
<1>0. /\ Shape /\ arb.box \in Seq(Kind \X Handler) /\ arb.box # <<>> /\ Up
  BY DEF Sessions, Shape, ArbiterState, ArbiterStep, init_handler, connected_handler,
         disconnected_handler
<1>1. /\ Tail(arb.box) \in Seq(Kind \X Handler) /\ Head(arb.box) \in Kind \X Handler
      /\ InBox(arb.box, Head(arb.box))
      /\ \A x : InBox(Tail(arb.box), x) => InBox(arb.box, x)
  BY <1>0, TakeBox
<1> DEFINE k == Head(arb.box)[2]
<1>2. k \in Handler
  BY <1>1
<1>3. arb'.box = Tail(arb.box) /\ UNCHANGED <<rec, gwy>>
  BY <1>0 DEF ArbiterStep, init_handler, connected_handler, disconnected_handler, Shape, ArbiterState
<1>4. \A h \in Handler : Looping(h)'
  BY <1>3 DEF Sessions, Looping
<1>5. CASE init_handler
  <2>1. /\ hnd' = [hnd EXCEPT ![k].box = Append(@, "DoInitialize")]
        /\ arb' = [arb EXCEPT !.box = Tail(@)]
        /\ UNCHANGED <<som, aborted>>
    BY <1>5 DEF init_handler, Post
  <2>2. /\ Append(hnd[k].box, "DoInitialize") \in Seq(Letter)
        /\ \A x : InBox(Append(hnd[k].box, "DoInitialize"), x)
                    <=> InBox(hnd[k].box, x) \/ x = "DoInitialize"
    <3>1. hnd[k].box \in Seq(Letter) /\ "DoInitialize" \in Letter
      BY <1>0, <1>2 DEF Shape, HandlerState, Letter
    <3> QED BY <3>1, PostBox
  <2>3. Shape'
    <3>1. hnd' \in [Handler -> HandlerState]
      BY <1>0, <1>2, <2>1, <2>2 DEF Shape, HandlerState
    <3>2. arb' \in ArbiterState
      BY <1>0, <1>1, <2>1 DEF Shape, ArbiterState
    <3> QED BY <1>0, <1>3, <2>1, <3>1, <3>2 DEF Shape
  <2>4. \A h \in Handler :
           /\ hnd'[h].negotiate = hnd[h].negotiate /\ hnd'[h].establish = hnd[h].establish
           /\ hnd'[h].timeout_violations = hnd[h].timeout_violations
           /\ InBox(hnd'[h].box, "DoBind") => InBox(hnd[h].box, "DoBind")
    BY <1>0, <1>2, <2>1, <2>2 DEF Shape, HandlerState
  <2>5. Forward
    BY <1>1, <1>3, <2>4 DEF Forward
  <2>6. Limits'
    BY <1>0, <2>1, <2>4 DEF Sessions, Limits, Shape, ArbiterState
  <2> QED BY <1>4, <2>1, <2>3, <2>5, <2>6, ForwardKeeps DEF Sessions
<1>6. CASE connected_handler
  <2> DEFINE x == [manager |-> k, about |-> k]
  <2>1. /\ som' = [som EXCEPT !.box = Append(@, x)]
        /\ arb' = [arb EXCEPT !.box = Tail(@)]
        /\ UNCHANGED <<hnd, aborted>>
        /\ Head(arb.box)[1] = "Connected"
    BY <1>6 DEF connected_handler, Post
  <2>2. x \in Notice /\ x.manager = k
    BY <1>2 DEF Notice
  <2>3. hnd[k].establish
    <3>1. Head(arb.box) = <<"Connected", k>>
      BY <1>1, <2>1
    <3> QED BY <1>1, <1>2, <3>1 DEF Sessions, Told
  <2> HIDE DEF x
  <2>4. Append(som.box, x) \in Seq(Notice)
    BY <1>0, <2>2 DEF Shape, ManagerState
  <2>5. Shape'
    BY <1>0, <1>1, <1>3, <2>1, <2>4 DEF Shape, ArbiterState, ManagerState
  <2>6. Forward
    BY <1>1, <1>3, <2>1 DEF Forward
  <2>7. ManagerEstablished'
    <3>1. som'.manager = som.manager /\ som'.box = Append(som.box, x)
      BY <1>0, <2>1 DEF Shape, ManagerState
    <3>2. \A i \in DOMAIN Append(som.box, x) :
             \/ i \in DOMAIN som.box /\ Append(som.box, x)[i] = som.box[i]
             \/ Append(som.box, x)[i] = x
      BY <1>0, <2>2, AppendProperties DEF Shape, ManagerState
    <3> QED BY <2>1, <2>2, <2>3, <3>1, <3>2 DEF Sessions, ManagerEstablished
  <2>8. Limits'
    BY <1>0, <2>1 DEF Sessions, Limits, Shape, ArbiterState
  <2> QED BY <1>4, <2>5, <2>6, <2>7, <2>8, ForwardKeeps DEF Sessions
<1>7. CASE disconnected_handler
  <2> DEFINE x == [manager |-> NoHandler, about |-> k]
  <2>1. /\ arb' = [arb EXCEPT !.box = Tail(@), !.disconnect_count = @ + 1]
        /\ UNCHANGED hnd
        /\ \/ arb.disconnect_count + 1 > MaxDisconnect /\ aborted' = TRUE /\ UNCHANGED som
           \/ /\ ~(arb.disconnect_count + 1 > MaxDisconnect)
              /\ som' = [som EXCEPT !.box = Append(@, x)] /\ UNCHANGED aborted
    BY <1>7 DEF disconnected_handler, Post
  <2>2. x \in Notice /\ x.manager = NoHandler
    BY <1>2 DEF Notice
  <2> HIDE DEF x
  <2>3. Append(som.box, x) \in Seq(Notice)
    BY <1>0, <2>2 DEF Shape, ManagerState
  <2>4. Shape'
    <3>1. som' \in ManagerState
      BY <1>0, <2>1, <2>3 DEF Shape, ManagerState
    <3>2. arb' \in ArbiterState
      <4>1. arb = [box |-> arb.box, disconnect_count |-> arb.disconnect_count]
             /\ arb.disconnect_count \in Nat
        BY <1>0 DEF Shape, ArbiterState
      <4>2. arb' = [box |-> Tail(arb.box), disconnect_count |-> arb.disconnect_count + 1]
        BY <2>1, <4>1
      <4> QED BY <1>1, <4>1, <4>2 DEF ArbiterState
    <3> QED BY <1>0, <1>3, <2>1, <3>1, <3>2 DEF Shape
  <2>5. Forward
    BY <1>1, <1>3, <2>1 DEF Forward
  <2>6. ManagerEstablished'
    <3>1. CASE UNCHANGED som
      BY <2>4, <2>5, <3>1, ForwardKeeps
    <3>2. CASE som' = [som EXCEPT !.box = Append(@, x)]
      <4>1. som'.manager = som.manager /\ som'.box = Append(som.box, x)
        BY <1>0, <3>2 DEF Shape, ManagerState
      <4>2. \A i \in DOMAIN Append(som.box, x) :
               \/ i \in DOMAIN som.box /\ Append(som.box, x)[i] = som.box[i]
             \/ Append(som.box, x)[i] = x
        BY <1>0, <2>2, AppendProperties DEF Shape, ManagerState
      <4> QED BY <2>1, <2>2, <4>1, <4>2 DEF Sessions, ManagerEstablished
    <3> QED BY <2>1, <3>1, <3>2
  <2>7. Limits'
    <3>1. /\ arb'.disconnect_count = arb.disconnect_count + 1 /\ arb.disconnect_count \in Nat
          /\ ~aborted
      BY <1>0, <2>1 DEF Shape, ArbiterState, Up
    <3>2. arb.disconnect_count <= MaxDisconnect /\ MaxDisconnect \in Nat
      BY <3>1, SessionAssumption DEF Sessions, Limits
    <3>3. \A h \in Handler : hnd[h].timeout_violations <= 2 /\ hnd[h].timeout_violations \in Nat
      BY <1>0, <3>1 DEF Sessions, Limits, Shape, HandlerState
    <3>4. arb'.disconnect_count <= IF aborted' THEN MaxDisconnect + 1 ELSE MaxDisconnect
      BY <2>1, <3>1, <3>2
    <3>5. \A h \in Handler : hnd'[h].timeout_violations <= IF aborted' THEN 3 ELSE 2
      BY <2>1, <3>3
    <3> QED BY <3>4, <3>5 DEF Limits
  <2> QED BY <1>4, <2>4, <2>5, <2>6, <2>7, ForwardKeeps DEF Sessions
<1> QED BY <1>5, <1>6, <1>7 DEF ArbiterStep

\* The SOM takes the order manager the arbiter names.
LEMMA ManagerKeeps ==
  ASSUME Sessions, set_exch_manager_handler
  PROVE  Sessions'
<1>1. /\ Shape /\ som.box \in Seq(Notice) /\ som.box # <<>>
      /\ UNCHANGED <<hnd, rec, arb, gwy, aborted>>
      /\ som'.manager = Head(som.box).manager
      /\ som'.heard = som.heard \cup {Head(som.box).about}
      /\ som'.box = Tail(som.box)
      /\ som' = [manager |-> som'.manager, heard |-> som'.heard, box |-> som'.box]
  BY DEF Sessions, Shape, ManagerState, set_exch_manager_handler
<1>2. /\ Tail(som.box) \in Seq(Notice) /\ Head(som.box) \in Notice /\ Head(som.box) = som.box[1]
      /\ 1 \in DOMAIN som.box
      /\ \A i \in DOMAIN Tail(som.box) : i + 1 \in DOMAIN som.box /\ Tail(som.box)[i] = som.box[i + 1]
  BY <1>1
<1>3. Shape'
  <2>1. som' \in ManagerState
    BY <1>1, <1>2 DEF Shape, ManagerState, Notice
  <2> QED BY <1>1, <2>1 DEF Shape
<1>4. Forward
  BY <1>1 DEF Forward
<1>5. ManagerEstablished'
  BY <1>1, <1>2 DEF Sessions, ManagerEstablished
<1>6. (\A h \in Handler : Looping(h)') /\ Limits'
  BY <1>1 DEF Sessions, Looping, Limits
<1> QED BY <1>3, <1>4, <1>5, <1>6, ForwardKeeps DEF Sessions

\* The operator asks for a login.
LEMMA AskLoginKeeps ==
  ASSUME Sessions, NEW h \in Handler, AskLogin(h)
  PROVE  Sessions'
<1>1. Shape /\ arb' = [arb EXCEPT !.box = Append(@, <<"Init", h>>)]
      /\ UNCHANGED <<hnd, rec, som, gwy, aborted>>
  BY DEF Sessions, AskLogin, Post
<1>2. /\ Append(arb.box, <<"Init", h>>) \in Seq(Kind \X Handler)
      /\ \A x : InBox(Append(arb.box, <<"Init", h>>), x) <=> InBox(arb.box, x) \/ x = <<"Init", h>>
  <2>1. <<"Init", h>> \in Kind \X Handler /\ arb.box \in Seq(Kind \X Handler)
    BY <1>1 DEF Kind, Shape, ArbiterState
  <2> QED BY <2>1, PostBox
<1>3. Shape'
  BY <1>1, <1>2 DEF Shape, ArbiterState
<1>4. Forward
  <2>1. arb'.box = Append(arb.box, <<"Init", h>>)
    BY <1>1 DEF Shape, ArbiterState
  <2> QED BY <1>1, <1>2, <2>1 DEF Forward
<1>5. (\A k \in Handler : Looping(k)') /\ Limits'
  BY <1>1 DEF Sessions, Looping, Limits, Shape, ArbiterState
<1> QED BY <1>1, <1>3, <1>4, <1>5, ForwardKeeps DEF Sessions

-----------------------------------------------------------------------------
(* The handlers *)

\* do_initialize and doBind: the next message of the login goes out, and the
\* receiver is told to listen.
LEMMA HandlerKeeps ==
  ASSUME Sessions, NEW h \in Handler, HandlerStep(h)
  PROVE  Sessions'
<1> DEFINE letter == Head(hnd[h].box)
<1>0. /\ Shape /\ hnd[h].box \in Seq(Letter) /\ hnd[h].box # <<>> /\ rec[h].box \in Seq(Signal)
      /\ Single(rec[h].box) /\ ~aborted
  BY DEF Sessions, Shape, HandlerState, ReceiverState, Looping, HandlerStep, do_initialize, doBind,
         Next1, Up
<1>1. PICK m \in Ask :
        /\ SendOn(h, m)
        /\ m = "Establish" => letter = "DoBind"
        /\ rec' = [rec EXCEPT ![h].box = Append(@, "StartReceiving")]
        /\ hnd' = [hnd EXCEPT ![h] = [hnd[h] EXCEPT !.box = Tail(@), !.quiet = FALSE]]
        /\ UNCHANGED <<arb, som>>
  <2>1. CASE do_initialize(h)
    BY <2>1 DEF do_initialize, Next1, Done, Post, Ask
  <2>2. CASE doBind(h)
    BY <2>2 DEF doBind, Next1, Done, Post, Ask
  <2> QED BY <2>1, <2>2 DEF HandlerStep
<1>2. /\ Tail(hnd[h].box) \in Seq(Letter) /\ InBox(hnd[h].box, letter)
      /\ \A x : InBox(Tail(hnd[h].box), x) => InBox(hnd[h].box, x)
  BY <1>0, TakeBox
<1>3. /\ gwy' \in [Handler -> GatewayState]
      /\ aborted' \in BOOLEAN
      /\ \A k \in Handler :
           /\ InBox(gwy'[k].asks, "Establish") =>
                 InBox(gwy[k].asks, "Establish") \/ (k = h /\ m = "Establish")
           /\ gwy'[k].out = gwy[k].out
  BY <1>0, <1>1, SendOnGateway
<1>4. /\ Append(rec[h].box, "StartReceiving") \in Seq(Signal)
      /\ \A x : InBox(Append(rec[h].box, "StartReceiving"), x)
                 <=> InBox(rec[h].box, x) \/ x = "StartReceiving"
      /\ Single(Append(rec[h].box, "StartReceiving"))
  <2>1. "StartReceiving" \in Signal /\ "StartReceiving" # "Continue"
    BY DEF Signal
  <2> QED BY <1>0, <2>1, PostBox, SingleBox
<1>5. /\ hnd' \in [Handler -> HandlerState]
      /\ \A k \in Handler :
           /\ hnd'[k].negotiate = hnd[k].negotiate /\ hnd'[k].establish = hnd[k].establish
           /\ hnd'[k].timeout_violations = hnd[k].timeout_violations
           /\ InBox(hnd'[k].box, "DoBind") => InBox(hnd[k].box, "DoBind")
  BY <1>0, <1>1, <1>2 DEF Shape, HandlerState
<1>6. /\ rec' \in [Handler -> ReceiverState]
      /\ rec'[h].box = Append(rec[h].box, "StartReceiving")
      /\ rec'[h].nodatacnt = rec[h].nodatacnt
      /\ \A k \in Handler \ {h} : rec'[k] = rec[k]
  BY <1>0, <1>1, <1>4 DEF Shape, ReceiverState
<1>7. Shape'
  BY <1>0, <1>1, <1>3, <1>5, <1>6 DEF Shape
<1>8. Forward
  BY <1>1, <1>2, <1>3, <1>5 DEF Forward
<1>9. ASSUME NEW k \in Handler PROVE Looping(k)'
  <2>1. Looping(k)
    BY DEF Sessions
  <2>2. CASE k = h
    <3>1. ~InBox(rec[h].box, "Continue") => ~InBox(rec'[h].box, "Continue")
      BY <1>4, <1>6
    <3> QED BY <1>4, <1>6, <2>1, <2>2, <3>1 DEF Looping
  <2>3. CASE k # h
    BY <1>6, <2>1, <2>3 DEF Looping
  <2> QED BY <2>2, <2>3
<1>10. Limits'
  <2>1. \A k \in Handler : hnd[k].timeout_violations <= 2 /\ hnd[k].timeout_violations \in Nat
    BY <1>0 DEF Sessions, Limits, Shape, HandlerState
  <2>2. arb.disconnect_count <= MaxDisconnect /\ arb.disconnect_count \in Nat
    BY <1>0 DEF Sessions, Limits, Shape, ArbiterState
  <2> QED BY <1>1, <1>5, <2>1, <2>2, SessionAssumption DEF Limits
<1> QED BY <1>1, <1>7, <1>8, <1>9, <1>10, ForwardKeeps DEF Sessions

\* A step that only sends, and sends nothing of a login.
LEMMA TerminateKeeps ==
  ASSUME Sessions, NEW h \in Handler, doTerminate(h)
  PROVE  Sessions'
<1>0. Shape /\ ~aborted
  BY DEF Sessions, doTerminate, Up
<1>1. SendOn(h, "Terminate") /\ "Terminate" \in Ask /\ UNCHANGED <<hnd, rec, arb, som>>
  BY DEF doTerminate, Ask
<1>2. /\ gwy' \in [Handler -> GatewayState]
      /\ aborted' \in BOOLEAN
      /\ \A k \in Handler :
           /\ InBox(gwy'[k].asks, "Establish") => InBox(gwy[k].asks, "Establish")
           /\ gwy'[k].out = gwy[k].out
  BY <1>0, <1>1, SendOnGateway
<1>3. Shape'
  BY <1>0, <1>1, <1>2 DEF Shape
<1>4. Forward
  BY <1>1, <1>2 DEF Forward
<1>5. \A k \in Handler : Looping(k)'
  BY <1>1 DEF Sessions, Looping
<1>6. Limits'
  <2>1. \A k \in Handler : hnd[k].timeout_violations <= 2 /\ hnd[k].timeout_violations \in Nat
    BY <1>0 DEF Sessions, Limits, Shape, HandlerState
  <2>2. arb.disconnect_count <= MaxDisconnect /\ arb.disconnect_count \in Nat
    BY <1>0 DEF Sessions, Limits, Shape, ArbiterState
  <2> QED BY <1>1, <2>1, <2>2, SessionAssumption DEF Limits
<1> QED BY <1>1, <1>3, <1>4, <1>5, <1>6, ForwardKeeps DEF Sessions

\* A handler's clock: keep-alive, or a silent gateway.
LEMMA TimeoutKeeps ==
  ASSUME Sessions, NEW h \in Handler, timeout(h)
  PROVE  Sessions'
<1>0. Shape /\ ~aborted /\ hnd[h].timers \in Nat /\ hnd[h].timers > 0
      /\ UNCHANGED <<rec, arb, som>>
  BY DEF Sessions, Shape, HandlerState, timeout, Up
<1>a. \A k \in Handler : hnd[k].timeout_violations <= 2 /\ hnd[k].timeout_violations \in Nat
  BY <1>0 DEF Sessions, Limits, Shape, HandlerState
<1>b. arb.disconnect_count <= MaxDisconnect /\ arb.disconnect_count \in Nat
  BY <1>0 DEF Sessions, Limits, Shape, ArbiterState
<1>c. violations(h) \in 0..3
  BY <1>a DEF violations
<1>1. /\ hnd' \in [Handler -> HandlerState]
      /\ \A k \in Handler :
           /\ hnd'[k].negotiate = hnd[k].negotiate /\ hnd'[k].establish = hnd[k].establish
           /\ hnd'[k].box = hnd[k].box
           /\ hnd'[k].timeout_violations <= IF aborted' THEN 3 ELSE 2
      /\ gwy' \in [Handler -> GatewayState]
      /\ aborted' \in BOOLEAN
      /\ \A k \in Handler :
           /\ InBox(gwy'[k].asks, "Establish") => InBox(gwy[k].asks, "Establish")
           /\ gwy'[k].out = gwy[k].out
  <2>1. CASE hnd[h].got_terminate
    <3>1. hnd' = [hnd EXCEPT ![h].timers = @ - 1] /\ UNCHANGED <<gwy, aborted>>
      BY <2>1 DEF timeout
    <3>2. /\ hnd' \in [Handler -> HandlerState]
          /\ \A k \in Handler :
              /\ hnd'[k].negotiate = hnd[k].negotiate /\ hnd'[k].establish = hnd[k].establish
              /\ hnd'[k].box = hnd[k].box
              /\ hnd'[k].timeout_violations = hnd[k].timeout_violations
      <4> DEFINE v == [hnd[h] EXCEPT !.timers = @ - 1]
      <4>1. hnd[h] \in HandlerState /\ hnd[h].timers - 1 \in Nat
        BY <1>0 DEF Shape
      <4>2. /\ v \in HandlerState
            /\ v.negotiate = hnd[h].negotiate /\ v.establish = hnd[h].establish /\ v.box = hnd[h].box
            /\ v.timeout_violations = hnd[h].timeout_violations
        BY <4>1 DEF HandlerState
      <4>3. hnd' = [hnd EXCEPT ![h] = v]
        BY <1>0, <3>1 DEF Shape
      <4> HIDE DEF v
      <4> QED BY <1>0, <4>2, <4>3 DEF Shape
    <3> QED BY <1>0, <1>a, <3>1, <3>2 DEF Shape
  <2>2. CASE ~hnd[h].got_terminate
    <3>1. /\ hnd' = [hnd EXCEPT ![h] =
                 [[hnd[h] EXCEPT !.timers = (@ - 1) + 1] EXCEPT !.timeout_violations = violations(h)]]
          /\ CASE violations(h) > 2 -> aborted' = TRUE /\ UNCHANGED gwy
               [] violations(h) = 2 -> SendOn(h, "Terminate")
               [] OTHER             -> SendOn(h, "Sequence")
      BY <2>2 DEF timeout, Rearmed
    <3>2. /\ hnd' \in [Handler -> HandlerState]
          /\ \A k \in Handler :
              /\ hnd'[k].negotiate = hnd[k].negotiate /\ hnd'[k].establish = hnd[k].establish
              /\ hnd'[k].box = hnd[k].box
              /\ hnd'[k].timeout_violations =
                    IF k = h THEN violations(h) ELSE hnd[k].timeout_violations
      <4> DEFINE v == [[hnd[h] EXCEPT !.timers = (@ - 1) + 1] EXCEPT !.timeout_violations = violations(h)]
      <4>1. /\ hnd[h] \in HandlerState /\ (hnd[h].timers - 1) + 1 \in Nat
            /\ violations(h) \in Nat
        BY <1>0, <1>c DEF Shape
      <4>2. /\ v \in HandlerState
            /\ v.negotiate = hnd[h].negotiate /\ v.establish = hnd[h].establish /\ v.box = hnd[h].box
            /\ v.timeout_violations = violations(h)
        BY <4>1 DEF HandlerState
      <4>3. hnd' = [hnd EXCEPT ![h] = v]
        BY <3>1
      <4> HIDE DEF v
      <4> QED BY <1>0, <4>2, <4>3 DEF Shape
    <3>3. CASE violations(h) > 2
      <4>1. aborted' = TRUE /\ UNCHANGED gwy
        BY <1>c, <3>1, <3>3
      <4>2. \A k \in Handler : hnd'[k].timeout_violations <= IF aborted' THEN 3 ELSE 2
        BY <1>a, <1>c, <3>2, <4>1
      <4> QED BY <1>0, <3>2, <4>1, <4>2 DEF Shape
    <3>4. CASE ~(violations(h) > 2)
      <4>1. PICK m \in {"Terminate", "Sequence"} : SendOn(h, m)
        BY <1>c, <3>1, <3>4
      <4>2. m \in Ask \cup {"Sequence"} /\ m # "Establish"
        BY DEF Ask
      <4>3. /\ gwy' \in [Handler -> GatewayState]
            /\ aborted' \in BOOLEAN
            /\ \A k \in Handler :
                 /\ InBox(gwy'[k].asks, "Establish") => InBox(gwy[k].asks, "Establish")
                 /\ gwy'[k].out = gwy[k].out
        BY <1>0, <4>1, <4>2, SendOnGateway
      <4>4. \A k \in Handler : hnd'[k].timeout_violations <= IF aborted' THEN 3 ELSE 2
        BY <1>a, <1>c, <3>2, <3>4
      <4> QED BY <3>2, <4>3, <4>4
    <3> QED BY <3>3, <3>4
  <2> QED BY <2>1, <2>2
<1>2. Shape'
  BY <1>0, <1>1 DEF Shape
<1>3. Forward
  BY <1>0, <1>1 DEF Forward
<1>4. \A k \in Handler : Looping(k)'
  BY <1>0 DEF Sessions, Looping
<1>5. Limits'
  BY <1>0, <1>1, <1>b, SessionAssumption DEF Limits
<1> QED BY <1>0, <1>2, <1>3, <1>4, <1>5, ForwardKeeps DEF Sessions

\* Nothing has come from the gateway for an interval.
LEMMA LapseKeeps ==
  ASSUME Sessions, NEW h \in Handler, Lapse(h)
  PROVE  Sessions'
<1>1. Shape /\ hnd' = [hnd EXCEPT ![h].quiet = TRUE] /\ UNCHANGED <<rec, arb, som, gwy, aborted>>
  BY DEF Sessions, Lapse
<1>2. /\ hnd' \in [Handler -> HandlerState]
      /\ \A k \in Handler :
           /\ hnd'[k].negotiate = hnd[k].negotiate /\ hnd'[k].establish = hnd[k].establish
           /\ hnd'[k].box = hnd[k].box
           /\ hnd'[k].timeout_violations = hnd[k].timeout_violations
  BY <1>1 DEF Shape, HandlerState
<1>3. Shape'
  BY <1>1, <1>2 DEF Shape
<1>4. Forward
  BY <1>1, <1>2 DEF Forward
<1>5. (\A k \in Handler : Looping(k)') /\ Limits'
  BY <1>1, <1>2 DEF Sessions, Looping, Limits
<1> QED BY <1>1, <1>3, <1>4, <1>5, ForwardKeeps DEF Sessions

-----------------------------------------------------------------------------
(* The receivers *)

\* What the handler does with a message of the gateway: each keeps a session's
\* progress, and only an acknowledged one is reported as connected.
LEMMA MessageForward ==
  ASSUME Sessions, NEW h \in Handler, NEW m \in Out, InBox(gwy[h].out, m), process_message(h, m)
  PROVE  /\ hnd' \in [Handler -> HandlerState] /\ arb' \in ArbiterState
         /\ arb'.disconnect_count = arb.disconnect_count
         /\ \A k \in Handler :
              /\ hnd'[k].timeout_violations = hnd[k].timeout_violations
              /\ hnd[k].negotiate => hnd'[k].negotiate
              /\ hnd[k].establish => hnd'[k].establish
              /\ InBox(hnd'[k].box, "DoBind") => InBox(hnd[k].box, "DoBind") \/ hnd'[k].negotiate
              /\ hnd'[k].establish => hnd[k].establish \/ InBox(gwy[k].out, "EstablishmentAck")
              /\ InBox(arb'.box, <<"Connected", k>>) =>
                    InBox(arb.box, <<"Connected", k>>) \/ hnd'[k].establish
<1>0. /\ Shape /\ hnd \in [Handler -> HandlerState] /\ arb \in ArbiterState
      /\ hnd[h] \in HandlerState /\ arb.box \in Seq(Kind \X Handler)
  BY DEF Sessions, Shape, ArbiterState
<1> DEFINE Good(v) ==
      /\ v \in HandlerState
      /\ v.timeout_violations = hnd[h].timeout_violations
      /\ hnd[h].negotiate => v.negotiate
      /\ hnd[h].establish => v.establish
      /\ InBox(v.box, "DoBind") => InBox(hnd[h].box, "DoBind") \/ v.negotiate
      /\ v.establish => hnd[h].establish \/ InBox(gwy[h].out, "EstablishmentAck")
<1>1. PICK v : /\ hnd' = [hnd EXCEPT ![h] = v] /\ Good(v)
               /\ \/ arb' = arb
                  \/ arb' = [arb EXCEPT !.box = Append(@, <<"Disconnected", h>>)]
                  \/ arb' = [arb EXCEPT !.box = Append(@, <<"Connected", h>>)] /\ v.establish
  <2>1. CASE m = "NegotiationResponse"
    <3> DEFINE v == [hnd[h] EXCEPT !.negotiate = TRUE, !.quiet = FALSE, !.box = Append(@, "DoBind")]
    <3>1. Append(hnd[h].box, "DoBind") \in Seq(Letter)
      BY <1>0 DEF HandlerState, Letter
    <3>2. Good(v)
      BY <1>0, <3>1 DEF HandlerState
    <3>3. hnd' = [hnd EXCEPT ![h] = v] /\ arb' = arb
      BY <1>0, <2>1 DEF process_message, negotiationResponse, Post, HandlerState
    <3> QED BY <3>2, <3>3
  <2>2. CASE m \in {"NegotiationReject", "EstablishmentReject"}
    <3> DEFINE v == [hnd[h] EXCEPT !.quiet = FALSE]
    <3>1. Good(v)
      BY <1>0 DEF HandlerState
    <3>2. /\ hnd' = [hnd EXCEPT ![h] = v]
          /\ arb' = [arb EXCEPT !.box = Append(@, <<"Disconnected", h>>)]
      BY <1>0, <2>2 DEF process_message, loginReject, Post, HandlerState
    <3> QED BY <3>1, <3>2
  <2>3. CASE m = "EstablishmentAck"
    <3> DEFINE v == [hnd[h] EXCEPT !.establish = TRUE, !.quiet = FALSE, !.timers = @ + 1]
    <3>1. Good(v) /\ v.establish
      <4>1. hnd[h].timers + 1 \in Nat
        BY <1>0 DEF HandlerState
      <4>2. v \in HandlerState
        BY <1>0, <4>1 DEF HandlerState
      <4>3. /\ v.timeout_violations = hnd[h].timeout_violations
            /\ v.negotiate = hnd[h].negotiate /\ v.establish = TRUE /\ v.box = hnd[h].box
        BY <1>0 DEF HandlerState
      <4> HIDE DEF v
      <4> QED BY <2>3, <4>2, <4>3
    <3>2. /\ hnd' = [hnd EXCEPT ![h] = v]
          /\ arb' = [arb EXCEPT !.box = Append(@, <<"Connected", h>>)]
      BY <1>0, <2>3 DEF process_message, establishmentAck, Post, HandlerState
    <3> QED BY <3>1, <3>2
  <2>4. CASE m = "Terminate"
    <3> DEFINE v == [hnd[h] EXCEPT !.got_terminate = TRUE]
    <3>1. Good(v)
      BY <1>0 DEF HandlerState
    <3>2. hnd' = [hnd EXCEPT ![h] = v] /\ arb' = arb
      BY <1>0, <2>4 DEF process_message, terminate, HandlerState
    <3> QED BY <3>1, <3>2
  <2>5. CASE m = "Sequence"
    <3> DEFINE v == [hnd[h] EXCEPT !.quiet = FALSE]
    <3>1. Good(v)
      BY <1>0 DEF HandlerState
    <3>2. hnd' = [hnd EXCEPT ![h] = v] /\ arb' = arb
      BY <1>0, <2>5 DEF process_message, heard, HandlerState
    <3> QED BY <3>1, <3>2
  <2> QED BY <2>1, <2>2, <2>3, <2>4, <2>5 DEF Out
<1>2. /\ hnd' \in [Handler -> HandlerState] /\ hnd'[h] = v
      /\ \A k \in Handler \ {h} : hnd'[k] = hnd[k]
  BY <1>0, <1>1
<1>3. /\ arb' \in ArbiterState
      /\ arb'.disconnect_count = arb.disconnect_count
      /\ \A k \in Handler : InBox(arb'.box, <<"Connected", k>>) =>
             InBox(arb.box, <<"Connected", k>>) \/ hnd'[k].establish
  <2>1. CASE arb' = arb
    BY <1>0, <2>1
  <2>2. CASE arb' = [arb EXCEPT !.box = Append(@, <<"Disconnected", h>>)]
    <3>1. <<"Disconnected", h>> \in Kind \X Handler
      BY DEF Kind
    <3>2. /\ Append(arb.box, <<"Disconnected", h>>) \in Seq(Kind \X Handler)
          /\ \A x : InBox(Append(arb.box, <<"Disconnected", h>>), x)
                      <=> InBox(arb.box, x) \/ x = <<"Disconnected", h>>
      BY <1>0, <3>1, PostBox
    <3>3. arb'.box = Append(arb.box, <<"Disconnected", h>>) /\ arb' \in ArbiterState
          /\ arb'.disconnect_count = arb.disconnect_count
      BY <1>0, <2>2, <3>2 DEF ArbiterState
    <3>4. \A k \in Handler : <<"Connected", k>> # <<"Disconnected", h>>
      OBVIOUS
    <3> QED BY <3>2, <3>3, <3>4
  <2>3. CASE arb' = [arb EXCEPT !.box = Append(@, <<"Connected", h>>)] /\ v.establish
    <3>1. <<"Connected", h>> \in Kind \X Handler
      BY DEF Kind
    <3>2. /\ Append(arb.box, <<"Connected", h>>) \in Seq(Kind \X Handler)
          /\ \A x : InBox(Append(arb.box, <<"Connected", h>>), x)
                      <=> InBox(arb.box, x) \/ x = <<"Connected", h>>
      BY <1>0, <3>1, PostBox
    <3>3. arb'.box = Append(arb.box, <<"Connected", h>>) /\ arb' \in ArbiterState
          /\ arb'.disconnect_count = arb.disconnect_count
      BY <1>0, <2>3, <3>2 DEF ArbiterState
    <3>4. \A k \in Handler : <<"Connected", k>> = <<"Connected", h>> => k = h
      OBVIOUS
    <3> QED BY <1>2, <2>3, <3>2, <3>3, <3>4
  <2> QED BY <1>1, <2>1, <2>2, <2>3
<1> QED BY <1>1, <1>2, <1>3

\* What all four steps of a receiver do to its own loop.
LEMMA LoopKeeps ==
  ASSUME Sessions, NEW h \in Handler, ReceiverStep(h)
  PROVE  rec' \in [Handler -> ReceiverState] /\ \A k \in Handler : Looping(k)'
<1> DEFINE box == rec[h].box
<1>0. /\ rec \in [Handler -> ReceiverState] /\ rec[h] \in ReceiverState
      /\ box \in Seq(Signal) /\ box # <<>> /\ Looping(h) /\ rec[h].nodatacnt \in Nat
  BY DEF Sessions, Shape, ReceiverState, ReceiverStep, startreceiving_handler, continue_idle,
         continue_receive, continue_nodata, Next2
<1>1. "Continue" \in Signal
  BY DEF Signal
<1>2. /\ Tail(box) \in Seq(Signal) /\ Single(Tail(box)) /\ InBox(box, Head(box))
      /\ \A x : InBox(Tail(box), x) => InBox(box, x)
      /\ Head(box) = "Continue" => ~InBox(Tail(box), "Continue")
  BY <1>0, <1>1, TakeBox, SingleBox DEF Looping
<1>3. Head(box) = "Continue" =>
        /\ Append(Tail(box), "Continue") \in Seq(Signal)
        /\ Single(Append(Tail(box), "Continue"))
        /\ rec[h].nodatacnt <= 3
  <2> SUFFICES ASSUME Head(box) = "Continue"
               PROVE  /\ Append(Tail(box), "Continue") \in Seq(Signal)
                      /\ Single(Append(Tail(box), "Continue"))
                      /\ rec[h].nodatacnt <= 3
    OBVIOUS
  <2>1. Append(Tail(box), "Continue") \in Seq(Signal)
    BY <1>1, <1>2, PostBox
  <2>2. Single(Append(Tail(box), "Continue"))
    BY <1>1, <1>2, SingleBox
  <2>3. rec[h].nodatacnt <= 3
    BY <1>0, <1>2 DEF Looping
  <2> QED BY <2>1, <2>2, <2>3
<1>4. PICK v : /\ rec' = [rec EXCEPT ![h] = v] /\ v \in ReceiverState
               /\ Single(v.box)
               /\ v.nodatacnt <= 3 \/ (v.nodatacnt = 4 /\ ~InBox(v.box, "Continue"))
  <2>1. CASE startreceiving_handler(h)
    <3> DEFINE v == [rec[h] EXCEPT !.box = Tail(@), !.terminated = FALSE]
    <3>1. rec' = [rec EXCEPT ![h] = v]
      BY <1>0, <2>1 DEF startreceiving_handler, ReceiverState
    <3>2. v \in ReceiverState /\ v.box = Tail(box) /\ v.nodatacnt = rec[h].nodatacnt
      BY <1>0, <1>2 DEF ReceiverState
    <3> HIDE DEF v
    <3> QED BY <1>0, <1>2, <3>1, <3>2 DEF Looping
  <2>2. CASE continue_idle(h) \/ continue_receive(h)
    <3> DEFINE v == [rec[h] EXCEPT !.box = Append(Tail(@), "Continue")]
    <3>1. rec' = [rec EXCEPT ![h] = v] /\ Head(box) = "Continue"
      BY <1>0, <2>2 DEF continue_idle, continue_receive, Next2, Post, ReceiverState
    <3>2. v \in ReceiverState /\ v.box = Append(Tail(box), "Continue") /\ v.nodatacnt = rec[h].nodatacnt
      BY <1>0, <1>3, <3>1 DEF ReceiverState
    <3> HIDE DEF v
    <3> QED BY <1>3, <3>1, <3>2
  <2>3. CASE continue_nodata(h)
    <3> DEFINE b == IF rec[h].nodatacnt < 3 THEN Append(Tail(box), "Continue") ELSE Tail(box)
    <3> DEFINE v == [rec[h] EXCEPT !.nodatacnt = @ + 1, !.box = b]
    <3>1. rec' = [rec EXCEPT ![h] = v] /\ Head(box) = "Continue"
      BY <1>0, <2>3 DEF continue_nodata, Next2, Post, ReceiverState
    <3>2. b \in Seq(Signal) /\ Single(b)
      BY <1>2, <1>3, <3>1
    <3>3. rec[h].nodatacnt = 3 => ~InBox(b, "Continue")
      BY <1>2, <3>1
    <3> HIDE DEF b
    <3>4. v \in ReceiverState /\ v.box = b /\ v.nodatacnt = rec[h].nodatacnt + 1
      <4>1. rec[h].nodatacnt + 1 \in Nat
        BY <1>0
      <4> QED BY <1>0, <3>2, <4>1 DEF ReceiverState
    <3> HIDE DEF v
    <3>5. rec[h].nodatacnt <= 3
      BY <1>3, <3>1
    <3>6. v.nodatacnt <= 3 \/ (v.nodatacnt = 4 /\ ~InBox(v.box, "Continue"))
      BY <1>0, <3>3, <3>4, <3>5
    <3> QED BY <3>1, <3>2, <3>4, <3>6
  <2> QED BY <2>1, <2>2, <2>3 DEF ReceiverStep
<1>5. /\ rec' \in [Handler -> ReceiverState] /\ rec'[h] = v
      /\ \A k \in Handler \ {h} : rec'[k] = rec[k]
  BY <1>0, <1>4
<1>6. ASSUME NEW k \in Handler PROVE Looping(k)'
  <2>1. CASE k = h
    BY <1>4, <1>5, <2>1 DEF Looping
  <2>2. CASE k # h
    BY <1>5, <2>2 DEF Sessions, Looping
  <2> QED BY <2>1, <2>2
<1> QED BY <1>5, <1>6

\* A turn of a receiver's loop.
LEMMA ReceiverKeeps ==
  ASSUME Sessions, NEW h \in Handler, ReceiverStep(h)
  PROVE  Sessions'
<1>0. /\ Shape /\ rec' \in [Handler -> ReceiverState] /\ (\A k \in Handler : Looping(k)')
      /\ UNCHANGED <<som, aborted>>
  BY LoopKeeps DEF Sessions, ReceiverStep, startreceiving_handler, continue_idle,
                   continue_receive, continue_nodata
<1>1. CASE UNCHANGED <<hnd, arb, gwy>>
  <2>1. Shape'
    BY <1>0, <1>1 DEF Shape
  <2>2. Forward
    BY <1>1 DEF Forward
  <2>3. Limits'
    BY <1>0, <1>1 DEF Sessions, Limits
  <2> QED BY <1>0, <2>1, <2>2, <2>3, ForwardKeeps DEF Sessions
<1>2. CASE continue_receive(h)
  <2> DEFINE m == Head(gwy[h].out)
  <2>1. /\ gwy[h].out # <<>> /\ process_message(h, m)
        /\ gwy' = [gwy EXCEPT ![h].out = Tail(@)] /\ gwy[h].out \in Seq(Out)
    BY <1>0, <1>2 DEF continue_receive, Shape, GatewayState
  <2>2. /\ m \in Out /\ InBox(gwy[h].out, m) /\ Tail(gwy[h].out) \in Seq(Out)
        /\ \A x : InBox(Tail(gwy[h].out), x) => InBox(gwy[h].out, x)
    BY <2>1, TakeBox
  <2> HIDE DEF m
  <2>3. /\ hnd' \in [Handler -> HandlerState] /\ arb' \in ArbiterState
        /\ arb'.disconnect_count = arb.disconnect_count
        /\ \A k \in Handler :
             /\ hnd'[k].timeout_violations = hnd[k].timeout_violations
             /\ hnd[k].negotiate => hnd'[k].negotiate
             /\ hnd[k].establish => hnd'[k].establish
             /\ InBox(hnd'[k].box, "DoBind") => InBox(hnd[k].box, "DoBind") \/ hnd'[k].negotiate
             /\ hnd'[k].establish => hnd[k].establish \/ InBox(gwy[k].out, "EstablishmentAck")
             /\ InBox(arb'.box, <<"Connected", k>>) =>
                   InBox(arb.box, <<"Connected", k>>) \/ hnd'[k].establish
    BY <2>1, <2>2, MessageForward
  <2>4. /\ gwy' \in [Handler -> GatewayState]
        /\ \A k \in Handler :
             /\ gwy'[k].asks = gwy[k].asks
             /\ InBox(gwy'[k].out, "EstablishmentAck") => InBox(gwy[k].out, "EstablishmentAck")
    BY <1>0, <2>1, <2>2 DEF Shape, GatewayState
  <2>5. Shape'
    BY <1>0, <2>3, <2>4 DEF Shape
  <2>6. Forward
    BY <2>3, <2>4 DEF Forward
  <2>7. Limits'
    BY <1>0, <2>3 DEF Sessions, Limits
  <2> QED BY <1>0, <2>5, <2>6, <2>7, ForwardKeeps DEF Sessions
<1> QED BY <1>1, <1>2 DEF ReceiverStep, startreceiving_handler, continue_idle, continue_nodata

-----------------------------------------------------------------------------
(* The gateways *)

\* A gateway answers what it was asked.
LEMMA AnswerKeeps ==
  ASSUME Sessions, NEW h \in Handler, Answer(h)
  PROVE  Sessions'
<1>0. Shape /\ gwy[h] \in GatewayState /\ gwy[h].asks \in Seq(Ask) /\ gwy[h].asks # <<>>
      /\ gwy[h].out \in Seq(Out) /\ UNCHANGED <<hnd, rec, arb, som, aborted>>
  BY DEF Sessions, Shape, GatewayState, Answer
<1>1. /\ Tail(gwy[h].asks) \in Seq(Ask) /\ InBox(gwy[h].asks, Head(gwy[h].asks))
      /\ Head(gwy[h].asks) \in Ask
      /\ \A x : InBox(Tail(gwy[h].asks), x) => InBox(gwy[h].asks, x)
  BY <1>0, TakeBox
<1>2. ASSUME NEW m \in Out
      PROVE  LET R == Reply(h, m)
             IN  /\ R \in [Handler -> GatewayState]
                 /\ R[h].asks = Tail(gwy[h].asks) /\ R[h].out = Append(gwy[h].out, m)
                 /\ \A k \in Handler \ {h} : R[k] = gwy[k]
  <2>1. Append(gwy[h].out, m) \in Seq(Out)
    BY <1>0
  <2> QED BY <1>0, <1>1, <2>1 DEF Reply, Shape, GatewayState
<1>3. PICK m \in Out :
        /\ gwy' \in [Handler -> GatewayState]
        /\ gwy'[h].asks = Tail(gwy[h].asks) /\ gwy'[h].out = Append(gwy[h].out, m)
        /\ \A k \in Handler \ {h} : gwy'[k] = gwy[k]
        /\ m = "EstablishmentAck" => Head(gwy[h].asks) = "Establish"
  <2>1. CASE Head(gwy[h].asks) = "Negotiate"
    <3>1. PICK m \in {"NegotiationResponse", "NegotiationReject"} : gwy' = Reply(h, m)
      BY <2>1 DEF Answer
    <3>2. m \in Out /\ m # "EstablishmentAck"
      BY DEF Out
    <3> QED BY <1>2, <3>1, <3>2
  <2>2. CASE Head(gwy[h].asks) = "Establish"
    <3>1. PICK m \in {"EstablishmentAck", "EstablishmentReject"} : gwy' = Reply(h, m)
      BY <2>2 DEF Answer
    <3>2. m \in Out
      BY DEF Out
    <3> QED BY <1>2, <2>2, <3>1, <3>2
  <2>3. CASE Head(gwy[h].asks) = "Terminate"
    <3> DEFINE R == Reply(h, "Terminate")
    <3>1. gwy' = [R EXCEPT ![h].open = FALSE]
      BY <2>3 DEF Answer
    <3>2. "Terminate" \in Out
      BY DEF Out
    <3>3. /\ R \in [Handler -> GatewayState]
          /\ R[h].asks = Tail(gwy[h].asks) /\ R[h].out = Append(gwy[h].out, "Terminate")
          /\ \A k \in Handler \ {h} : R[k] = gwy[k]
      BY <1>2, <3>2
    <3> HIDE DEF R
    <3>4. /\ gwy' \in [Handler -> GatewayState]
          /\ gwy'[h].asks = R[h].asks /\ gwy'[h].out = R[h].out
          /\ \A k \in Handler \ {h} : gwy'[k] = R[k]
      BY <3>1, <3>3 DEF GatewayState
    <3> QED BY <3>2, <3>3, <3>4
  <2> QED BY <1>1, <2>1, <2>2, <2>3 DEF Ask
<1>4. /\ Append(gwy[h].out, m) \in Seq(Out)
      /\ \A x : InBox(Append(gwy[h].out, m), x) <=> InBox(gwy[h].out, x) \/ x = m
  BY <1>0, PostBox
<1>5. Shape'
  BY <1>0, <1>3 DEF Shape
<1>6. Forward
  <2>1. \A k \in Handler :
          /\ InBox(gwy'[k].asks, "Establish") => InBox(gwy[k].asks, "Establish")
          /\ InBox(gwy'[k].out, "EstablishmentAck") =>
                InBox(gwy[k].out, "EstablishmentAck") \/ InBox(gwy[k].asks, "Establish")
    BY <1>1, <1>2, <1>3, <1>4
  <2> QED BY <1>0, <2>1 DEF Forward
<1>7. (\A k \in Handler : Looping(k)') /\ Limits'
  BY <1>0 DEF Sessions, Looping, Limits
<1> QED BY <1>0, <1>5, <1>6, <1>7, ForwardKeeps DEF Sessions

\* A gateway sends something by itself.
LEMMA TrafficKeeps ==
  ASSUME Sessions, NEW h \in Handler, Traffic(h)
  PROVE  Sessions'
<1>0. Shape /\ gwy[h] \in GatewayState /\ gwy[h].out \in Seq(Out)
      /\ UNCHANGED <<hnd, rec, arb, som, aborted>>
  BY DEF Sessions, Shape, GatewayState, Traffic
<1>1. ASSUME NEW m \in {"Sequence", "Terminate"}
      PROVE  /\ Append(gwy[h].out, m) \in Seq(Out)
             /\ \A x : InBox(Append(gwy[h].out, m), x) <=> InBox(gwy[h].out, x) \/ x = m
  <2>1. m \in Out
    BY DEF Out
  <2> QED BY <1>0, <2>1, PostBox
<1>2. /\ gwy' \in [Handler -> GatewayState]
      /\ \A k \in Handler :
           /\ gwy'[k].asks = gwy[k].asks
           /\ InBox(gwy'[k].out, "EstablishmentAck") => InBox(gwy[k].out, "EstablishmentAck")
  <2>1. CASE gwy' = [gwy EXCEPT ![h].out = Append(@, "Sequence")]
    BY <1>0, <1>1, <2>1 DEF Shape, GatewayState
  <2>2. CASE gwy' = [gwy EXCEPT ![h].out = Append(@, "Terminate"), ![h].open = FALSE]
    BY <1>0, <1>1, <2>2 DEF Shape, GatewayState
  <2>3. CASE gwy' = [gwy EXCEPT ![h].open = FALSE]
    BY <1>0, <2>3 DEF Shape, GatewayState
  <2>4. CASE gwy' = [gwy EXCEPT ![h].silent = TRUE]
    BY <1>0, <2>4 DEF Shape, GatewayState
  <2> QED BY <2>1, <2>2, <2>3, <2>4 DEF Traffic
<1>3. Shape'
  BY <1>0, <1>2 DEF Shape
<1>4. Forward
  BY <1>0, <1>2 DEF Forward
<1>5. (\A k \in Handler : Looping(k)') /\ Limits'
  BY <1>0 DEF Sessions, Looping, Limits
<1> QED BY <1>0, <1>3, <1>4, <1>5, ForwardKeeps DEF Sessions

-----------------------------------------------------------------------------
(* The theorems *)

\* Every step keeps the invariant of the login.
LEMMA NextKeeps == Sessions /\ [Next]_vars => Sessions'
<1> SUFFICES ASSUME Sessions, [Next]_vars PROVE Sessions'
  OBVIOUS
<1>1. CASE UNCHANGED vars
  <2>1. UNCHANGED <<hnd, rec, arb, som, gwy, aborted>>
    BY <1>1 DEF vars
  <2>2. Shape' /\ Forward
    BY <2>1 DEF Sessions, Shape, Forward
  <2>3. (\A k \in Handler : Looping(k)') /\ Limits'
    BY <2>1 DEF Sessions, Looping, Limits
  <2> QED BY <2>1, <2>2, <2>3, ForwardKeeps DEF Sessions
<1>2. CASE ArbiterStep
  BY <1>2, ArbiterKeeps
<1>3. CASE set_exch_manager_handler
  BY <1>3, ManagerKeeps
<1>4. ASSUME NEW h \in Handler, HandlerStep(h) PROVE Sessions'
  BY <1>4, HandlerKeeps
<1>5. ASSUME NEW h \in Handler, ReceiverStep(h) PROVE Sessions'
  BY <1>5, ReceiverKeeps
<1>6. ASSUME NEW h \in Handler, doTerminate(h) PROVE Sessions'
  BY <1>6, TerminateKeeps
<1>7. ASSUME NEW h \in Handler, AskLogin(h) PROVE Sessions'
  BY <1>7, AskLoginKeeps
<1>8. ASSUME NEW h \in Handler, timeout(h) PROVE Sessions'
  BY <1>8, TimeoutKeeps
<1>9. ASSUME NEW h \in Handler, Lapse(h) PROVE Sessions'
  BY <1>9, LapseKeeps
<1>10. ASSUME NEW h \in Handler, Answer(h) PROVE Sessions'
  BY <1>10, AnswerKeeps
<1>11. ASSUME NEW h \in Handler, Traffic(h) PROVE Sessions'
  BY <1>11, TrafficKeeps
<1> QED BY <1>1, <1>2, <1>3, <1>4, <1>5, <1>6, <1>7, <1>8, <1>9, <1>10, <1>11 DEF Next

\* What is on the way between arbiter, handlers, receivers and gateways keeps
\* the order of a login, for any number of handlers.
THEOREM SessionsCorrect == Spec => []Sessions
<1> QED BY InitSessions, NextKeeps, PTL DEF Spec

\* Only an established session manages orders, only a negotiated one is
\* established, and the counters of timeouts, empty reads and disconnects stop
\* where the handlers stop them.
THEOREM SessionCorrect == Spec => []SessionInv
<1>1. Sessions => SessionInv
  <2> SUFFICES ASSUME Sessions PROVE SessionInv
    OBVIOUS
  <2>1. ASSUME NEW h \in Handler
        PROVE  /\ hnd[h].timeout_violations \in 0..3
               /\ hnd[h].establish => hnd[h].negotiate
               /\ rec[h].nodatacnt \in 0..4
    <3>1. hnd[h].timeout_violations \in Nat /\ rec[h].nodatacnt \in Nat
          /\ hnd[h].negotiate \in BOOLEAN
      BY DEF Sessions, Shape, HandlerState, ReceiverState
    <3>2. hnd[h].timeout_violations <= 3
      BY <3>1 DEF Sessions, Limits
    <3>3. Ordered(h) /\ Looping(h)
      BY DEF Sessions
    <3>4. hnd[h].establish => hnd[h].negotiate
      BY <3>1, <3>3 DEF Ordered
    <3>5. rec[h].nodatacnt <= 4
      BY <3>1, <3>3 DEF Looping
    <3> QED BY <3>1, <3>2, <3>4, <3>5
  <2>2. arb.disconnect_count \in 0..(MaxDisconnect + 1)
    BY SessionAssumption DEF Sessions, Limits, Shape, ArbiterState
  <2>3. som.manager \in Handler \cup {NoHandler}
    BY DEF Sessions, Shape, ManagerState
  <2> QED BY <2>1, <2>2, <2>3 DEF SessionInv, TypeOK, Sessions
<1> QED BY <1>1, SessionsCorrect, PTL
==============================================================================
