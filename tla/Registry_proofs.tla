--------------------------- MODULE Registry_proofs ---------------------------
(***************************************************************************)
(* Proofs about Registry, for any set of managers and actors, any lists    *)
(* and lookups, any number of restarts and any high-water mark:            *)
(*                                                                         *)
(*   RegistryCorrect     the index stays the inverse of the lists;         *)
(*   AliveListedCorrect  an acknowledged living manager is listed at its   *)
(*                       own endpoint, unless its registration was undone; *)
(*   AnswerLagCorrect    how far the answers on a socket are behind the    *)
(*                       questions, after any heartbeats and timeouts.     *)
(*                                                                         *)
(* The first part shows that each handler of the registry keeps its two    *)
(* maps in step (Sound).  The inductive invariant ClientInv then says what *)
(* is on the way between a client and the registry: which process the      *)
(* requests are of, what an acknowledgement in a socket stands for, and    *)
(* that what is still to be read is what heartbeats and timeouts left.     *)
(***************************************************************************)
EXTENDS Registry, SequenceTheorems, TLAPS

-----------------------------------------------------------------------------
(* The maps of the registry *)

Listed(r, a) == {m \in DOMAIN r.managers : a \in r.managers[m].actors}

\* What RegistryInv says of the maps, about a record of them.
Sound(r) ==
    /\ r = [managers |-> r.managers, index |-> r.index, quiet |-> r.quiet]
    /\ DOMAIN r.managers \subseteq Manager
    /\ \A m \in DOMAIN r.managers :
        r.managers[m].endpoint \in 1..MaxStart[m] /\ r.managers[m].actors \subseteq Actor
    /\ r.quiet \subseteq DOMAIN r.managers
    /\ DOMAIN r.index = {a \in Actor : Listed(r, a) # {}}
    /\ \A a \in DOMAIN r.index : r.index[a] = Listed(r, a)

\* The maps after the managers in S are taken out of both.
Without(r, S) ==
    [managers |-> [m \in DOMAIN r.managers \ S |-> r.managers[m]],
     index |-> [a \in {b \in DOMAIN r.index : r.index[b] \ S # {}} |-> r.index[a] \ S],
     quiet |-> r.quiet \ S]

\* Taking managers out of both maps keeps them in step.
LEMMA WithoutSound ==
    ASSUME NEW r, NEW S, Sound(r)
    PROVE  Sound(Without(r, S))
<1> DEFINE t == Without(r, S)
<1>1. /\ t.managers = [m \in DOMAIN r.managers \ S |-> r.managers[m]]
      /\ t.index = [a \in {b \in DOMAIN r.index : r.index[b] \ S # {}} |-> r.index[a] \ S]
      /\ t.quiet = r.quiet \ S
      /\ t = [managers |-> t.managers, index |-> t.index, quiet |-> t.quiet]
  BY DEF Without
<1> HIDE DEF t
<1>2. \A a : Listed(t, a) = Listed(r, a) \ S
  BY <1>1 DEF Listed
<1>3. DOMAIN t.index = {a \in Actor : Listed(t, a) # {}}
  BY <1>1, <1>2 DEF Sound
<1>4. \A a \in DOMAIN t.index : t.index[a] = Listed(t, a)
  BY <1>1, <1>2 DEF Sound
<1>5. Sound(t)
  BY <1>1, <1>3, <1>4 DEF Sound
<1> QED BY <1>5 DEF t

\* unregister_manager_internal walks the manager's own list of actors; with the
\* maps in step that takes it out of the whole index.
LEMMA UnregisterIsWithout ==
    ASSUME NEW r, NEW m, Sound(r), m \in DOMAIN r.managers
    PROVE  UnregisterManager(r, m) = Without(r, {m})
<1> DEFINE left == [a \in DOMAIN r.index |->
                       IF a \in r.managers[m].actors THEN r.index[a] \ {m} ELSE r.index[a]]
<1>1. \A a \in DOMAIN r.index : left[a] = r.index[a] \ {m}
  BY DEF Sound, Listed
<1>2. Restrict(left, {a \in DOMAIN left : left[a] # {}})
        = [a \in {b \in DOMAIN r.index : r.index[b] \ {m} # {}} |-> r.index[a] \ {m}]
  BY <1>1 DEF Restrict
<1> QED BY <1>2 DEF UnregisterManager, Without, Restrict

\* unregister_manager_internal leaves a manager it does not know alone.
LEMMA UnregisterSound ==
    ASSUME NEW r, NEW m, Sound(r)
    PROVE  LET u == UnregisterManager(r, m)
           IN  /\ Sound(u)
               /\ DOMAIN u.managers = DOMAIN r.managers \ {m}
               /\ u.quiet = r.quiet \ {m}
               /\ \A n \in DOMAIN u.managers : u.managers[n] = r.managers[n]
<1>1. CASE m \notin DOMAIN r.managers
  <2>1. UnregisterManager(r, m) = r
    BY <1>1 DEF UnregisterManager
  <2> QED BY <1>1, <2>1 DEF Sound
<1>2. CASE m \in DOMAIN r.managers
  <2>1. UnregisterManager(r, m) = Without(r, {m})
    BY <1>2, UnregisterIsWithout
  <2>2. Sound(Without(r, {m}))
    BY WithoutSound
  <2> QED BY <2>1, <2>2 DEF Without
<1> QED BY <1>1, <1>2

\* The sweep of quiet managers, likewise.
LEMMA TimeoutsIsWithout ==
    ASSUME NEW r, Sound(r)
    PROVE  CheckHeartbeatTimeouts(r) = Without(r, r.quiet)
<1> DEFINE left == [a \in DOMAIN r.index |->
                       r.index[a] \ {m \in r.quiet : a \in r.managers[m].actors}]
<1>1. \A a \in DOMAIN r.index : left[a] = r.index[a] \ r.quiet
  BY DEF Sound, Listed
<1>2. Restrict(left, {a \in DOMAIN left : left[a] # {}})
        = [a \in {b \in DOMAIN r.index : r.index[b] \ r.quiet # {}} |-> r.index[a] \ r.quiet]
  BY <1>1 DEF Restrict
<1>3. r.quiet \ r.quiet = {}
  OBVIOUS
<1> QED BY <1>2, <1>3 DEF CheckHeartbeatTimeouts, Without, Restrict

\* Entering a manager that is in neither map keeps them in step.
LEMMA EnterSound ==
    ASSUME NEW r, NEW m \in Manager, NEW e \in 1..MaxStart[m], NEW A \in SUBSET Actor,
           Sound(r), m \notin DOMAIN r.managers
    PROVE  Sound(Enter(r, m, e, A))
<1> DEFINE t == Enter(r, m, e, A)
<1>1. /\ DOMAIN t.managers = DOMAIN r.managers \cup {m}
      /\ t.managers[m] = [endpoint |-> e, actors |-> A]
      /\ \A n \in DOMAIN r.managers : t.managers[n] = r.managers[n]
      /\ DOMAIN t.index = DOMAIN r.index \cup A
      /\ \A a \in DOMAIN t.index :
            t.index[a] = IF a \in A
                         THEN (IF a \in DOMAIN r.index THEN r.index[a] ELSE {}) \cup {m}
                         ELSE r.index[a]
      /\ t.quiet = r.quiet
      /\ t = [managers |-> t.managers, index |-> t.index, quiet |-> t.quiet]
  BY DEF Enter
<1> HIDE DEF t
<1>2. \A a : Listed(t, a) = Listed(r, a) \cup (IF a \in A THEN {m} ELSE {})
  BY <1>1 DEF Listed
<1>3. DOMAIN t.index = {a \in Actor : Listed(t, a) # {}}
  BY <1>1, <1>2 DEF Sound
<1>4. \A a \in Actor : a \notin DOMAIN r.index => Listed(r, a) = {}
  BY DEF Sound
<1>5. ASSUME NEW a \in DOMAIN t.index PROVE t.index[a] = Listed(t, a)
  <2>1. CASE a \in A /\ a \in DOMAIN r.index
    BY <1>1, <1>2, <2>1 DEF Sound
  <2>2. CASE a \in A /\ a \notin DOMAIN r.index
    BY <1>1, <1>2, <1>4, <2>2
  <2>3. CASE a \notin A
    <3>1. a \in DOMAIN r.index /\ t.index[a] = r.index[a]
      BY <1>1, <2>3
    <3>2. Listed(t, a) = Listed(r, a)
      BY <1>2, <2>3
    <3> QED BY <3>1, <3>2 DEF Sound
  <2> QED BY <2>1, <2>2, <2>3
<1>6. /\ DOMAIN t.managers \subseteq Manager
      /\ \A n \in DOMAIN t.managers :
            t.managers[n].endpoint \in 1..MaxStart[n] /\ t.managers[n].actors \subseteq Actor
      /\ t.quiet \subseteq DOMAIN t.managers
  BY <1>1 DEF Sound
<1>7. Sound(t)
  BY <1>1, <1>3, <1>5, <1>6 DEF Sound
<1> QED BY <1>7 DEF t

-----------------------------------------------------------------------------
(* Requests and answers *)

Name == (Manager \cup {NoManager}) \X Actor

Request ==
    [type : {"register"}, inc : Nat, actors : SUBSET Actor]
        \cup [type : {"unregister", "heartbeat"}, inc : Nat]
        \cup [type : {"lookup"}, inc : Nat, name : Name]

Answer == {Ack} \cup [type : {"result"}, name : Name, found : BOOLEAN, endpoint : Nat]

Call == {NoCall, [type |-> "register"]} \cup [type : {"lookup"}, name : Name]

\* A request of a process of m that has been started.
Of(q, m) == q \in Request /\ q.inc \in 1..MaxStart[m]

\* What a request leaves of the maps: they are in step, only m's own entry may
\* change, a registration puts it at the sender's endpoint.
LEMMA HandleSound ==
    ASSUME NEW r, NEW m \in Manager, NEW q, Sound(r), Of(q, m)
    PROVE  LET h == Handle(r, m, q)
           IN  /\ Sound(h.reg)
               /\ \A n \in DOMAIN r.managers \ {m} :
                     n \in DOMAIN h.reg.managers /\ h.reg.managers[n] = r.managers[n]
               /\ q.type = "register" =>
                     /\ m \in DOMAIN h.reg.managers
                     /\ h.reg.managers[m].endpoint = q.inc
                     /\ m \notin h.reg.quiet
               /\ q.type \in {"lookup", "heartbeat"} => h.reg.managers = r.managers
<1> DEFINE h == Handle(r, m, q)
<1> DEFINE u == UnregisterManager(r, m)
<1>u. /\ Sound(u)
      /\ DOMAIN u.managers = DOMAIN r.managers \ {m}
      /\ u.quiet = r.quiet \ {m}
      /\ \A n \in DOMAIN u.managers : u.managers[n] = r.managers[n]
  BY UnregisterSound
<1>t. q.type \in {"register", "unregister", "lookup", "heartbeat"}
  BY DEF Of, Request
<1>1. CASE q.type = "register"
  <2>1. q.actors \in SUBSET Actor
    BY <1>1 DEF Of, Request
  <2>2. h.reg = Enter(u, m, q.inc, q.actors)
    BY <1>1 DEF Handle, RegisterManager
  <2> HIDE DEF u, h
  <2>3. Sound(h.reg)
    BY <1>u, <2>1, <2>2, EnterSound DEF Of
  <2>4. /\ DOMAIN h.reg.managers = DOMAIN u.managers \cup {m}
        /\ \A n \in DOMAIN u.managers \ {m} : h.reg.managers[n] = u.managers[n]
        /\ h.reg.managers[m].endpoint = q.inc
        /\ h.reg.quiet = u.quiet
    BY <2>2 DEF Enter
  <2>5. m \notin h.reg.quiet /\ m \in DOMAIN h.reg.managers
    BY <1>u, <2>4
  <2>6. \A n \in DOMAIN r.managers \ {m} :
           n \in DOMAIN h.reg.managers /\ h.reg.managers[n] = r.managers[n]
    BY <1>u, <2>4
  <2>7. ~(q.type \in {"lookup", "heartbeat"})
    BY <1>1
  <2>8. /\ Sound(h.reg)
        /\ \A n \in DOMAIN r.managers \ {m} :
              n \in DOMAIN h.reg.managers /\ h.reg.managers[n] = r.managers[n]
        /\ q.type = "register" =>
              /\ m \in DOMAIN h.reg.managers
              /\ h.reg.managers[m].endpoint = q.inc
              /\ m \notin h.reg.quiet
        /\ q.type \in {"lookup", "heartbeat"} => h.reg.managers = r.managers
    BY <2>3, <2>4, <2>5, <2>6, <2>7
  <2> QED BY <2>8 DEF h
<1>2. CASE q.type = "unregister"
  <2>1. h.reg = u
    BY <1>2 DEF Handle
  <2> HIDE DEF u
  <2> QED BY <1>u, <1>2, <2>1
<1>3. CASE q.type = "lookup"
  <2>1. h.reg = r
    BY <1>3 DEF Handle
  <2> QED BY <1>3, <2>1
<1>4. CASE q.type = "heartbeat"
  <2>1. h.reg = [r EXCEPT !.quiet = @ \ {m}]
    BY <1>4 DEF Handle
  <2>2. /\ h.reg.managers = r.managers
        /\ h.reg.index = r.index
        /\ h.reg.quiet = r.quiet \ {m}
        /\ h.reg = [managers |-> h.reg.managers, index |-> h.reg.index, quiet |-> h.reg.quiet]
    BY <2>1 DEF Sound
  <2> HIDE DEF h
  <2>3. Sound(h.reg)
    BY <2>2 DEF Sound, Listed
  <2> QED BY <1>4, <2>2, <2>3 DEF h
<1> QED BY <1>t, <1>1, <1>2, <1>3, <1>4

\* All requests but a farewell have one answer, which is to them: a result to a
\* lookup, an acknowledgement to the others.
LEMMA HandleAnswers ==
    ASSUME NEW r, NEW m \in Manager, NEW q, Sound(r), Of(q, m), q.type # "unregister"
    PROVE  \E x \in Answer :
              /\ Handle(r, m, q).out = <<x>>
              /\ Answers(x, q)
              /\ q.type \in {"register", "heartbeat"} <=> x.type = "ack"
<1>t. q.type \in {"register", "lookup", "heartbeat"}
  BY DEF Of, Request
<1>1. CASE q.type \in {"register", "heartbeat"}
  <2>1. Handle(r, m, q).out = <<Ack>>
    BY <1>1 DEF Handle
  <2>2. Ack \in Answer /\ Ack.type = "ack"
    BY DEF Ack, Answer
  <2>3. q.type # "lookup"
    BY <1>1
  <2> QED BY <1>1, <2>1, <2>2, <2>3 DEF Answers
<1>2. CASE q.type = "lookup"
  <2>1. Handle(r, m, q).out = <<DoLookup(r, q.name)>>
    BY <1>2 DEF Handle
  <2>2. q.name \in Name
    BY <1>2 DEF Of, Request
  <2>3. \A n \in DOMAIN r.managers : r.managers[n].endpoint \in Nat
    BY RegistryAssumption DEF Sound
  <2>4. DoLookup(r, q.name) \in Answer
    BY <2>2, <2>3 DEF DoLookup, Answer
  <2>5. DoLookup(r, q.name).type = "result" /\ DoLookup(r, q.name).name = q.name
    BY DEF DoLookup
  <2> QED BY <1>2, <2>1, <2>4, <2>5 DEF Answers
<1> QED BY <1>t, <1>1, <1>2

-----------------------------------------------------------------------------
(* The inductive invariant *)

Maps == [managers |-> managers, index |-> actor_to_managers, quiet |-> quiet]

Shape ==
    /\ request \in [Manager -> Seq(Request)]
    /\ answer \in [Manager -> Seq(Answer)]
    /\ late \in [Manager -> Seq(Request)]
    /\ inc \in [Manager -> Nat]
    /\ connected \in [Manager -> BOOLEAN]
    /\ beating \in [Manager -> BOOLEAN]
    /\ call \in [Manager -> Call]
    /\ asked \in [Manager -> Seq(Request)]
    /\ strays \in [Manager -> Nat]
    /\ lost \in [Manager -> Nat]

\* The two ends of m's socket: nothing is left on a closed one, what is on an
\* open one is of the process that opened it, and what is late is of another.
Ends(m) ==
    /\ inc[m] \in 0..MaxStart[m]
    /\ connected[m] => inc[m] >= 1
    /\ ~connected[m] => /\ request[m] = <<>> /\ answer[m] = <<>> /\ ~beating[m] /\ call[m] = NoCall
                        /\ strays[m] = 0 /\ lost[m] = 0
    /\ \A i \in 1..Len(request[m]) :
          /\ request[m][i].inc = inc[m]
          /\ request[m][i].type # "unregister"
          /\ request[m][i].type = "heartbeat" => beating[m]
    /\ \A i \in 1..Len(late[m]) :
          /\ late[m][i].inc \in 1..inc[m]
          /\ connected[m] => late[m][i].inc < inc[m]

On(m) == m \in DOMAIN managers /\ managers[m].endpoint = inc[m]

\* An acknowledgement, read or still in the socket, is of a registration that
\* stands, or of one that is known to be undone.
Known(m) ==
    m \notin dropped /\ (beating[m] \/ \E i \in 1..Len(answer[m]) : answer[m][i].type = "ack")
        => On(m)

Alike(q, c) == q.type = c.type /\ (c.type = "lookup" => q.name = c.name)

\* One if a call of m waits for an answer.
Waits(m) == IF call[m] = NoCall THEN 0 ELSE 1

\* a answers in the socket, r requests on their way and l answers that were lost
\* are what k heartbeats and timeouts and w waiting calls have asked for.
Balance(a, r, l, k, w) == a + r + l = k + w

\* The answers in a socket are to the requests that are remembered for them,
\* in order; with the requests on their way they are as many as heartbeats and
\* timeouts left, and one more for the call that waits.  A socket that has seen
\* neither carries this call's exchange only.
Backlog(m) ==
    /\ Len(asked[m]) = Len(answer[m])
    /\ \A i \in 1..Len(answer[m]) : Answers(answer[m][i], asked[m][i])
    /\ Balance(Len(answer[m]), Len(request[m]), lost[m], strays[m], Waits(m))
    /\ strays[m] = 0 =>
          /\ lost[m] = 0
          /\ \A i \in 1..Len(request[m]) : Alike(request[m][i], call[m])
          /\ \A i \in 1..Len(asked[m]) : Alike(asked[m][i], call[m])

ClientInv ==
    /\ Shape
    /\ Sound(Maps)
    /\ \A m \in Manager : Ends(m) /\ Known(m) /\ Backlog(m)

\* How the balance moves with the steps.
LEMMA BalanceMoves ==
    ASSUME NEW a \in Nat, NEW r \in Nat, NEW l \in Nat, NEW k \in Nat, NEW w \in {0, 1},
           Balance(a, r, l, k, w)
    PROVE  /\ Balance(a + 1, r - 1, l, k, w)
           /\ Balance(a, r - 1, l + 1, k, w)
           /\ Balance(a, r + 1, l, k + 1, w)
           /\ w = 0 => Balance(a, r + 1, l, k, 1)
           /\ w = 1 => Balance(a - 1, r, l, k, 0) /\ Balance(a, r, l, k + 1, 0)
  BY DEF Balance

\* What the balance says of a socket without strays, and of a waiting call.
LEMMA BalanceSays ==
    ASSUME NEW a \in Nat, NEW r \in Nat, NEW l \in Nat, NEW k \in Nat, NEW w \in {0, 1},
           Balance(a, r, l, k, w)
    PROVE  /\ a >= 1 /\ r >= 1 => k # 0
           /\ k = 0 /\ l = 0 /\ r >= 1 => a = 0 /\ r - 1 = 0
           /\ k = 0 /\ l = 0 /\ a >= 1 => r = 0 /\ a - 1 = 0
           /\ k = 0 /\ w = 0 => a = 0 /\ r = 0
           /\ w = 1 /\ a >= 1 => k - l \in 0..(a + r) - 1 /\ (a + r) - (k - l) = 1
  BY DEF Balance

\* An empty registry, no process connected.
LEMMA InitInv == Init => ClientInv
<1> SUFFICES ASSUME Init PROVE ClientInv
  OBVIOUS
<1>1. /\ managers = <<>> /\ actor_to_managers = <<>> /\ quiet = {}
      /\ DOMAIN managers = {} /\ DOMAIN actor_to_managers = {}
  BY DEF Init
<1>2. Sound(Maps)
  <2>1. /\ Maps.managers = managers /\ Maps.index = actor_to_managers /\ Maps.quiet = quiet
        /\ Maps = [managers |-> Maps.managers, index |-> Maps.index, quiet |-> Maps.quiet]
    BY DEF Maps
  <2> QED BY <1>1, <2>1 DEF Sound, Listed
<1>3. Shape
  <2>1. <<>> \in Seq(Request) /\ <<>> \in Seq(Answer)
    BY EmptySeq
  <2> QED BY <2>1 DEF Init, Shape, Call
<1>4. \A m \in Manager : Ends(m) /\ Known(m) /\ Backlog(m)
  <2>1. \A m \in Manager : Balance(Len(answer[m]), Len(request[m]), lost[m], strays[m], Waits(m))
    BY DEF Init, Waits, Balance
  <2> QED BY <2>1, RegistryAssumption DEF Init, Ends, Known, Backlog
<1> QED BY <1>2, <1>3, <1>4 DEF ClientInv

\* What a step of the registry does to the entries of living managers.
LEMMA RegistryStep ==
    ASSUME ClientInv, NEW m \in Manager, NEW q, NEW check \in BOOLEAN,
           Of(q, m), OnIncomingZmq(m, q, check), UNCHANGED <<inc, connected>>,
           connected[m] /\ q.inc = inc[m] => q.type # "unregister"
    PROVE  /\ Sound(Maps)'
           /\ \A n \in Manager : n \notin dropped' => n \notin dropped
           /\ \A n \in Manager : connected[n] /\ n \notin dropped' /\ On(n) => On(n)'
           /\ q.type = "register" /\ q.inc = inc[m] => On(m)'
<1> DEFINE h == Handle(Maps, m, q)
<1> DEFINE r == IF check THEN CheckHeartbeatTimeouts(h.reg) ELSE h.reg
<1>0. Sound(Maps) /\ Maps.managers = managers
  BY DEF ClientInv, Maps
<1>1. /\ Sound(h.reg)
      /\ \A n \in DOMAIN managers \ {m} :
            n \in DOMAIN h.reg.managers /\ h.reg.managers[n] = managers[n]
      /\ q.type = "register" =>
            /\ m \in DOMAIN h.reg.managers
            /\ h.reg.managers[m].endpoint = q.inc
            /\ m \notin h.reg.quiet
      /\ q.type \in {"lookup", "heartbeat"} => h.reg.managers = managers
  BY <1>0, HandleSound
<1>2. /\ managers' = r.managers /\ actor_to_managers' = r.index /\ quiet' = r.quiet
      /\ dropped' = dropped \cup {n \in Manager :
            /\ connected[n]
            /\ \/ check /\ n \in h.reg.quiet
               \/ n = m /\ q.inc # inc[m]
                    /\ (n \in {k \in DOMAIN managers : k \notin DOMAIN r.managers}
                          \/ q.type = "register")}
  BY DEF OnIncomingZmq, Maps
<1>t. q.type \in {"register", "unregister", "lookup", "heartbeat"}
  BY DEF Of, Request
<1> HIDE DEF h
<1>3. /\ Sound(r)
      /\ \A n \in DOMAIN h.reg.managers :
            ~(check /\ n \in h.reg.quiet) =>
               n \in DOMAIN r.managers /\ r.managers[n] = h.reg.managers[n]
  <2>1. CASE check
    <3>1. r = Without(h.reg, h.reg.quiet)
      BY <1>1, <2>1, TimeoutsIsWithout
    <3> HIDE DEF r
    <3>2. Sound(r)
      BY <1>1, <3>1, WithoutSound
    <3> QED BY <2>1, <3>1, <3>2 DEF Without
  <2>2. CASE ~check
    BY <1>1, <2>2
  <2> QED BY <2>1, <2>2
<1> HIDE DEF r
<1>4. Sound(Maps)'
  <2>1. Maps' = r
    BY <1>2, <1>3 DEF Maps, Sound
  <2> QED BY <1>3, <2>1 DEF Sound, Listed
<1>5. \A n \in Manager : n \notin dropped' => n \notin dropped
  BY <1>2
<1>6. ASSUME NEW n \in Manager, connected[n], n \notin dropped', On(n)
      PROVE  On(n)'
  <2>1. ~(check /\ n \in h.reg.quiet)
    BY <1>2, <1>6
  <2>2. n \in DOMAIN h.reg.managers => managers'[n] = h.reg.managers[n] /\ n \in DOMAIN managers'
    BY <1>2, <1>3, <2>1
  <2>3. CASE n # m
    BY <1>1, <1>6, <2>2, <2>3 DEF On
  <2>4. CASE n = m /\ q.inc = inc[m]
    BY <1>1, <1>t, <1>6, <2>2, <2>4 DEF On
  <2>5. CASE n = m /\ q.inc # inc[m]
    <3>1. q.type # "register" /\ n \in DOMAIN r.managers
      BY <1>2, <1>6, <2>5 DEF On
    <3>2. CASE q.type = "unregister"
      <4>1. h.reg = UnregisterManager(Maps, m)
        BY <3>2 DEF h, Handle
      <4>2. n \notin DOMAIN h.reg.managers
        BY <1>0, <2>5, <4>1, UnregisterSound
      <4>3. DOMAIN r.managers \subseteq DOMAIN h.reg.managers
        <5>1. CASE check
          <6>1. r = Without(h.reg, h.reg.quiet)
            BY <1>1, <5>1, TimeoutsIsWithout DEF r
          <6> QED BY <6>1 DEF Without
        <5>2. CASE ~check
          BY <5>2 DEF r
        <5> QED BY <5>1, <5>2
      <4> QED BY <3>1, <4>2, <4>3
    <3>3. CASE q.type \in {"lookup", "heartbeat"}
      BY <1>1, <1>6, <2>2, <3>3 DEF On
    <3> QED BY <1>t, <3>1, <3>2, <3>3
  <2> QED BY <2>3, <2>4, <2>5
<1>7. ASSUME q.type = "register", q.inc = inc[m] PROVE On(m)'
  BY <1>1, <1>2, <1>3, <1>7 DEF On
<1> QED BY <1>4, <1>5, <1>6, <1>7

-----------------------------------------------------------------------------
(* The steps *)

\* A manager whose own part of the state a step leaves alone, its entry apart.
LEMMA OtherManager ==
    ASSUME ClientInv, NEW n \in Manager,
           request'[n] = request[n], answer'[n] = answer[n], late'[n] = late[n],
           inc'[n] = inc[n], connected'[n] = connected[n], beating'[n] = beating[n],
           call'[n] = call[n], asked'[n] = asked[n], strays'[n] = strays[n],
           lost'[n] = lost[n],
           n \notin dropped' => n \notin dropped,
           connected[n] /\ n \notin dropped' /\ On(n) => On(n)'
    PROVE  Ends(n)' /\ Known(n)' /\ Backlog(n)'
<1>1. Ends(n) /\ Known(n) /\ Backlog(n)
  BY DEF ClientInv
<1>2. Ends(n)'
  BY <1>1 DEF Ends
<1>3. Backlog(n)'
  BY <1>1 DEF Backlog, Waits
<1>4. ~connected[n] => ~beating[n] /\ Len(answer[n]) = 0
  BY <1>1 DEF Ends
<1>5. connected[n] \in BOOLEAN
  BY DEF ClientInv, Shape
<1>6. Known(n)'
  BY <1>1, <1>4, <1>5 DEF Known
<1> QED BY <1>2, <1>3, <1>6

\* The registry handles a request, and a look at the clock before it.
LEMMA ReceiveInv ==
    ASSUME ClientInv, NEW m \in Manager, NEW check \in BOOLEAN, Receive(m, check)
    PROVE  ClientInv'
<1> DEFINE q == Head(request[m])
<1> DEFINE out == Handle(Maps, m, q).out
<1>0. /\ Shape /\ Sound(Maps) /\ Ends(m) /\ Known(m) /\ Backlog(m)
      /\ request[m] \in Seq(Request) /\ answer[m] \in Seq(Answer) /\ request[m] # <<>>
  BY DEF ClientInv, Receive, Shape
<1>1. /\ request' = [request EXCEPT ![m] = Tail(@)]
      /\ OnIncomingZmq(m, q, check)
      /\ UNCHANGED <<late, inc, connected, beating, call, strays>>
      /\ IF Len(answer[m]) < HighWater
         THEN /\ answer' = [answer EXCEPT ![m] = @ \o out]
              /\ asked' = [asked EXCEPT ![m] = Append(@, q)]
              /\ UNCHANGED lost
         ELSE /\ lost' = [lost EXCEPT ![m] = @ + 1]
              /\ UNCHANGED <<answer, asked>>
  BY DEF Receive, Answered, Deliver, Maps, client
<1>2. /\ q = request[m][1] /\ 1 \in 1..Len(request[m]) /\ q \in Request
      /\ Tail(request[m]) \in Seq(Request) /\ Len(Tail(request[m])) = Len(request[m]) - 1
      /\ \A i \in 1..Len(Tail(request[m])) :
            i + 1 \in 1..Len(request[m]) /\ Tail(request[m])[i] = request[m][i+1]
  BY <1>0
<1>c. connected[m] /\ inc[m] \in 1..MaxStart[m]
  BY <1>0, RegistryAssumption DEF Ends, Shape
<1>3. /\ Of(q, m) /\ q.inc = inc[m] /\ q.type # "unregister"
      /\ q.type = "heartbeat" => beating[m]
  BY <1>0, <1>2, <1>c DEF Ends, Of
<1>4. /\ Sound(Maps)'
      /\ \A n \in Manager : n \notin dropped' => n \notin dropped
      /\ \A n \in Manager : connected[n] /\ n \notin dropped' /\ On(n) => On(n)'
      /\ q.type = "register" /\ q.inc = inc[m] => On(m)'
  BY <1>1, <1>3, RegistryStep
<1>5. PICK x \in Answer : /\ out = <<x>> /\ Answers(x, q)
                          /\ q.type \in {"register", "heartbeat"} <=> x.type = "ack"
  BY <1>0, <1>3, HandleAnswers
<1> HIDE DEF q, out
<1>e. answer[m] \o out = Append(answer[m], x)
  BY <1>0, <1>5
<1>a. asked[m] \in Seq(Request) /\ lost[m] \in Nat
  BY <1>0 DEF Shape
<1>6. /\ answer' \in [Manager -> Seq(Answer)] /\ asked' \in [Manager -> Seq(Request)]
      /\ lost' \in [Manager -> Nat]
      /\ \A n \in Manager \ {m} :
            answer'[n] = answer[n] /\ asked'[n] = asked[n] /\ lost'[n] = lost[n]
      /\ \/ /\ Len(answer[m]) < HighWater
            /\ answer'[m] = Append(answer[m], x)
            /\ asked'[m] = Append(asked[m], q)
            /\ lost'[m] = lost[m]
         \/ /\ ~(Len(answer[m]) < HighWater)
            /\ answer'[m] = answer[m] /\ asked'[m] = asked[m]
            /\ lost'[m] = lost[m] + 1
  <2>1. CASE Len(answer[m]) < HighWater
    <3>1. /\ answer' = [answer EXCEPT ![m] = Append(answer[m], x)]
          /\ asked' = [asked EXCEPT ![m] = Append(asked[m], q)]
          /\ lost' = lost
      BY <1>1, <1>e, <2>1
    <3>2. Append(answer[m], x) \in Seq(Answer) /\ Append(asked[m], q) \in Seq(Request)
      BY <1>0, <1>2, <1>a, <1>5
    <3> QED BY <1>0, <2>1, <3>1, <3>2 DEF Shape
  <2>2. CASE ~(Len(answer[m]) < HighWater)
    <3>1. /\ answer' = answer /\ asked' = asked
          /\ lost' = [lost EXCEPT ![m] = lost[m] + 1]
      BY <1>1, <2>2
    <3> QED BY <1>0, <1>a, <2>2, <3>1 DEF Shape
  <2> QED BY <2>1, <2>2
<1>7. Shape'
  BY <1>0, <1>1, <1>2, <1>6 DEF Shape
<1>8. ASSUME NEW n \in Manager \ {m} PROVE Ends(n)' /\ Known(n)' /\ Backlog(n)'
  <2>1. /\ request'[n] = request[n] /\ answer'[n] = answer[n] /\ asked'[n] = asked[n]
        /\ lost'[n] = lost[n] /\ strays'[n] = strays[n]
    BY <1>0, <1>1, <1>6 DEF Shape
  <2> QED BY <1>1, <1>4, <2>1, OtherManager
<1>9. request'[m] = Tail(request[m])
  BY <1>0, <1>1 DEF Shape
<1>10. Ends(m)'
  <2>1. \A i \in 1..Len(request'[m]) :
          /\ request'[m][i].inc = inc'[m]
          /\ request'[m][i].type # "unregister"
          /\ request'[m][i].type = "heartbeat" => beating'[m]
    BY <1>0, <1>1, <1>2, <1>9 DEF Ends
  <2> QED BY <1>0, <1>1, <1>c, <2>1 DEF Ends
<1>11. Known(m)'
  <2> SUFFICES ASSUME m \notin dropped',
                      beating[m] \/ \E i \in 1..Len(answer'[m]) : answer'[m][i].type = "ack"
               PROVE  On(m)'
    BY <1>1 DEF Known
  <2>1. CASE beating[m]
    BY <1>0, <1>4, <1>c, <2>1 DEF Known
  <2>2. ASSUME NEW i \in 1..Len(answer[m]), answer[m][i].type = "ack" PROVE On(m)'
    BY <1>0, <1>4, <1>c, <2>2 DEF Known
  <2>3. CASE q.type \in {"register", "heartbeat"}
    BY <1>0, <1>3, <1>4, <1>c, <2>1, <2>3
  <2>4. CASE ~(q.type \in {"register", "heartbeat"}) /\ ~beating[m]
    <3>1. PICK i \in 1..Len(answer'[m]) : answer'[m][i].type = "ack"
      BY <2>4
    <3>2. i \in 1..Len(answer[m]) /\ answer[m][i] = answer'[m][i]
      <4>1. CASE answer'[m] = answer[m]
        BY <3>1, <4>1
      <4>2. CASE answer'[m] = Append(answer[m], x)
        <5>1. answer'[m][i] # x
          BY <1>5, <2>4, <3>1
        <5> QED BY <1>0, <3>1, <4>2, <5>1, AppendProperties, LenProperties
      <4> QED BY <1>6, <4>1, <4>2
    <3> QED BY <2>2, <3>1, <3>2
  <2> QED BY <2>1, <2>3, <2>4
<1>12. Backlog(m)'
  <2>1. /\ Len(answer[m]) \in Nat /\ Len(request[m]) \in Nat /\ Waits(m) \in {0, 1}
        /\ strays[m] \in Nat /\ lost[m] \in Nat /\ Len(request[m]) >= 1
        /\ Len(asked[m]) = Len(answer[m])
        /\ Balance(Len(answer[m]), Len(request[m]), lost[m], strays[m], Waits(m))
    BY <1>0, <1>2 DEF Backlog, Shape, Waits
  <2>2. Len(request'[m]) = Len(request[m]) - 1
    BY <1>2, <1>9
  <2>3. call'[m] = call[m] /\ strays'[m] = strays[m] /\ Waits(m)' = Waits(m)
    BY <1>1 DEF Waits
  <2>4. CASE Len(answer[m]) < HighWater
    <3>1. /\ answer'[m] = Append(answer[m], x) /\ asked'[m] = Append(asked[m], q)
          /\ lost'[m] = lost[m]
      BY <1>6, <2>4
    <3>2. Len(answer'[m]) = Len(answer[m]) + 1 /\ Len(asked'[m]) = Len(answer[m]) + 1
      BY <1>0, <1>a, <2>1, <3>1
    <3>3. \A i \in 1..Len(answer'[m]) : Answers(answer'[m][i], asked'[m][i])
      <4> SUFFICES ASSUME NEW i \in 1..Len(answer'[m])
                   PROVE  Answers(answer'[m][i], asked'[m][i])
        OBVIOUS
      <4>1. CASE i = Len(answer[m]) + 1
        <5>1. answer'[m][i] = x /\ asked'[m][i] = q
          BY <1>0, <1>a, <2>1, <3>1, <4>1
        <5> QED BY <1>5, <5>1
      <4>2. CASE i # Len(answer[m]) + 1
        <5>1. i \in 1..Len(answer[m])
          BY <2>1, <3>2, <4>2
        <5>2. answer'[m][i] = answer[m][i] /\ asked'[m][i] = asked[m][i]
          BY <1>0, <1>a, <2>1, <3>1, <5>1
        <5> QED BY <1>0, <5>1, <5>2 DEF Backlog
      <4> QED BY <4>1, <4>2
    <3>4. Balance(Len(answer'[m]), Len(request'[m]), lost'[m], strays'[m], Waits(m)')
      BY <2>1, <2>2, <2>3, <3>1, <3>2, BalanceMoves
    <3>5. ASSUME strays[m] = 0
          PROVE  /\ lost'[m] = 0
                 /\ \A i \in 1..Len(request'[m]) : Alike(request'[m][i], call[m])
                 /\ \A i \in 1..Len(asked'[m]) : Alike(asked'[m][i], call[m])
      <4>1. lost[m] = 0 /\ Alike(q, call[m])
        BY <1>0, <1>2, <3>5 DEF Backlog
      <4>2. Len(answer[m]) = 0 /\ Len(request'[m]) = 0
        <5>1. PICK a, r, l, k, w : /\ a = Len(answer[m]) /\ r = Len(request[m])
                                   /\ l = lost[m] /\ k = strays[m] /\ w = Waits(m)
          OBVIOUS
        <5>2. /\ a \in Nat /\ r \in Nat /\ l = 0 /\ k = 0 /\ w \in {0, 1} /\ r >= 1
              /\ Balance(a, r, l, k, w)
          BY <2>1, <3>5, <4>1, <5>1
        <5>3. a = 0 /\ r - 1 = 0
          BY <5>2, BalanceSays
        <5> QED BY <2>2, <5>1, <5>3
      <4>3. \A i \in 1..Len(asked'[m]) : asked'[m][i] = q
        BY <1>a, <2>1, <3>1, <3>2, <4>2
      <4> QED BY <3>1, <4>1, <4>2, <4>3
    <3> QED BY <2>3, <3>2, <3>3, <3>4, <3>5 DEF Backlog
  <2>5. CASE ~(Len(answer[m]) < HighWater)
    <3>1. answer'[m] = answer[m] /\ asked'[m] = asked[m] /\ lost'[m] = lost[m] + 1
      BY <1>6, <2>5
    <3>2. Balance(Len(answer'[m]), Len(request'[m]), lost'[m], strays'[m], Waits(m)')
      BY <2>1, <2>2, <2>3, <3>1, BalanceMoves
    <3>3. strays[m] # 0
      <4>1. HighWater >= 1 /\ HighWater \in Nat
        BY RegistryAssumption
      <4>2. Len(answer[m]) >= 1
        BY <2>1, <2>5, <4>1
      <4> QED BY <2>1, <4>2, BalanceSays
    <3> QED BY <1>0, <2>3, <3>1, <3>2, <3>3 DEF Backlog
  <2> QED BY <2>4, <2>5
<1> QED BY <1>4, <1>7, <1>8, <1>10, <1>11, <1>12 DEF ClientInv

\* The registry handles what a process that is gone had sent.
LEMMA ReceiveLateInv ==
    ASSUME ClientInv, NEW m \in Manager, NEW check \in BOOLEAN, ReceiveLate(m, check)
    PROVE  ClientInv'
<1> DEFINE q == Head(late[m])
<1>0. /\ Shape /\ Sound(Maps) /\ Ends(m) /\ Known(m) /\ Backlog(m)
      /\ late[m] \in Seq(Request) /\ late[m] # <<>>
  BY DEF ClientInv, ReceiveLate, Shape
<1>1. /\ late' = [late EXCEPT ![m] = Tail(@)]
      /\ OnIncomingZmq(m, q, check)
      /\ UNCHANGED <<answer, request, inc, connected, beating, call, asked, strays, lost>>
  BY DEF ReceiveLate, client
<1>2. /\ q = late[m][1] /\ 1 \in 1..Len(late[m]) /\ q \in Request
      /\ Tail(late[m]) \in Seq(Request)
      /\ \A i \in 1..Len(Tail(late[m])) :
            i + 1 \in 1..Len(late[m]) /\ Tail(late[m])[i] = late[m][i+1]
  BY <1>0
<1>3. Of(q, m) /\ (connected[m] => q.inc # inc[m])
  <2>1. /\ late[m][1].inc \in 1..inc[m] /\ (connected[m] => late[m][1].inc < inc[m])
        /\ inc[m] \in 0..MaxStart[m]
    BY <1>0, <1>2 DEF Ends
  <2>2. inc[m] \in Nat /\ MaxStart[m] \in Nat
    BY <1>0, RegistryAssumption DEF Shape
  <2> QED BY <1>2, <2>1, <2>2 DEF Of
<1>4. /\ Sound(Maps)'
      /\ \A n \in Manager : n \notin dropped' => n \notin dropped
      /\ \A n \in Manager : connected[n] /\ n \notin dropped' /\ On(n) => On(n)'
  BY <1>1, <1>3, RegistryStep
<1> HIDE DEF q
<1>5. late' \in [Manager -> Seq(Request)] /\ late'[m] = Tail(late[m])
  BY <1>0, <1>1, <1>2 DEF Shape
<1>6. Shape'
  BY <1>0, <1>1, <1>5 DEF Shape
<1>7. ASSUME NEW n \in Manager \ {m} PROVE Ends(n)' /\ Known(n)' /\ Backlog(n)'
  <2>1. late'[n] = late[n]
    BY <1>0, <1>1 DEF Shape
  <2> QED BY <1>1, <1>4, <2>1, OtherManager
<1>8. Ends(m)'
  <2>1. \A i \in 1..Len(late'[m]) :
          late'[m][i].inc \in 1..inc[m] /\ (connected[m] => late'[m][i].inc < inc[m])
    BY <1>0, <1>2, <1>5 DEF Ends
  <2> QED BY <1>0, <1>1, <2>1 DEF Ends
<1>9. Known(m)'
  <2>1. connected[m] \in BOOLEAN /\ (~connected[m] => ~beating[m] /\ Len(answer[m]) = 0)
    BY <1>0 DEF Ends, Shape
  <2> QED BY <1>0, <1>1, <1>4, <2>1 DEF Known
<1>10. Backlog(m)'
  BY <1>0, <1>1 DEF Backlog, Waits
<1> QED BY <1>4, <1>6, <1>7, <1>8, <1>9, <1>10 DEF ClientInv

\* A step of a client leaves the registry alone, and every other client.
LEMMA ClientStep ==
    ASSUME ClientInv, NEW m \in Manager, Shape', UNCHANGED registry,
           \A n \in Manager \ {m} :
              /\ request'[n] = request[n] /\ answer'[n] = answer[n] /\ late'[n] = late[n]
              /\ inc'[n] = inc[n] /\ connected'[n] = connected[n] /\ beating'[n] = beating[n]
              /\ call'[n] = call[n] /\ asked'[n] = asked[n] /\ strays'[n] = strays[n]
              /\ lost'[n] = lost[n]
              /\ n \in dropped' <=> n \in dropped,
           Ends(m)', Known(m)', Backlog(m)'
    PROVE  ClientInv'
<1>1. Sound(Maps)'
  <2>1. Maps' = Maps
    BY DEF Maps, registry
  <2> QED BY <2>1 DEF ClientInv, Sound, Listed
<1>2. ASSUME NEW n \in Manager \ {m} PROVE Ends(n)' /\ Known(n)' /\ Backlog(n)'
  <2>1. On(n) => On(n)'
    BY DEF On, registry
  <2> QED BY <2>1, OtherManager
<1> QED BY <1>1, <1>2 DEF ClientInv

\* A process starts, opens its socket and registers.
LEMMA ConnectInv ==
    ASSUME ClientInv, NEW m \in Manager, NEW actors \in Lists[m], Connect(m, actors)
    PROVE  ClientInv'
<1> DEFINE q == [type |-> "register", inc |-> inc[m] + 1, actors |-> actors]
<1>0. Shape /\ Ends(m) /\ Known(m) /\ Backlog(m)
  BY DEF ClientInv
<1>1. /\ ~connected[m] /\ inc[m] < MaxStart[m]
      /\ inc' = [inc EXCEPT ![m] = @ + 1]
      /\ connected' = [connected EXCEPT ![m] = TRUE]
      /\ request' = [request EXCEPT ![m] = <<q>>]
      /\ call' = [call EXCEPT ![m] = [type |-> "register"]]
      /\ UNCHANGED <<registry, answer, late, beating, asked, strays, lost, dropped>>
  BY DEF Connect, history
<1>2. q \in Request /\ q.inc = inc[m] + 1 /\ q.type = "register"
  BY <1>0, RegistryAssumption DEF Request, Shape
<1> HIDE DEF q
<1>3. /\ <<q>> \in Seq(Request) /\ Len(<<q>>) = 1
      /\ \A i \in 1..Len(<<q>>) : <<q>>[i] = q
  BY <1>2
<1>4. /\ inc'[m] = inc[m] + 1 /\ connected'[m] /\ request'[m] = <<q>>
      /\ call'[m] = [type |-> "register"]
      /\ beating'[m] = beating[m] /\ answer'[m] = answer[m] /\ late'[m] = late[m]
  BY <1>0, <1>1 DEF Shape
<1>5. Shape'
  BY <1>0, <1>1, <1>3 DEF Shape, Call
<1>6. /\ ~beating[m] /\ answer[m] = <<>> /\ Len(answer[m]) = 0
      /\ strays[m] = 0 /\ lost[m] = 0
  BY <1>0, <1>1 DEF Ends
<1>7. Ends(m)'
  <2>1. inc[m] \in Nat /\ MaxStart[m] \in Nat
    BY <1>0, RegistryAssumption DEF Shape
  <2>2. \A i \in 1..Len(late[m]) : late[m][i].inc \in 1..inc[m]
    BY <1>0 DEF Ends
  <2>3. \A i \in 1..Len(late[m]) :
          late[m][i].inc \in 1..(inc[m] + 1) /\ late[m][i].inc < inc[m] + 1
    BY <2>1, <2>2
  <2>4. \A i \in 1..Len(request'[m]) : request'[m][i] = q
    BY <1>3, <1>4
  <2>5. inc[m] + 1 \in 0..MaxStart[m] /\ inc[m] + 1 >= 1
    BY <1>1, <2>1
  <2> QED BY <1>2, <1>4, <1>6, <2>3, <2>4, <2>5 DEF Ends
<1>8. Known(m)'
  BY <1>4, <1>6 DEF Known
<1>9. Backlog(m)'
  <2>1. call'[m] # NoCall /\ call'[m].type = "register"
    BY <1>4 DEF NoCall
  <2>2. /\ asked'[m] = asked[m] /\ strays'[m] = 0 /\ lost'[m] = 0
        /\ Len(asked[m]) = 0
    BY <1>0, <1>1, <1>6 DEF Backlog
  <2>3. \A i \in 1..Len(request'[m]) : Alike(request'[m][i], call'[m])
    BY <1>2, <1>3, <1>4, <2>1 DEF Alike
  <2>4. Waits(m)' = 1 /\ Len(answer'[m]) = 0 /\ Len(request'[m]) = 1
    BY <1>3, <1>4, <1>6, <2>1 DEF Waits
  <2>5. Balance(Len(answer'[m]), Len(request'[m]), lost'[m], strays'[m], Waits(m)')
    BY <2>2, <2>4 DEF Balance
  <2>6. \A i \in 1..0 : FALSE
    OBVIOUS
  <2> QED BY <2>2, <2>3, <2>4, <2>5, <2>6 DEF Backlog
<1>10. \A n \in Manager \ {m} :
         /\ request'[n] = request[n] /\ answer'[n] = answer[n] /\ late'[n] = late[n]
         /\ inc'[n] = inc[n] /\ connected'[n] = connected[n] /\ beating'[n] = beating[n]
         /\ call'[n] = call[n] /\ asked'[n] = asked[n] /\ strays'[n] = strays[n]
         /\ lost'[n] = lost[n]
  BY <1>0, <1>1 DEF Shape
<1> QED BY <1>1, <1>5, <1>7, <1>8, <1>9, <1>10, ClientStep

\* A call of m, or its heartbeat, puts one more request on the socket.
LEMMA SendInv ==
    ASSUME ClientInv, NEW m \in Manager, NEW q \in Request, NEW c \in Call,
           connected[m], call[m] = NoCall, Send(m, q),
           q.inc = inc[m], q.type # "unregister", q.type = "heartbeat" => beating[m],
           call' = [call EXCEPT ![m] = c],
           UNCHANGED <<registry, answer, late, inc, connected, beating, asked, lost, dropped>>,
           \/ c = NoCall /\ strays' = [strays EXCEPT ![m] = @ + 1]
           \/ strays' = strays /\ c # NoCall /\ Alike(q, c)
    PROVE  ClientInv'
<1>0. /\ Shape /\ Ends(m) /\ Known(m) /\ Backlog(m)
      /\ request[m] \in Seq(Request) /\ Len(request[m]) \in Nat
      /\ strays[m] \in Nat /\ lost[m] \in Nat /\ Len(answer[m]) \in Nat
  BY DEF ClientInv, Shape
<1>1. connected'[m]
  OBVIOUS
<1>2. /\ Append(request[m], q) \in Seq(Request)
      /\ Len(Append(request[m], q)) = Len(request[m]) + 1
      /\ \A i \in 1..Len(Append(request[m], q)) :
            \/ i \in 1..Len(request[m]) /\ Append(request[m], q)[i] = request[m][i]
            \/ Append(request[m], q)[i] = q
  BY <1>0, AppendProperties, LenProperties
<1>4. request'[m] = Append(request[m], q) /\ call'[m] = c
  BY <1>0 DEF Send, Shape
<1>5. Shape'
  <2>1. request' \in [Manager -> Seq(Request)] /\ call' \in [Manager -> Call]
    BY <1>0, <1>2 DEF Send, Shape
  <2>2. strays' \in [Manager -> Nat]
    <3>1. strays \in [Manager -> Nat]
      BY <1>0 DEF Shape
    <3>2. CASE strays' = [strays EXCEPT ![m] = @ + 1]
      BY <1>0, <3>1, <3>2
    <3> QED BY <3>1, <3>2
  <2> QED BY <1>0, <2>1, <2>2 DEF Shape
<1>7. Ends(m)'
  <2>1. \A i \in 1..Len(request'[m]) :
          /\ request'[m][i].inc = inc[m]
          /\ request'[m][i].type # "unregister"
          /\ request'[m][i].type = "heartbeat" => beating[m]
    BY <1>0, <1>2, <1>4 DEF Ends
  <2> QED BY <1>0, <1>1, <2>1 DEF Ends
<1>8. Known(m)'
  BY <1>0 DEF Known, On, registry
<1>9. Backlog(m)'
  <2>1. /\ asked'[m] = asked[m] /\ answer'[m] = answer[m] /\ lost'[m] = lost[m]
        /\ Len(asked[m]) = Len(answer[m])
        /\ \A i \in 1..Len(answer[m]) : Answers(answer[m][i], asked[m][i])
        /\ Balance(Len(answer[m]), Len(request[m]), lost[m], strays[m], 0)
    BY <1>0 DEF Backlog, Waits
  <2>2. Len(request'[m]) = Len(request[m]) + 1
    BY <1>2, <1>4
  <2>3. CASE c = NoCall /\ strays' = [strays EXCEPT ![m] = @ + 1]
    <3>1. strays'[m] = strays[m] + 1 /\ strays'[m] # 0
      BY <1>0, <2>3 DEF Shape
    <3>2. Waits(m)' = 0
      BY <1>4, <2>3 DEF Waits
    <3>3. Balance(Len(answer'[m]), Len(request'[m]), lost'[m], strays'[m], Waits(m)')
      BY <1>0, <2>1, <2>2, <3>1, <3>2, BalanceMoves
    <3> QED BY <2>1, <3>1, <3>3 DEF Backlog
  <2>4. CASE strays' = strays /\ c # NoCall /\ Alike(q, c)
    <3>1. ASSUME strays[m] = 0
          PROVE  /\ lost[m] = 0
                 /\ \A i \in 1..Len(request'[m]) : Alike(request'[m][i], c)
                 /\ \A i \in 1..Len(asked[m]) : Alike(asked[m][i], c)
      <4>1. lost[m] = 0 /\ Len(request[m]) = 0 /\ Len(asked[m]) = 0
        BY <1>0, <2>1, <3>1, BalanceSays DEF Backlog
      <4>2. \A i \in 1..Len(request'[m]) : request'[m][i] = q
        BY <1>2, <1>4, <4>1
      <4> QED BY <2>4, <4>1, <4>2
    <3>2. Waits(m)' = 1
      BY <1>4, <2>4 DEF Waits
    <3>3. Balance(Len(answer'[m]), Len(request'[m]), lost'[m], strays'[m], Waits(m)')
      BY <1>0, <2>1, <2>2, <2>4, <3>2, BalanceMoves
    <3> QED BY <1>4, <2>1, <2>4, <3>1, <3>3 DEF Backlog
  <2> QED BY <2>3, <2>4
<1>10. \A n \in Manager \ {m} :
         request'[n] = request[n] /\ call'[n] = call[n] /\ strays'[n] = strays[n]
  BY <1>0 DEF Send, Shape
<1> QED BY <1>5, <1>7, <1>8, <1>9, <1>10, ClientStep

\* A process registers a new list of actors.
LEMMA UpdateActorsInv ==
    ASSUME ClientInv, NEW m \in Manager, NEW actors \in Lists[m], UpdateActors(m, actors)
    PROVE  ClientInv'
<1> DEFINE q == [type |-> "register", inc |-> inc[m], actors |-> actors]
<1> DEFINE c == [type |-> "register"]
<1>1. q \in Request /\ q.inc = inc[m] /\ q.type = "register"
  BY RegistryAssumption DEF Request, ClientInv, Shape
<1>2. c \in Call /\ c.type = "register" /\ c # NoCall
  BY DEF Call, NoCall
<1>3. /\ connected[m] /\ call[m] = NoCall /\ Send(m, q)
      /\ call' = [call EXCEPT ![m] = c]
      /\ UNCHANGED <<registry, answer, late, inc, connected, beating, asked, strays, lost, dropped>>
  BY DEF UpdateActors, history
<1>4. Alike(q, c)
  BY <1>1, <1>2 DEF Alike
<1> HIDE DEF q, c
<1> QED BY <1>1, <1>2, <1>3, <1>4, SendInv

\* A process asks where an actor is.
LEMMA LookupActorInv ==
    ASSUME ClientInv, NEW m \in Manager, NEW name \in Asks[m], LookupActor(m, name)
    PROVE  ClientInv'
<1> DEFINE q == [type |-> "lookup", inc |-> inc[m], name |-> name]
<1> DEFINE c == [type |-> "lookup", name |-> name]
<1>0. name \in Name /\ inc[m] \in Nat
  BY RegistryAssumption DEF Name, ClientInv, Shape
<1>1. q \in Request /\ q.inc = inc[m] /\ q.type = "lookup" /\ q.name = name
  BY <1>0 DEF Request
<1>2. c \in Call /\ c.type = "lookup" /\ c.name = name /\ c # NoCall
  BY <1>0 DEF Call, NoCall
<1>3. /\ connected[m] /\ call[m] = NoCall /\ Send(m, q)
      /\ call' = [call EXCEPT ![m] = c]
      /\ UNCHANGED <<registry, answer, late, inc, connected, beating, asked, strays, lost, dropped>>
  BY DEF LookupActor, history
<1>4. Alike(q, c)
  BY <1>1, <1>2 DEF Alike
<1> HIDE DEF q, c
<1> QED BY <1>1, <1>2, <1>3, <1>4, SendInv

\* The heartbeat thread sends on the caller's socket.
LEMMA SendHeartbeatInv ==
    ASSUME ClientInv, NEW m \in Manager, SendHeartbeat(m)
    PROVE  ClientInv'
<1> DEFINE q == [type |-> "heartbeat", inc |-> inc[m]]
<1>1. q \in Request /\ q.inc = inc[m] /\ q.type = "heartbeat"
  BY DEF Request, ClientInv, Shape
<1>2. NoCall \in Call
  BY DEF Call
<1>3. /\ beating[m] /\ call[m] = NoCall /\ Send(m, q)
      /\ UNCHANGED <<registry, answer, late, inc, connected, beating, call, asked, lost, dropped>>
      /\ strays' = [strays EXCEPT ![m] = @ + 1]
  BY DEF SendHeartbeat, Stray, client
<1>4. call' = [call EXCEPT ![m] = NoCall]
  BY <1>3 DEF ClientInv, Shape
<1>5. connected[m]
  BY <1>3 DEF ClientInv, Ends, Shape
<1> HIDE DEF q
<1> QED BY <1>1, <1>2, <1>3, <1>4, <1>5, SendInv

\* A call takes the first answer on the socket for its own.
LEMMA ReturnInv ==
    ASSUME ClientInv, NEW m \in Manager, Return(m)
    PROVE  ClientInv'
<1>0. /\ Shape /\ Ends(m) /\ Known(m) /\ Backlog(m)
      /\ answer[m] \in Seq(Answer) /\ request[m] \in Seq(Request)
  BY DEF ClientInv, Shape
<1>1. /\ call[m] # NoCall /\ answer[m] # <<>>
      /\ answer' = [answer EXCEPT ![m] = Tail(@)]
      /\ beating' = [beating EXCEPT ![m] =
             @ \/ (call[m].type = "register" /\ Head(answer[m]).type = "ack")]
      /\ call' = [call EXCEPT ![m] = NoCall]
      /\ asked' = [asked EXCEPT ![m] = Tail(@)]
      /\ UNCHANGED <<registry, request, late, inc, connected, strays, lost, dropped>>
  BY DEF Return
<1>2. /\ Tail(answer[m]) \in Seq(Answer)
      /\ Len(answer[m]) \in Nat /\ Len(Tail(answer[m])) = Len(answer[m]) - 1
      /\ Len(answer[m]) >= 1 /\ Head(answer[m]) = answer[m][1]
      /\ \A i \in 1..Len(Tail(answer[m])) :
            i + 1 \in 1..Len(answer[m]) /\ Tail(answer[m])[i] = answer[m][i+1]
  BY <1>0, <1>1
<1>a. /\ asked[m] \in Seq(Request) /\ Len(asked[m]) = Len(answer[m]) /\ asked[m] # <<>>
      /\ Tail(asked[m]) \in Seq(Request) /\ Len(Tail(asked[m])) = Len(asked[m]) - 1
      /\ \A i \in 1..Len(Tail(asked[m])) : Tail(asked[m])[i] = asked[m][i+1]
  <2>1. asked[m] \in Seq(Request) /\ Len(asked[m]) = Len(answer[m]) /\ asked[m] # <<>>
    BY <1>0, <1>2 DEF Shape, Backlog
  <2> QED BY <2>1
<1>3. /\ answer'[m] = Tail(answer[m]) /\ call'[m] = NoCall /\ asked'[m] = Tail(asked[m])
      /\ beating'[m] <=> beating[m] \/ (call[m].type = "register" /\ Head(answer[m]).type = "ack")
      /\ request'[m] = request[m] /\ late'[m] = late[m] /\ inc'[m] = inc[m]
      /\ connected'[m] = connected[m]
  BY <1>0, <1>1 DEF Shape
<1>4. Shape'
  <2>1. answer' \in [Manager -> Seq(Answer)]
    BY <1>0, <1>1, <1>2 DEF Shape
  <2>4. asked' \in [Manager -> Seq(Request)]
    BY <1>0, <1>1, <1>a DEF Shape
  <2>2. beating' \in [Manager -> BOOLEAN]
    BY <1>0, <1>1 DEF Shape
  <2>3. call' \in [Manager -> Call]
    BY <1>0, <1>1 DEF Shape, Call
  <2> QED BY <1>0, <1>1, <2>1, <2>2, <2>3, <2>4 DEF Shape
<1>5. connected[m] /\ connected'[m]
  BY <1>0, <1>1 DEF Ends, Shape
<1>6. Ends(m)'
  BY <1>0, <1>3, <1>5 DEF Ends
<1>7. Known(m)'
  <2> SUFFICES ASSUME m \notin dropped,
                      beating'[m] \/ \E i \in 1..Len(answer'[m]) : answer'[m][i].type = "ack"
               PROVE  On(m)
    BY <1>1, <1>3 DEF Known, On, registry
  <2>1. \/ beating[m]
        \/ \E i \in 1..Len(answer[m]) : answer[m][i].type = "ack"
    BY <1>2, <1>3
  <2> QED BY <1>0, <2>1 DEF Known
<1>8. Backlog(m)'
  <2>1. /\ Balance(Len(answer[m]), Len(request[m]), lost[m], strays[m], 1)
        /\ Len(request[m]) \in Nat /\ lost[m] \in Nat /\ strays[m] \in Nat
    BY <1>0, <1>1 DEF Backlog, Shape, Waits
  <2>2. Len(answer'[m]) = Len(answer[m]) - 1 /\ Len(asked'[m]) = Len(answer[m]) - 1
    BY <1>2, <1>3, <1>a
  <2>7. Waits(m)' = 0
    BY <1>3 DEF Waits
  <2>3. Balance(Len(answer'[m]), Len(request'[m]), lost'[m], strays'[m], Waits(m)')
    BY <1>1, <1>2, <1>3, <2>1, <2>2, <2>7, BalanceMoves
  <2>4. \A i \in 1..Len(answer'[m]) : Answers(answer'[m][i], asked'[m][i])
    BY <1>0, <1>2, <1>3, <1>a, <2>2 DEF Backlog
  <2>5. ASSUME strays[m] = 0
        PROVE  lost[m] = 0 /\ Len(request'[m]) = 0 /\ Len(asked'[m]) = 0
    <3>1. lost[m] = 0
      BY <1>0, <2>5 DEF Backlog
    <3>2. PICK a, r, l, k : /\ a = Len(answer[m]) /\ r = Len(request[m])
                            /\ l = lost[m] /\ k = strays[m]
      OBVIOUS
    <3>3. /\ a \in Nat /\ r \in Nat /\ l = 0 /\ k = 0 /\ a >= 1
          /\ Balance(a, r, l, k, 1)
      BY <1>2, <2>1, <2>5, <3>1, <3>2
    <3>4. r = 0 /\ a - 1 = 0
      BY <3>3, BalanceSays
    <3> QED BY <1>3, <2>2, <3>1, <3>2, <3>4
  <2>6. \A i \in 1..0 : FALSE
    OBVIOUS
  <2>8. /\ Len(asked'[m]) = Len(answer'[m])
        /\ strays'[m] = strays[m] /\ lost'[m] = lost[m]
    BY <1>1, <2>2
  <2> QED BY <2>3, <2>4, <2>5, <2>6, <2>8 DEF Backlog
<1>9. \A n \in Manager \ {m} :
         /\ answer'[n] = answer[n] /\ beating'[n] = beating[n] /\ call'[n] = call[n]
         /\ asked'[n] = asked[n]
  BY <1>0, <1>1 DEF Shape
<1> QED BY <1>1, <1>4, <1>6, <1>7, <1>8, <1>9, ClientStep

\* A call gives up; its answer may still come.
LEMMA TimeOutInv ==
    ASSUME ClientInv, NEW m \in Manager, TimeOut(m)
    PROVE  ClientInv'
<1>0. /\ Shape /\ Ends(m) /\ Known(m) /\ Backlog(m)
      /\ strays[m] \in Nat /\ lost[m] \in Nat
      /\ Len(request[m]) \in Nat /\ Len(answer[m]) \in Nat
  BY DEF ClientInv, Shape
<1>1. /\ call[m] # NoCall
      /\ call' = [call EXCEPT ![m] = NoCall]
      /\ strays' = [strays EXCEPT ![m] = @ + 1]
      /\ UNCHANGED <<registry, request, answer, late, inc, connected, beating, asked, lost, dropped>>
  BY DEF TimeOut, Stray
<1>2. Shape' /\ call'[m] = NoCall /\ strays'[m] = strays[m] + 1
  BY <1>0, <1>1 DEF Shape, Call
<1>3. Ends(m)'
  BY <1>0, <1>1, <1>2 DEF Ends
<1>4. Known(m)'
  BY <1>0, <1>1 DEF Known, On, registry
<1>5. Backlog(m)'
  <2>1. Balance(Len(answer[m]), Len(request[m]), lost[m], strays[m], 1)
    BY <1>0, <1>1 DEF Backlog, Waits
  <2>2. Waits(m)' = 0 /\ strays'[m] # 0
    BY <1>0, <1>2 DEF Waits
  <2>3. Balance(Len(answer'[m]), Len(request'[m]), lost'[m], strays'[m], Waits(m)')
    BY <1>0, <1>1, <1>2, <2>1, <2>2, BalanceMoves
  <2> QED BY <1>0, <1>1, <2>2, <2>3 DEF Backlog
<1>6. \A n \in Manager \ {m} : call'[n] = call[n] /\ strays'[n] = strays[n]
  BY <1>0, <1>1 DEF Shape
<1> QED BY <1>1, <1>2, <1>3, <1>4, <1>5, <1>6, ClientStep

\* A socket closes: some of what was on it is late.
LEMMA CloseInv ==
    ASSUME ClientInv, NEW m \in Manager, connected[m], NEW rest \in Seq(Request),
           \A i \in 1..Len(rest) : rest[i].inc = inc[m], Close(m, rest)
    PROVE  ClientInv'
<1>0. Shape /\ Ends(m)
  BY DEF ClientInv
<1>1. /\ request' = [request EXCEPT ![m] = <<>>]
      /\ answer' = [answer EXCEPT ![m] = <<>>]
      /\ connected' = [connected EXCEPT ![m] = FALSE]
      /\ beating' = [beating EXCEPT ![m] = FALSE]
      /\ call' = [call EXCEPT ![m] = NoCall]
      /\ asked' = [asked EXCEPT ![m] = <<>>]
      /\ strays' = [strays EXCEPT ![m] = 0] /\ lost' = [lost EXCEPT ![m] = 0]
      /\ dropped' = dropped \ {m}
      /\ UNCHANGED <<registry, inc>>
  BY DEF Close
<1>2. PICK k \in 0..Len(rest) : late' = [late EXCEPT ![m] = SubSeq(rest, 1, k)]
  BY DEF Close
<1>3. /\ SubSeq(rest, 1, k) \in Seq(Request) /\ Len(SubSeq(rest, 1, k)) = k
      /\ \A i \in 1..k : SubSeq(rest, 1, k)[i] = rest[i] /\ i \in 1..Len(rest)
  BY SubSeqProperties
<1>4. <<>> \in Seq(Request) /\ <<>> \in Seq(Answer) /\ Len(<<>>) = 0 /\ NoCall \in Call
  BY EmptySeq DEF Call
<1>5. Shape'
  BY <1>0, <1>1, <1>2, <1>3, <1>4 DEF Shape
<1>6. /\ request'[m] = <<>> /\ answer'[m] = <<>> /\ connected'[m] = FALSE
      /\ beating'[m] = FALSE /\ call'[m] = NoCall /\ late'[m] = SubSeq(rest, 1, k)
      /\ inc'[m] = inc[m] /\ asked'[m] = <<>> /\ strays'[m] = 0 /\ lost'[m] = 0
  BY <1>0, <1>1, <1>2 DEF Shape
<1>7. Ends(m)'
  <2>1. inc[m] \in Nat /\ inc[m] >= 1
    BY <1>0 DEF Ends, Shape
  <2>2. \A i \in 1..Len(late'[m]) : late'[m][i].inc \in 1..inc[m]
    BY <1>3, <1>6, <2>1
  <2> QED BY <1>0, <1>4, <1>6, <2>2 DEF Ends
<1>8. Known(m)'
  BY <1>4, <1>6 DEF Known
<1>9. Backlog(m)'
  <2>1. Waits(m)' = 0 /\ Len(answer'[m]) = 0 /\ Len(request'[m]) = 0 /\ Len(asked'[m]) = 0
    BY <1>4, <1>6 DEF Waits
  <2>2. Balance(Len(answer'[m]), Len(request'[m]), lost'[m], strays'[m], Waits(m)')
    BY <1>6, <2>1 DEF Balance
  <2>3. \A i \in 1..0 : FALSE
    OBVIOUS
  <2> QED BY <1>6, <2>1, <2>2, <2>3 DEF Backlog
<1>10. \A n \in Manager \ {m} :
         /\ request'[n] = request[n] /\ answer'[n] = answer[n] /\ late'[n] = late[n]
         /\ inc'[n] = inc[n] /\ connected'[n] = connected[n] /\ beating'[n] = beating[n]
         /\ call'[n] = call[n]
         /\ asked'[n] = asked[n] /\ strays'[n] = strays[n] /\ lost'[n] = lost[n]
         /\ n \in dropped' <=> n \in dropped
  BY <1>0, <1>1, <1>2 DEF Shape
<1> QED BY <1>1, <1>5, <1>7, <1>8, <1>9, <1>10, ClientStep

\* A process leaves with a farewell.
LEMMA StopInv ==
    ASSUME ClientInv, NEW m \in Manager, Stop(m)
    PROVE  ClientInv'
<1> DEFINE q == [type |-> "unregister", inc |-> inc[m]]
<1> DEFINE rest == Append(request[m], q)
<1>1. /\ connected[m] /\ Close(m, rest)
      /\ request[m] \in Seq(Request) /\ Ends(m)
  BY DEF Stop, ClientInv, Shape
<1>2. q \in Request /\ q.inc = inc[m]
  BY DEF Request, ClientInv, Shape
<1> HIDE DEF q
<1>3. rest \in Seq(Request) /\ \A i \in 1..Len(rest) : rest[i].inc = inc[m]
  BY <1>1, <1>2 DEF Ends
<1> HIDE DEF rest
<1> QED BY <1>1, <1>3, CloseInv

\* A process goes without one.
LEMMA CrashInv ==
    ASSUME ClientInv, NEW m \in Manager, Crash(m)
    PROVE  ClientInv'
<1>1. /\ connected[m] /\ Close(m, request[m]) /\ request[m] \in Seq(Request)
      /\ \A i \in 1..Len(request[m]) : request[m][i].inc = inc[m]
  BY DEF Crash, ClientInv, Shape, Ends
<1> QED BY <1>1, CloseInv

\* Heartbeats of a process have stayed away too long.
LEMMA QuietInv ==
    ASSUME ClientInv, NEW m \in Manager, Quiet(m)
    PROVE  ClientInv'
<1>1. /\ m \in DOMAIN managers /\ quiet' = quiet \cup {m}
      /\ UNCHANGED <<managers, actor_to_managers, request, answer, late, inc, connected,
                     beating, call, asked, strays, lost, dropped>>
  BY DEF Quiet, client, history
<1>2. Sound(Maps)'
  <2>1. /\ Maps.managers = managers /\ Maps.index = actor_to_managers /\ Maps.quiet = quiet
        /\ Maps'.managers = managers /\ Maps'.index = actor_to_managers
        /\ Maps'.quiet = quiet \cup {m}
        /\ Maps' = [managers |-> Maps'.managers, index |-> Maps'.index, quiet |-> Maps'.quiet]
    BY <1>1 DEF Maps
  <2> QED BY <1>1, <2>1 DEF ClientInv, Sound, Listed
<1>3. \A n \in Manager : Ends(n)' /\ Known(n)' /\ Backlog(n)'
  <2> TAKE n \in Manager
  <2>1. On(n) => On(n)'
    BY <1>1 DEF On
  <2> QED BY <1>1, <2>1, OtherManager
<1>4. Shape'
  BY <1>1 DEF ClientInv, Shape
<1> QED BY <1>2, <1>3, <1>4 DEF ClientInv

-----------------------------------------------------------------------------
(* The theorems *)

\* Every step keeps the invariant of the two ends.
LEMMA NextInv == ClientInv /\ [Next]_vars => ClientInv'
<1> SUFFICES ASSUME ClientInv, [Next]_vars PROVE ClientInv'
  OBVIOUS
<1>1. CASE UNCHANGED vars
  <2>1. Maps' = Maps
    BY <1>1 DEF Maps, vars, registry
  <2>2. Sound(Maps)' /\ Shape'
    BY <1>1, <2>1 DEF ClientInv, Sound, Listed, Shape, vars, client, history
  <2>3. \A n \in Manager : Ends(n)' /\ Known(n)' /\ Backlog(n)'
    <3> TAKE n \in Manager
    <3>1. On(n) => On(n)'
      BY <1>1 DEF On, vars, registry, client
    <3> QED BY <1>1, <3>1, OtherManager DEF vars, client, history
  <2> QED BY <2>2, <2>3 DEF ClientInv
<1>2. ASSUME NEW m \in Manager, NEW check \in BOOLEAN, Receive(m, check) PROVE ClientInv'
  BY <1>2, ReceiveInv
<1>3. ASSUME NEW m \in Manager, NEW check \in BOOLEAN, ReceiveLate(m, check) PROVE ClientInv'
  BY <1>3, ReceiveLateInv
<1>4. ASSUME NEW m \in Manager, NEW actors \in Lists[m], Connect(m, actors) PROVE ClientInv'
  BY <1>4, ConnectInv
<1>5. ASSUME NEW m \in Manager, NEW actors \in Lists[m], UpdateActors(m, actors) PROVE ClientInv'
  BY <1>5, UpdateActorsInv
<1>6. ASSUME NEW m \in Manager, NEW name \in Asks[m], LookupActor(m, name) PROVE ClientInv'
  BY <1>6, LookupActorInv
<1>7. ASSUME NEW m \in Manager, Return(m) PROVE ClientInv'
  BY <1>7, ReturnInv
<1>8. ASSUME NEW m \in Manager, TimeOut(m) PROVE ClientInv'
  BY <1>8, TimeOutInv
<1>9. ASSUME NEW m \in Manager, SendHeartbeat(m) PROVE ClientInv'
  BY <1>9, SendHeartbeatInv
<1>10. ASSUME NEW m \in Manager, Stop(m) PROVE ClientInv'
  BY <1>10, StopInv
<1>11. ASSUME NEW m \in Manager, Crash(m) PROVE ClientInv'
  BY <1>11, CrashInv
<1>12. ASSUME NEW m \in Manager, Quiet(m) PROVE ClientInv'
  BY <1>12, QuietInv
<1> QED BY <1>1, <1>2, <1>3, <1>4, <1>5, <1>6, <1>7, <1>8, <1>9, <1>10, <1>11, <1>12 DEF Next

\* Between every client and the registry, what is on the way is of the process
\* that is connected, and acknowledgements stand for registrations that stand.
THEOREM ClientCorrect == Spec => []ClientInv
<1> QED BY InitInv, NextInv, PTL DEF Spec

\* The two maps of RegistryActor stay in step through every sequence of
\* registrations, updates, departures and timeouts, of any number of managers.
THEOREM RegistryCorrect == Spec => []RegistryInv
<1>1. ClientInv => RegistryInv
  <2> SUFFICES ASSUME ClientInv PROVE RegistryInv
    OBVIOUS
  <2>1. /\ Maps.managers = managers /\ Maps.index = actor_to_managers /\ Maps.quiet = quiet
    BY DEF Maps
  <2>2. TypeOK
    <3>1. \A m \in Manager : beating[m] \/ call[m] # NoCall => connected[m]
      BY DEF ClientInv, Ends, Shape
    <3> QED BY <2>1, <3>1 DEF ClientInv, Sound, TypeOK
  <2>3. IndexMatches
    BY <2>1 DEF ClientInv, Sound, Listed, IndexMatches
  <2> QED BY <2>2, <2>3 DEF RegistryInv
<1> QED BY <1>1, ClientCorrect, PTL

\* A living manager whose registration was acknowledged is looked up at its own
\* endpoint, unless its registration was undone under it.
THEOREM AliveListedCorrect == Spec => []AliveListed
<1>1. ClientInv => AliveListed
  BY DEF ClientInv, Known, On, AliveListed
<1> QED BY <1>1, ClientCorrect, PTL

\* What a lookup reads is as far behind its question as heartbeats, timeouts and
\* overflows of the socket have put it, and no further.
THEOREM AnswerLagCorrect == Spec => []AnswerLag
<1>1. ClientInv => AnswerLag
  <2> SUFFICES ASSUME ClientInv, NEW m \in Manager, NEW r \in Looked(m)
               PROVE  LET owed == asked[m] \o request[m]
                          behind == strays[m] - lost[m]
                      IN  /\ behind \in 0..Len(owed) - 1
                          /\ Answers(r, owed[Len(owed) - behind])
                          /\ strays[m] = 0 => Answers(r, call[m])
    BY DEF AnswerLag
  <2> DEFINE owed == asked[m] \o request[m]
             behind == strays[m] - lost[m]
  <2>1. call[m].type = "lookup" /\ answer[m] # <<>> /\ r = Head(answer[m])
    BY DEF Looked
  <2>2. /\ answer[m] \in Seq(Answer) /\ asked[m] \in Seq(Request)
        /\ request[m] \in Seq(Request) /\ Backlog(m)
        /\ strays[m] \in Nat /\ lost[m] \in Nat
    BY DEF ClientInv, Shape
  <2>3. r = answer[m][1] /\ 1 \in 1..Len(answer[m]) /\ Len(answer[m]) \in Nat
    BY <2>1, <2>2
  <2>4. call[m] # NoCall
    BY <2>1 DEF NoCall
  <2>5. Len(asked[m]) = Len(answer[m]) /\ Len(request[m]) \in Nat
    BY <2>2 DEF Backlog
  <2>6. Balance(Len(answer[m]), Len(request[m]), lost[m], strays[m], 1)
    BY <2>2, <2>4 DEF Backlog, Waits
  <2>7. Len(owed) = Len(answer[m]) + Len(request[m]) /\ owed[1] = asked[m][1]
    <3>1. Len(asked[m] \o request[m]) = Len(asked[m]) + Len(request[m])
      BY <2>2, ConcatProperties
    <3>2. /\ Len(asked[m]) \in Nat /\ Len(asked[m]) >= 1
          /\ 1 \in 1..(Len(asked[m]) + Len(request[m])) /\ 1 <= Len(asked[m])
      <4>1. PICK a, q : a = Len(asked[m]) /\ q = Len(request[m])
        OBVIOUS
      <4>2. a \in Nat /\ q \in Nat /\ a >= 1
        BY <2>3, <2>5, <4>1
      <4>3. 1 \in 1..(a + q)
        BY <4>2
      <4> QED BY <4>1, <4>2, <4>3
    <3>3. (asked[m] \o request[m])[1] = asked[m][1]
      BY <2>2, <3>2, ConcatProperties
    <3> QED BY <2>5, <3>1, <3>3
  <2>8. behind \in 0..Len(owed) - 1 /\ Len(owed) - behind = 1
    <3>1. behind \in 0..(Len(answer[m]) + Len(request[m])) - 1
          /\ (Len(answer[m]) + Len(request[m])) - behind = 1
      <4>1. PICK a, q, l, k : /\ a = Len(answer[m]) /\ q = Len(request[m])
                              /\ l = lost[m] /\ k = strays[m]
        OBVIOUS
      <4>2. a \in Nat /\ q \in Nat /\ l \in Nat /\ k \in Nat /\ a >= 1 /\ Balance(a, q, l, k, 1)
        BY <2>2, <2>3, <2>5, <2>6, <4>1
      <4>3. k - l \in 0..(a + q) - 1 /\ (a + q) - (k - l) = 1
        BY <4>2, BalanceSays
      <4> QED BY <4>1, <4>3
    <3> HIDE DEF behind, owed
    <3> QED BY <2>7, <3>1
  <2>9. Answers(r, asked[m][1])
    BY <2>2, <2>3 DEF Backlog
  <2>10. ASSUME strays[m] = 0 PROVE Answers(r, call[m])
    <3>1. Alike(asked[m][1], call[m])
      BY <2>2, <2>3, <2>5, <2>10 DEF Backlog
    <3> QED BY <2>1, <2>9, <3>1 DEF Alike, Answers
  <2> QED BY <2>7, <2>8, <2>9, <2>10
<1> QED BY <1>1, ClientCorrect, PTL
==============================================================================
