------------------------------ MODULE Registry ------------------------------
(***************************************************************************)
(* The actor registry: RegistryActor, which maps the actors of managers    *)
(* (processes) to endpoints, and RegistryClient, through which a manager   *)
(* registers, looks actors up and sends heartbeats over one DEALER socket. *)
(*                                                                         *)
(* The registry is an actor, so each of its handlers is one step.  A       *)
(* client has two threads, the caller and the heartbeat thread, which take *)
(* turns through socket_mutex_.  An endpoint is named by the incarnation   *)
(* of the process that registered it.                                      *)
(***************************************************************************)
EXTENDS Integers, Sequences, FiniteSets, Functions

CONSTANTS
    Manager,        \* manager ids
    Actor,          \* unqualified actor names
    NoManager,      \* the manager part of a name without a dot
    HighWater,      \* answers that fit into a client's socket
    Asks,           \* bound: the names each manager looks up
    Lists,          \* bound: the lists of actors each manager registers
    MaxStart,       \* bound: starts of each manager's process
    MaxStray        \* bound: heartbeats and timeouts on a socket, by manager

ASSUME RegistryAssumption ==
    /\ NoManager \notin Manager
    /\ HighWater \in Nat \ {0}
    /\ Asks \in [Manager -> SUBSET ((Manager \cup {NoManager}) \X Actor)]
    /\ Lists \in [Manager -> SUBSET SUBSET Actor]
    /\ MaxStart \in [Manager -> Nat]
    /\ MaxStray \in [Manager -> Nat]

VARIABLES
    managers,           \* managers_: endpoint and actors of each manager
    actor_to_managers,  \* the managers of each actor
    quiet,              \* managers whose last heartbeat is too old
    request,            \* requests on their way, by manager
    answer,             \* answers in each manager's socket
    late,               \* requests of an earlier process, on a closed socket
    inc,                \* incarnation of each manager's process
    connected,          \* connected_
    beating,            \* heartbeat_running_
    call,               \* what each client waits for in send_and_receive
    asked,              \* history: the requests the answers in a socket are to
    strays,             \* history: heartbeats and timeouts on a socket
    lost,               \* history: answers that did not fit into a socket
    dropped             \* history: processes whose registration was undone

registry == <<managers, actor_to_managers, quiet>>
client == <<inc, connected, beating, call>>
history == <<asked, strays, lost, dropped>>
vars == <<registry, request, answer, late, client, history>>

NoCall == [type |-> "none"]
-----------------------------------------------------------------------------
(* RegistryActor *)

UnregisterManager(r, m) ==
    IF m \notin DOMAIN r.managers
    THEN r
    ELSE LET left == [a \in DOMAIN r.index |->
                         IF a \in r.managers[m].actors THEN r.index[a] \ {m} ELSE r.index[a]]
         IN  [managers |-> Restrict(r.managers, DOMAIN r.managers \ {m}),
              index |-> Restrict(left, {a \in DOMAIN left : left[a] # {}}),
              quiet |-> r.quiet \ {m}]

\* m, now at an endpoint, is entered with its actors
Enter(r, m, endpoint, actors) ==
    LET owners(a) == IF a \in DOMAIN r.index THEN r.index[a] ELSE {}
    IN  [managers |-> [n \in DOMAIN r.managers \cup {m} |->
                          IF n = m THEN [endpoint |-> endpoint, actors |-> actors] ELSE r.managers[n]],
         index |-> [a \in DOMAIN r.index \cup actors |->
                       IF a \in actors THEN owners(a) \cup {m} ELSE r.index[a]],
         quiet |-> r.quiet]

\* mutant: a manager that registers again keeps its endpoint
RegisterManagerKeep(r, m, q) ==
    Enter(UnregisterManager(r, m), m,
          IF m \in DOMAIN r.managers THEN r.managers[m].endpoint ELSE q.inc, q.actors)

RegisterManager(r, m, q) == Enter(UnregisterManager(r, m), m, q.inc, q.actors)

Ack == [type |-> "ack"]

\* do_lookup: only names with a manager are looked up
DoLookup(r, name) ==
    LET m == name[1]
        found == m \in DOMAIN r.managers /\ name[2] \in r.managers[m].actors
    IN  [type |-> "result", name |-> name, found |-> found,
         endpoint |-> IF found THEN r.managers[m].endpoint ELSE 0]

\* the registry after request q of manager m, and the answer if there is one
Handle(r, m, q) ==
    CASE q.type = "register"   -> [reg |-> RegisterManager(r, m, q), out |-> <<Ack>>]
      [] q.type = "unregister" -> [reg |-> UnregisterManager(r, m), out |-> <<>>]
      [] q.type = "lookup"     -> [reg |-> r, out |-> <<DoLookup(r, q.name)>>]
      [] q.type = "heartbeat"  -> [reg |-> [r EXCEPT !.quiet = @ \ {m}], out |-> <<Ack>>]

\* mutant: a manager that is timed out stays in the index
CheckHeartbeatTimeoutsShallow(r) ==
    [r EXCEPT !.managers = Restrict(@, DOMAIN @ \ r.quiet), !.quiet = {}]

CheckHeartbeatTimeouts(r) ==
    LET left == [a \in DOMAIN r.index |->
                    r.index[a] \ {m \in r.quiet : a \in r.managers[m].actors}]
    IN  [managers |-> Restrict(r.managers, DOMAIN r.managers \ r.quiet),
         index |-> Restrict(left, {a \in DOMAIN left : left[a] # {}}),
         quiet |-> {}]

\* on_incoming_zmq: the handler, then, every 5 seconds, the timeouts
OnIncomingZmq(m, q, check) ==
    LET h == Handle([managers |-> managers, index |-> actor_to_managers, quiet |-> quiet], m, q)
        r == IF check THEN CheckHeartbeatTimeouts(h.reg) ELSE h.reg
        undone == {n \in DOMAIN managers : n \notin DOMAIN r.managers}
    IN  /\ managers' = r.managers
        /\ actor_to_managers' = r.index
        /\ quiet' = r.quiet
        /\ dropped' = dropped \cup {n \in Manager :
               /\ connected[n]
               /\ \/ check /\ n \in h.reg.quiet
                  \/ n = m /\ q.inc # inc[m] /\ (n \in undone \/ q.type = "register")}

\* an answer that does not fit into the socket is not delivered
Deliver(m, q, out) ==
    IF Len(answer[m]) < HighWater
    THEN /\ answer' = [answer EXCEPT ![m] = @ \o out]
         /\ asked' = [asked EXCEPT ![m] = Append(@, q)]
         /\ UNCHANGED lost
    ELSE /\ lost' = [lost EXCEPT ![m] = @ + 1]
         /\ UNCHANGED <<answer, asked>>

Answered(m, q) ==
    Deliver(m, q, Handle([managers |-> managers, index |-> actor_to_managers,
                          quiet |-> quiet], m, q).out)

Receive(m, check) ==
    /\ request[m] # <<>>
    /\ request' = [request EXCEPT ![m] = Tail(@)]
    /\ OnIncomingZmq(m, Head(request[m]), check)
    /\ Answered(m, Head(request[m]))
    /\ UNCHANGED <<late, client, strays>>

\* the router takes turns between sockets: a closed one may come after a new one
ReceiveLate(m, check) ==
    /\ late[m] # <<>>
    /\ late' = [late EXCEPT ![m] = Tail(@)]
    /\ OnIncomingZmq(m, Head(late[m]), check)
    /\ UNCHANGED <<answer, request, client, asked, strays, lost>>
-----------------------------------------------------------------------------
(* RegistryClient *)

Init ==
    /\ managers = << >> /\ actor_to_managers = << >> /\ quiet = {}
    /\ request = [m \in Manager |-> <<>>]
    /\ answer = [m \in Manager |-> <<>>]
    /\ late = [m \in Manager |-> <<>>]
    /\ inc = [m \in Manager |-> 0]
    /\ connected = [m \in Manager |-> FALSE]
    /\ beating = [m \in Manager |-> FALSE]
    /\ call = [m \in Manager |-> NoCall]
    /\ asked = [m \in Manager |-> <<>>]
    /\ strays = [m \in Manager |-> 0]
    /\ lost = [m \in Manager |-> 0]
    /\ dropped = {}

Send(m, q) == request' = [request EXCEPT ![m] = Append(@, q)]

\* connect, then register_manager sends the list of actors
Connect(m, actors) ==
    /\ ~connected[m]
    /\ inc[m] < MaxStart[m]
    /\ inc' = [inc EXCEPT ![m] = @ + 1]
    /\ connected' = [connected EXCEPT ![m] = TRUE]
    /\ request' = [request EXCEPT ![m] =
           <<[type |-> "register", inc |-> inc[m] + 1, actors |-> actors]>>]
    /\ call' = [call EXCEPT ![m] = [type |-> "register"]]
    /\ UNCHANGED <<registry, answer, late, beating, history>>

\* update_actors: the list of actors is sent again.  A call holds
\* socket_mutex_ until it returns.
UpdateActors(m, actors) ==
    /\ connected[m]
    /\ call[m] = NoCall
    /\ Send(m, [type |-> "register", inc |-> inc[m], actors |-> actors])
    /\ call' = [call EXCEPT ![m] = [type |-> "register"]]
    /\ UNCHANGED <<registry, answer, late, inc, connected, beating, history>>

LookupActor(m, name) ==
    /\ connected[m]
    /\ call[m] = NoCall
    /\ Send(m, [type |-> "lookup", inc |-> inc[m], name |-> name])
    /\ call' = [call EXCEPT ![m] = [type |-> "lookup", name |-> name]]
    /\ UNCHANGED <<registry, answer, late, inc, connected, beating, history>>

\* mutant: the answer stays in the socket
ReturnPeek(m) ==
    /\ call[m] # NoCall
    /\ answer[m] # <<>>
    /\ beating' = [beating EXCEPT ![m] =
           @ \/ (call[m].type = "register" /\ Head(answer[m]).type = "ack")]
    /\ call' = [call EXCEPT ![m] = NoCall]
    /\ UNCHANGED <<registry, answer, request, late, inc, connected, history>>

\* send_and_receive returns the next answer, whatever it answers; a lookup
\* that reads an acknowledgement reports that nothing was found
Return(m) ==
    /\ call[m] # NoCall
    /\ answer[m] # <<>>
    /\ answer' = [answer EXCEPT ![m] = Tail(@)]
    /\ asked' = [asked EXCEPT ![m] = Tail(@)]
    /\ beating' = [beating EXCEPT ![m] =
           @ \/ (call[m].type = "register" /\ Head(answer[m]).type = "ack")]
    /\ call' = [call EXCEPT ![m] = NoCall]
    /\ UNCHANGED <<registry, request, late, inc, connected, strays, lost, dropped>>

Stray(m) ==
    /\ strays[m] < MaxStray[m]
    /\ strays' = [strays EXCEPT ![m] = @ + 1]

\* no answer within timeout_: the call fails, its answer may still come
TimeOut(m) ==
    /\ call[m] # NoCall
    /\ answer[m] = <<>>
    /\ call' = [call EXCEPT ![m] = NoCall]
    /\ Stray(m)
    /\ UNCHANGED <<registry, request, answer, late, inc, connected, beating, asked, lost,
                   dropped>>

\* send_heartbeat, by the thread that register_manager's success starts: its
\* acknowledgement is not waited for
SendHeartbeat(m) ==
    /\ beating[m]
    /\ call[m] = NoCall
    /\ Send(m, [type |-> "heartbeat", inc |-> inc[m]])
    /\ Stray(m)
    /\ UNCHANGED <<registry, answer, late, client, asked, lost, dropped>>

\* the socket is closed: of what was not yet handled, rest is still read
Close(m, rest) ==
    /\ \E n \in 0..Len(rest) : late' = [late EXCEPT ![m] = SubSeq(rest, 1, n)]
    /\ request' = [request EXCEPT ![m] = <<>>]
    /\ answer' = [answer EXCEPT ![m] = <<>>]
    /\ connected' = [connected EXCEPT ![m] = FALSE]
    /\ beating' = [beating EXCEPT ![m] = FALSE]
    /\ call' = [call EXCEPT ![m] = NoCall]
    /\ asked' = [asked EXCEPT ![m] = <<>>]
    /\ strays' = [strays EXCEPT ![m] = 0]
    /\ lost' = [lost EXCEPT ![m] = 0]
    /\ dropped' = dropped \ {m}
    /\ UNCHANGED <<registry, inc>>

\* stop_heartbeat_thread, unregister_manager and disconnect (linger 0)
Stop(m) ==
    /\ connected[m]
    /\ call[m] = NoCall
    /\ late[m] = <<>>
    /\ Close(m, Append(request[m], [type |-> "unregister", inc |-> inc[m]]))

Crash(m) ==
    /\ connected[m]
    /\ late[m] = <<>>
    /\ Close(m, request[m])

\* more than heartbeat_timeout_ passes without a heartbeat of m
Quiet(m) ==
    /\ m \in DOMAIN managers /\ m \notin quiet
    /\ quiet' = quiet \cup {m}
    /\ UNCHANGED <<managers, actor_to_managers, request, answer, late, client, history>>

Next ==
    \E m \in Manager :
        \/ \E check \in BOOLEAN : Receive(m, check) \/ ReceiveLate(m, check)
        \/ \E actors \in Lists[m] : Connect(m, actors) \/ UpdateActors(m, actors)
        \/ \E name \in Asks[m] : LookupActor(m, name)
        \/ Return(m) \/ TimeOut(m) \/ SendHeartbeat(m)
        \/ Stop(m) \/ Crash(m) \/ Quiet(m)

Spec == Init /\ [][Next]_vars
-----------------------------------------------------------------------------
(* Properties *)

\* The maps of managers and of their actors, the pending calls and the sockets
\* have the types the two classes declare.
TypeOK ==
    /\ DOMAIN managers \subseteq Manager
    /\ \A m \in DOMAIN managers :
        managers[m].endpoint \in 1..MaxStart[m] /\ managers[m].actors \subseteq Actor
    /\ quiet \subseteq DOMAIN managers
    /\ \A m \in Manager : beating[m] \/ call[m] # NoCall => connected[m]

\* The index from actors to managers is the inverse of the managers' lists of
\* actors, without empty entries, after any sequence of registrations, updates,
\* departures and timeouts (unregister_manager_internal and
\* handle_register_manager keep the two maps in step).
IndexMatches ==
    LET listed(a) == {m \in DOMAIN managers : a \in managers[m].actors}
    IN  /\ DOMAIN actor_to_managers = {a \in Actor : listed(a) # {}}
        /\ \A a \in DOMAIN actor_to_managers : actor_to_managers[a] = listed(a)

\* The maps have their types and are in step, and a manager only waits on a
\* socket it has.
RegistryInv == TypeOK /\ IndexMatches

\* A living manager whose registration was acknowledged can be looked up at its
\* own endpoint, unless the registry timed it out or a request of its earlier
\* process was handled after its own (the heartbeat of an unknown manager is
\* acknowledged and does not bring it back).
AliveListed ==
    \A m \in Manager :
        beating[m] /\ m \notin dropped =>
            m \in DOMAIN managers /\ managers[m].endpoint = inc[m]

\* what lookup_actor of m is about to return, if its call has an answer
Looked(m) ==
    IF call[m].type = "lookup" /\ answer[m] # <<>> THEN {Head(answer[m])} ELSE {}

Answers(r, q) ==
    IF q.type = "lookup" THEN r.type = "result" /\ r.name = q.name ELSE r.type = "ack"

\* lookup_actor takes whatever comes next out of the socket.  How far that is
\* from its own question is exactly what heartbeats, timeouts and overflows
\* have left behind: of the questions whose answers are still to be read, each
\* heartbeat and each timeout puts it one further back, each answer that did
\* not fit one nearer.  So a socket that has seen neither heartbeat nor timeout
\* answers the question itself, and no answer is read twice or passed over.
AnswerLag ==
    \A m \in Manager : \A r \in Looked(m) :
        LET owed == asked[m] \o request[m]
            behind == strays[m] - lost[m]
        IN  /\ behind \in 0..Len(owed) - 1
            /\ Answers(r, owed[Len(owed) - behind])
            /\ strays[m] = 0 => Answers(r, call[m])
=============================================================================
