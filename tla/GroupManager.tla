---------------------------- MODULE GroupManager ----------------------------
(***************************************************************************)
(* actors::coordination::GroupManager: serializes the execution of actors  *)
(* that live in several processes.  A group announces a message with a     *)
(* TOKEN and asks for permission with a REQUEST; the manager grants the    *)
(* permission to the head of a first in, first out queue of tokens, one at *)
(* a time, until the group reports DONE.  Groups that are silent for       *)
(* GROUP_TIMEOUT_SECONDS are unregistered.                                 *)
(*                                                                         *)
(* The manager is one thread, so each handler is one step.  Its state is   *)
(* the record gm, the handlers are functions on it.  The groups are        *)
(* external, for no client of the manager's socket is in the repository:   *)
(* they use the messages of messages.hpp, may crash, restart and be slow.  *)
(* Where messages.hpp and Group.cpp, which uses the same messages with     *)
(* CoordinatorActor, differ on what a group does with an answer, a group   *)
(* here may do either.                                                     *)
(***************************************************************************)
EXTENDS Integers, Sequences, FiniteSets, SequencesExt

CONSTANTS
    GroupOrder,     \* the groups in the order of std::map
    Actor,          \* actors, by full id
    GroupOf,        \* the group part of an actor's id
    NoActor,        \* the empty string
    Pattern,        \* breakpoint patterns: an actor, or a group for "group.*"
    MaxMsg,         \* bound: messages each group handles, by group
    MaxFault        \* bound: crashes, silences of groups that are alive and
                    \* commands of the debugger, a command counting half

Group == ToSet(GroupOrder)

ASSUME GroupAssumption ==
    /\ GroupOrder \in Seq(Group)
    /\ IsFiniteSet(Actor)
    /\ GroupOf \in [Actor -> Group]
    /\ NoActor \notin Actor
    /\ Actor \cap Group = {}
    /\ Pattern \subseteq Actor \cup Group

ASSUME BoundAssumption ==
    MaxMsg \in [Group -> Nat] /\ MaxFault \in Nat

VARIABLES
    gm,         \* the manager's members, its outgoing pipes, and a history of
                \* the permissions it took away (lapsed)
    up,         \* messages on their way to the manager, by group
    st,         \* what each group is doing
    cur,        \* the actor a group waits or runs for
    grant,      \* the sequence number a group runs under
    inc,        \* incarnation of a group's process: its ZeroMQ identity
    left,       \* messages a group may still handle
    crashes, silences, commands,    \* how many there were
    expelled,   \* history: groups that waited or ran when they were unregistered
    orphaned    \* history: groups that crashed while they were not registered

vars == <<gm, up, st, cur, grant, inc, left, crashes, silences, commands,
          expelled, orphaned>>

\* what the manager promises, of its queue and its active permission
Perm == INSTANCE FifoPermission WITH queue <- gm.queue, holder <- gm.active_actor,
                                     None <- NoActor

GroupState == {"off", "registering", "idle", "waiting", "running", "down"}
-----------------------------------------------------------------------------
Spent == 2 * (crashes + silences) + commands
MayFault == Spent + 2 <= 2 * MaxFault
MayCommand == Spent + 1 <= 2 * MaxFault
-----------------------------------------------------------------------------
(* Messages *)

Msg(type, a, n, i) == [type |-> type, actor |-> a, seq |-> n, inc |-> i]

\* send_to_identity: a message to the process with identity i of group g
SendTo(s, g, i, type, a, n) ==
    [s EXCEPT !.down[g] = Append(@, Msg(type, a, n, i))]
-----------------------------------------------------------------------------
(* The manager's helpers *)

Touch(s, g) == [s EXCEPT !.seen = @ \cup {g}, !.silent = @ \ {g}]

MatchesBreakpoint(s, a) == a \in s.breakpoints \/ GroupOf[a] \in s.breakpoints

\* the permission goes to the head of the queue, whose request is pending
GrantHead(s) ==
    LET a == Head(s.queue)
        n == s.global_sequence + 1
        t == [s EXCEPT !.active = n, !.active_actor = a, !.global_sequence = n,
                       !.queue = Tail(@), !.pending[a] = 0]
    IN  SendTo(t, GroupOf[a], s.pending[a], "GRANT", a, n)

\* mutant: a stop of the debugger does not hold the next grant back
TryGrantNextStopped(s) ==
    IF \/ s.active # 0
       \/ s.queue = <<>>
       \/ s.shutting_down
       \/ s.pending[Head(s.queue)] = 0
       \/ MatchesBreakpoint(s, Head(s.queue))
    THEN s
    ELSE GrantHead(s)

TryGrantNext(s) ==
    IF \/ s.active # 0
       \/ s.queue = <<>>
       \/ s.shutting_down
       \/ s.debug_stopped
       \/ s.pending[Head(s.queue)] = 0
    THEN s
    ELSE LET a == Head(s.queue)
         IN  IF MatchesBreakpoint(s, a)
             THEN SendTo([s EXCEPT !.debug_stopped = TRUE],
                         GroupOf[a], s.pending[a], "WAIT", a, 0)
             ELSE GrantHead(s)

\* SHUTDOWN to all registered groups; with none there is nothing to wait for
SendShutdown(s) ==
    LET acks == s.pending_acks \cup s.registered
    IN  [s EXCEPT
            !.pending_acks = acks,
            !.running = acks # {},
            !.down = [g \in Group |->
                IF g \in s.registered
                THEN Append(@[g], Msg("SHUTDOWN", NoActor, 0, s.identity[g]))
                ELSE @[g]]]

InitiateShutdown(s) ==
    LET t == [s EXCEPT !.shutting_down = TRUE]
    IN  IF s.active = 0 /\ s.queue = <<>> THEN SendShutdown(t) ELSE t

\* mutant: the permission of a group that is gone stays with it
UnregisterGroupHeld(s, g) ==
    LET mine == {a \in s.actors : GroupOf[a] = g}
    IN  TryGrantNext(
            [s EXCEPT
                !.actors = @ \ mine,
                !.pending = [a \in Actor |-> IF a \in mine THEN 0 ELSE @[a]],
                !.queue = Perm!Without(@, {g}),
                !.registered = @ \ {g},
                !.identity[g] = 0,
                !.seen = @ \ {g},
                !.silent = @ \ {g},
                !.pending_acks = @ \ {g}])

UnregisterGroup(s, g) ==
    LET mine == {a \in s.actors : GroupOf[a] = g}
        held == s.active # 0 /\ GroupOf[s.active_actor] = g
    IN  TryGrantNext(
            [s EXCEPT
                !.actors = @ \ mine,
                !.pending = [a \in Actor |-> IF a \in mine THEN 0 ELSE @[a]],
                !.queue = Perm!Without(@, {g}),
                !.active = IF held THEN 0 ELSE @,
                !.active_actor = IF held THEN NoActor ELSE @,
                !.lapsed = IF held THEN @ \cup {s.active} ELSE @,
                !.registered = @ \ {g},
                !.identity[g] = 0,
                !.seen = @ \ {g},
                !.silent = @ \ {g},
                !.pending_acks = @ \ {g}])
-----------------------------------------------------------------------------
(* The manager's handlers of the groups' messages *)

HandleRegisterGroup(s, g, m) ==
    IF s.shutting_down \/ g \in s.registered
    THEN SendTo(s, g, m.inc, "NACK", NoActor, 0)
    ELSE SendTo(Touch([s EXCEPT !.registered = @ \cup {g}, !.identity[g] = m.inc], g),
                g, m.inc, "ACK", NoActor, 0)

HandleRegisterActor(s, g, m) ==
    IF s.shutting_down \/ g \notin s.registered \/ m.actor \in s.actors
    THEN SendTo(s, g, m.inc, "NACK", m.actor, 0)
    ELSE SendTo([s EXCEPT !.actors = @ \cup {m.actor}], g, m.inc, "ACK", m.actor, 0)

HandlePermissionToken(s, g, m) ==
    IF s.shutting_down
    THEN s
    ELSE TryGrantNext([Touch(s, g) EXCEPT !.queue = Append(@, m.actor)])

\* mutant: a request is granted wherever its token stands in the queue
HandlePermissionRequestAny(s, g, m) ==
    LET a == m.actor
        n == s.global_sequence + 1
        t == Touch([s EXCEPT !.pending[a] = m.inc], g)
    IN  IF t.debug_stopped \/ t.active # 0 \/ a \notin ToSet(t.queue) \/ MatchesBreakpoint(t, a)
        THEN SendTo(t, g, m.inc, "WAIT", a, 0)
        ELSE SendTo([t EXCEPT !.queue = RemoveFirst(@, a), !.active = n,
                              !.active_actor = a, !.global_sequence = n,
                              !.pending[a] = 0],
                    g, m.inc, "GRANT", a, n)

HandlePermissionRequest(s, g, m) ==
    LET a == m.actor
        t == Touch([s EXCEPT !.pending[a] = m.inc], g)
        wait(u) == SendTo(u, g, m.inc, "WAIT", a, 0)
        mayRun == /\ ~t.debug_stopped
                  /\ t.queue # <<>>
                  /\ Head(t.queue) = a
                  /\ t.active = 0
    IN  IF ~mayRun
        THEN wait(t)
        ELSE IF MatchesBreakpoint(t, a)
             THEN wait([t EXCEPT !.debug_stopped = TRUE])
             ELSE GrantHead(t)

\* mutant: a DONE is not compared with the permission that is active
HandlePermissionDoneAny(s, g, m) ==
    LET u == [Touch(s, g) EXCEPT !.active = 0, !.active_actor = NoActor]
    IN  IF u.shutting_down /\ u.queue = <<>> THEN SendShutdown(u) ELSE TryGrantNext(u)

\* mutant: the last DONE of a shutdown does not tell the groups
HandlePermissionDoneQuiet(s, g, m) ==
    LET t == Touch(s, g)
    IN  IF t.active = 0 \/ t.active # m.seq \/ t.active_actor # m.actor
        THEN t
        ELSE TryGrantNext([t EXCEPT !.active = 0, !.active_actor = NoActor])

HandlePermissionDone(s, g, m) ==
    LET t == Touch(s, g)
        u == [t EXCEPT !.active = 0, !.active_actor = NoActor]
    IN  IF t.active = 0 \/ t.active # m.seq \/ t.active_actor # m.actor
        THEN t
        ELSE IF u.shutting_down /\ u.queue = <<>>
             THEN SendShutdown(u)
             ELSE TryGrantNext(u)

HandleShutdownRequest(s) == IF s.shutting_down THEN s ELSE InitiateShutdown(s)

HandleShutdownAck(s, g) ==
    LET acks == s.pending_acks \ {g}
    IN  [s EXCEPT !.pending_acks = acks, !.running = @ /\ acks # {}]

HandleMessage(s, g, m) ==
    CASE m.type = "REGISTER_GROUP"   -> HandleRegisterGroup(s, g, m)
      [] m.type = "REGISTER_ACTOR"   -> HandleRegisterActor(s, g, m)
      [] m.type = "TOKEN"            -> HandlePermissionToken(s, g, m)
      [] m.type = "REQUEST"          -> HandlePermissionRequest(s, g, m)
      [] m.type = "DONE"             -> HandlePermissionDone(s, g, m)
      [] m.type = "SHUTDOWN_REQUEST" -> HandleShutdownRequest(s)
      [] m.type = "SHUTDOWN_ACK"     -> HandleShutdownAck(s, g)
-----------------------------------------------------------------------------
(* The manager's loop *)

\* all groups have registered; --paused starts the manager stopped
Init ==
    /\ \E paused \in BOOLEAN :
        gm = [registered |-> Group, actors |-> Actor, identity |-> [g \in Group |-> 1],
              queue |-> <<>>, active |-> 0, active_actor |-> NoActor,
              global_sequence |-> 0, pending |-> [a \in Actor |-> 0],
              running |-> TRUE, shutting_down |-> FALSE, pending_acks |-> {},
              debug_stopped |-> paused, breakpoints |-> {},
              seen |-> Group, silent |-> {}, lapsed |-> {},
              down |-> [g \in Group |-> <<>>]]
    /\ up = [g \in Group |-> <<>>]
    /\ st = [g \in Group |-> "idle"]
    /\ cur = [g \in Group |-> NoActor]
    /\ grant = [g \in Group |-> 0]
    /\ inc = [g \in Group |-> 1]
    /\ left = MaxMsg
    /\ crashes = 0 /\ silences = 0 /\ commands = 0
    /\ expelled = {}
    /\ orphaned = {}

\* the next message of group g
Receive(g) ==
    /\ gm.running
    /\ up[g] # <<>>
    /\ up' = [up EXCEPT ![g] = Tail(@)]
    /\ gm' = HandleMessage(gm, g, Head(up[g]))
    /\ UNCHANGED <<st, cur, grant, inc, left, crashes, silences, commands,
                   expelled, orphaned>>

\* every 5 seconds: the groups not heard of for GROUP_TIMEOUT_SECONDS
CheckStaleGroups ==
    LET swept[i \in 0..Len(GroupOrder)] ==
            IF i = 0 THEN gm
            ELSE IF GroupOrder[i] \in gm.silent
                 THEN UnregisterGroup(swept[i - 1], GroupOrder[i])
                 ELSE swept[i - 1]
    IN  /\ gm.running
        /\ gm.silent # {}
        /\ gm' = swept[Len(GroupOrder)]
        /\ expelled' = expelled \cup {g \in gm.silent : st[g] \in {"waiting", "running"}}
        /\ UNCHANGED <<up, st, cur, grant, inc, left, crashes, silences, commands,
                       orphaned>>

\* SIGINT or SIGTERM
Signal ==
    /\ gm.running
    /\ ~gm.shutting_down
    /\ gm' = InitiateShutdown(gm)
    /\ UNCHANGED <<up, st, cur, grant, inc, left, crashes, silences, commands,
                   expelled, orphaned>>

\* a command of the debugger
Console(s) ==
    /\ gm.running
    /\ MayCommand
    /\ gm' = s
    /\ commands' = commands + 1
    /\ UNCHANGED <<up, st, cur, grant, inc, left, crashes, silences, expelled,
                   orphaned>>

DebugStop == Console([gm EXCEPT !.debug_stopped = TRUE])

DebugContinue == Console(TryGrantNext([gm EXCEPT !.debug_stopped = FALSE]))

DebugAddBreakpoint(p) == Console([gm EXCEPT !.breakpoints = @ \cup {p}])

DebugRemoveBreakpoint(p) ==
    /\ p \in gm.breakpoints
    /\ Console([gm EXCEPT !.breakpoints = @ \ {p}])
-----------------------------------------------------------------------------
(* The groups *)

\* group g sends the messages ms and is then in state s
ClientSend(g, s, ms) ==
    /\ up' = [up EXCEPT ![g] = @ \o ms]
    /\ st' = [st EXCEPT ![g] = s]

\* a process starts: it registers its group and the group's actors
Connect(g) ==
    /\ st[g] = "off"
    /\ up[g] = <<>>
    /\ gm.down[g] = <<>>
    /\ LET mine == SetToSeq({a \in Actor : GroupOf[a] = g})
       IN  ClientSend(g, "registering",
               <<Msg("REGISTER_GROUP", NoActor, 0, inc[g])>> \o
               [i \in DOMAIN mine |-> Msg("REGISTER_ACTOR", mine[i], 0, inc[g])])
    /\ UNCHANGED <<gm, cur, grant, inc, left, crashes, silences, commands, expelled,
                   orphaned>>

\* a message for actor a: announced by a token, then permission is asked for
Ask(g, a) ==
    /\ st[g] = "idle"
    /\ GroupOf[a] = g
    /\ left[g] > 0
    /\ ClientSend(g, "waiting", <<Msg("TOKEN", a, 0, inc[g]), Msg("REQUEST", a, 0, inc[g])>>)
    /\ cur' = [cur EXCEPT ![g] = a]
    /\ left' = [left EXCEPT ![g] = @ - 1]
    /\ UNCHANGED <<gm, grant, inc, crashes, silences, commands, expelled, orphaned>>

\* the actor's handler returns
Finish(g) ==
    /\ st[g] = "running"
    /\ ClientSend(g, "idle", <<Msg("DONE", cur[g], grant[g], inc[g])>>)
    /\ cur' = [cur EXCEPT ![g] = NoActor]
    /\ grant' = [grant EXCEPT ![g] = 0]
    /\ UNCHANGED <<gm, inc, left, crashes, silences, commands, expelled, orphaned>>

\* an actor ends the simulation
RequestShutdown(g) ==
    /\ st[g] = "idle"
    /\ left[g] = 0
    /\ ~gm.shutting_down
    /\ \A i \in DOMAIN up[g] : up[g][i].type # "SHUTDOWN_REQUEST"
    /\ ClientSend(g, "idle", <<Msg("SHUTDOWN_REQUEST", NoActor, 0, inc[g])>>)
    /\ UNCHANGED <<gm, cur, grant, inc, left, crashes, silences, commands, expelled,
                   orphaned>>

\* The manager's answers; one for an earlier incarnation is not routed.  A
\* group that is told to WAIT asks again (messages.hpp) or leaves it at that
\* (Group.cpp), one that is told to SHUTDOWN goes down with an ACK
\* (messages.hpp) or has no handler for it (Group.cpp).
ClientReceive(g) == \E obeys \in BOOLEAN :
    /\ gm.down[g] # <<>>
    /\ LET m == Head(gm.down[g])
           mine == m.inc = inc[g]
           answers == mine /\ st[g] = "registering" /\ m.actor = NoActor
           granted == mine /\ m.type = "GRANT" /\ st[g] = "waiting" /\ cur[g] = m.actor
           retry == /\ mine /\ m.type = "WAIT" /\ obeys
                    /\ st[g] = "waiting" /\ cur[g] = m.actor
           quits == mine /\ m.type = "SHUTDOWN" /\ obeys
       IN  /\ gm' = [gm EXCEPT !.down[g] = Tail(@)]
           /\ st' = [st EXCEPT ![g] =
                  CASE m.type = "ACK" /\ answers -> "idle"
                    [] m.type = "NACK" /\ answers -> "off"
                    [] quits -> "down"
                    [] granted -> "running"
                    [] OTHER -> @]
           /\ grant' = [grant EXCEPT ![g] =
                  IF granted THEN m.seq ELSE IF st'[g] = "down" THEN 0 ELSE @]
           /\ cur' = [cur EXCEPT ![g] = IF st'[g] = "down" THEN NoActor ELSE @]
           /\ up' = [up EXCEPT ![g] =
                  IF retry THEN Append(@, Msg("REQUEST", m.actor, 0, inc[g]))
                  ELSE IF quits
                  THEN Append(@, Msg("SHUTDOWN_ACK", NoActor, 0, inc[g]))
                  ELSE @]
    /\ UNCHANGED <<inc, left, crashes, silences, commands, expelled, orphaned>>

\* the process dies: what it had sent last may be lost with it
Crash(g) ==
    /\ MayFault
    /\ st[g] \in {"registering", "idle", "waiting", "running"}
    /\ crashes' = crashes + 1
    /\ st' = [st EXCEPT ![g] = "off"]
    /\ cur' = [cur EXCEPT ![g] = NoActor]
    /\ grant' = [grant EXCEPT ![g] = 0]
    /\ inc' = [inc EXCEPT ![g] = @ + 1]
    /\ gm' = [gm EXCEPT !.down[g] = <<>>]
    /\ \E n \in 0..Len(up[g]) : up' = [up EXCEPT ![g] = SubSeq(@, 1, n)]
    /\ orphaned' = IF g \in gm.registered THEN orphaned ELSE orphaned \cup {g}
    /\ UNCHANGED <<left, silences, commands, expelled>>

\* more than GROUP_TIMEOUT_SECONDS pass without a message from group g
Silence(g) ==
    /\ g \in gm.seen \ gm.silent
    /\ \A i \in DOMAIN up[g] : up[g][i].type \in {"REGISTER_GROUP", "REGISTER_ACTOR"}
    /\ \/ /\ st[g] \in {"off", "registering", "down"}
          /\ UNCHANGED silences
       \/ /\ st[g] \in {"idle", "waiting", "running"}
          /\ MayFault
          /\ silences' = silences + 1
    /\ gm' = [gm EXCEPT !.silent = @ \cup {g}]
    /\ UNCHANGED <<up, st, cur, grant, inc, left, crashes, commands, expelled, orphaned>>
-----------------------------------------------------------------------------
Manager ==
    \/ \E g \in Group : Receive(g)
    \/ CheckStaleGroups
    \/ Signal
    \/ DebugStop
    \/ DebugContinue
    \/ \E p \in Pattern : DebugAddBreakpoint(p) \/ DebugRemoveBreakpoint(p)

Client(g) ==
    \/ Connect(g)
    \/ \E a \in Actor : Ask(g, a)
    \/ Finish(g)
    \/ RequestShutdown(g)
    \/ ClientReceive(g)

Next ==
    \/ Manager
    \/ \E g \in Group : Client(g) \/ Crash(g) \/ Silence(g)

\* The manager polls its socket and its clock for ever; a group that lives
\* reads its answers and returns from its handlers; a dead one stays silent.
Fairness ==
    /\ WF_vars(CheckStaleGroups)
    /\ \A g \in Group :
        /\ WF_vars(Receive(g))
        /\ WF_vars(ClientReceive(g) \/ Finish(g))
        /\ WF_vars(st[g] \in {"off", "registering"} /\ Silence(g))

Spec == Init /\ [][Next]_vars /\ Fairness
-----------------------------------------------------------------------------
(* Properties *)

MsgType ==
    {"REGISTER_GROUP", "REGISTER_ACTOR", "TOKEN", "REQUEST", "DONE",
     "SHUTDOWN_REQUEST", "SHUTDOWN_ACK", "ACK", "NACK", "GRANT", "WAIT", "SHUTDOWN"}

Message ==
    [type : MsgType, actor : Actor \cup {NoActor}, seq : Nat, inc : Nat]

\* The members of the manager and of the groups have the types declared in
\* GroupManager.hpp; a permission is active for an actor or not at all.
TypeOK ==
    /\ gm.registered \subseteq Group /\ gm.actors \subseteq Actor
    /\ gm.identity \in [Group -> Nat] /\ gm.pending \in [Actor -> Nat]
    /\ gm.queue \in Seq(Actor)
    /\ gm.active \in 0..gm.global_sequence
    /\ gm.active_actor \in Actor \cup {NoActor}
    /\ gm.active = 0 <=> gm.active_actor = NoActor
    /\ gm.pending_acks \subseteq gm.registered
    /\ gm.breakpoints \subseteq Pattern
    /\ gm.registered \subseteq gm.seen /\ gm.silent \subseteq gm.seen
    /\ up \in [Group -> Seq(Message)] /\ gm.down \in [Group -> Seq(Message)]
    /\ st \in [Group -> GroupState]
    /\ cur \in [Group -> Actor \cup {NoActor}] /\ grant \in [Group -> Nat]

\* Only one actor across all groups executes at a time (messages.hpp on
\* PermissionRequest): a group that runs holds the active permission, unless
\* that was taken from it because it was silent for too long.  A late DONE, a
\* retried REQUEST or a restart of the group must not pass it on.
HolderActive ==
    \A g \in Group :
        st[g] = "running" /\ grant[g] \notin gm.lapsed =>
            gm.active = grant[g] /\ gm.active_actor = cur[g]

\* Queue, groups and grants keep their types, and the group that runs holds the permission.
PermissionInv == TypeOK /\ HolderActive

\* The queue of tokens and the active permission are a first in, first out
\* lock: whatever the order of tokens, requests, timeouts and debugger
\* commands, the permission goes to the oldest token, and to one at a time.
FifoPermissionSpec == Perm!Spec

\* While the debugger has stopped the system no permission is granted, not by
\* a request, a DONE, or a group that is unregistered (try_grant_next and
\* handle_permission_request).
StopHolds ==
    [][gm.debug_stopped /\ gm'.debug_stopped =>
           gm'.global_sequence = gm.global_sequence]_vars

\* A group that waits for permission gets it: tokens whose group has crashed,
\* also while it held the permission, are cleared away by the timeout.  The
\* exceptions are a stop of the debugger, a shutdown, being unregistered for
\* silence while waiting or running, and the crash of a group that was not
\* registered, whose token the timeout does not find once it is back.
WaitersServed ==
    \A g \in Group :
        st[g] = "waiting" ~>
            \/ st[g] # "waiting"
            \/ gm.debug_stopped \/ gm.shutting_down \/ ~gm.running
            \/ expelled # {} \/ orphaned # {}

\* During a shutdown no permission is granted proactively any more: the queue
\* drains only as the group at its head asks again, and the last DONE tells
\* the groups to SHUTDOWN.  So whatever the groups make of WAIT and SHUTDOWN,
\* a shutdown is announced or ends, or what holds it up is a group that waits
\* at the head of the queue of a free manager; a crash or a group that is
\* unregistered for its silence may leave it undone.
ShutdownAnnounced ==
    gm.shutting_down ~>
        \/ gm.pending_acks # {} \/ ~gm.running
        \/ /\ gm.active = 0 /\ gm.queue # <<>>
           /\ st[GroupOf[Head(gm.queue)]] = "waiting"
        \/ crashes + silences > 0
=============================================================================
