------------------------------ MODULE ChatServer ------------------------------
(***************************************************************************)
(* The chat server of hw/server.cpp with its clients (hw/client.cpp).      *)
(* Main waits until fewer than MaxClients users are live, accepts a        *)
(* connection and starts a detached thread that logs the client in under a *)
(* name and relays its messages to everybody else.                         *)
(*                                                                         *)
(* `users' is shared by all threads without a lock: a state in which two   *)
(* threads are at it and one of them writes is a data race.  Of the        *)
(* outcomes of a race the model has two: the operations take effect one    *)
(* after the other, or the process dies (Crash).                           *)
(*                                                                         *)
(* A connection stands for one run of the client.  Sockets are descriptor  *)
(* numbers: accept takes the lowest free one, and a number closed twice    *)
(* may by then belong to somebody else.  What one recv returns is one      *)
(* message: several sent quickly and received as one string are the same   *)
(* to the server as one other text, typed at once.                         *)
(***************************************************************************)
EXTENDS Integers, Sequences, FiniteSets, FiniteSetsExt

CONSTANTS
  Conns,           \* the runs of the client
  NamesOf,         \* the names the user of each connection may type
  MaxClients,      \* options.max_concurrent_clients
  HasTimeout,      \* whether options.timeout is other than -1
  MaxEvents        \* bound: messages and empty lines typed, clients killed
                   \* and Ctrl+C hit, in all

Names == UNION {NamesOf[c] : c \in Conns}

ASSUME ChatAssumption ==
  /\ IsFiniteSet(Conns) /\ Conns \subseteq Nat \ {0}
  /\ IsFiniteSet(Names) /\ Names \subseteq Nat \ {0}
  /\ MaxClients \in Nat \ {0}
  /\ HasTimeout \in BOOLEAN
  /\ MaxEvents \in Nat

NoConn == 0

VARIABLES
  main_pc, running, live_users, listening, accepted, events,
  main_pos, main_visiting,         \* the shutdown loop: the next key, and
                                   \* the client it has read
  users,                           \* the map, and
  owner,                           \* whose connection each descriptor is
  backlog, peer, inbox, typed, link,   \* the clients' side
  handler,                         \* where the thread of handle_client is
  sock, name, is_online, deleted,  \* struct Client
  pos, visiting,                   \* the loop of broadcast
  refused, replaced                \* history: the clients whose name was taken,
                                   \* the names whose entry was written over

flags == <<running, listening, accepted, events, main_pos, main_visiting>>
main_vars == <<main_pc, flags>>
peer_vars == <<backlog, peer, inbox, typed, link>>
history == <<refused, replaced>>
client_vars == <<sock, name, is_online, deleted, refused, replaced>>
loop_vars == <<pos, visiting>>
all_but_handler ==
  <<main_vars, live_users, users, owner, peer_vars, client_vars, loop_vars>>
vars == <<handler, all_but_handler>>

Fds == 1 .. Cardinality(Conns)
Up == main_pc \notin {"exited", "killed", "crashed"}
Registered == {n \in Names : users[n] # NoConn}
KeysFrom(k) == {n \in Registered : n >= k}
Lines == {"list", "bye", "text"}
Broadcasting == {"joined", "text", "left"}

Init ==
  /\ main_pc = "pred" /\ running = TRUE /\ listening = "open"
  /\ accepted = NoConn /\ events = 0
  /\ main_pos = 0 /\ main_visiting = NoConn
  /\ live_users = 0
  /\ users = [n \in Names |-> NoConn]
  /\ owner = [f \in Fds |-> NoConn]
  /\ backlog = <<>>
  /\ peer = [c \in Conns |-> "new"]
  /\ inbox = [c \in Conns |-> "empty"]
  /\ typed = [c \in Conns |-> 0]
  /\ link = [c \in Conns |-> "up"]
  /\ handler = [c \in Conns |-> "none"]
  /\ sock = [c \in Conns |-> 0]
  /\ name = [c \in Conns |-> 0]
  /\ is_online = [c \in Conns |-> FALSE]
  /\ deleted = {}
  /\ pos = [c \in Conns |-> 0]
  /\ visiting = [c \in Conns |-> NoConn]
  /\ refused = {} /\ replaced = {}
-----------------------------------------------------------------------------
(* Sockets *)

(* Whose connection descriptor f is now: after a close, nobody's or that   *)
(* of the connection accepted since.                                       *)
At(f) == IF f = 0 THEN NoConn ELSE owner[f]

(* The client reads that its connection is closed, and stops the chat; what *)
(* it sends until then is lost.                                             *)
ClientStops(c) ==
  /\ peer' = [peer EXCEPT ![c] = "gone"]
  /\ inbox' = [inbox EXCEPT ![c] = "empty"]
  /\ link' = [link EXCEPT ![c] = "fin"]

CloseSock(f) ==
  LET d == At(f)
  IN  \/ /\ d = NoConn
         /\ UNCHANGED <<owner, peer, inbox, link>>
      \/ /\ d # NoConn
         /\ owner' = [owner EXCEPT ![f] = NoConn]
         /\ ClientStops(d)

(* notify_all: a notification nobody waits for is lost. *)
NotifyAll == main_pc' = IF main_pc = "asleep" THEN "pred" ELSE main_pc

(* send_message: to a client that is gone, the first one makes its kernel  *)
(* answer with a reset, and the next one raises SIGPIPE, which nobody      *)
(* handles.                                                                *)
SendTo(f) ==
  LET d == At(f)
  IN  \/ /\ d # NoConn => link[d] = "up"
         /\ UNCHANGED <<link, main_pc>>
      \/ /\ d # NoConn /\ link[d] = "fin"
         /\ \E l \in {"fin", "epipe"} : link' = [link EXCEPT ![d] = l]
         /\ UNCHANGED main_pc
      \/ /\ d # NoConn /\ link[d] = "epipe"
         /\ main_pc' = "killed"
         /\ UNCHANGED link
-----------------------------------------------------------------------------
(* Main *)

MainGo(from, to) == main_pc = from /\ main_pc' = to

(* Mutant: line 184 with <= for <. *)
CanAcceptOneMore == ~running \/ live_users <= MaxClients

(* The predicate of wait_till_can_accept *)
CanAccept == ~running \/ live_users < MaxClients

(* The head of main's loop: the predicate is evaluated, *)
MainPredicate ==
  /\ main_pc = "pred"
  /\ main_pc' = IF ~CanAccept THEN "falling"
                ELSE IF running THEN "accept" ELSE "closing"
  /\ UNCHANGED <<flags, live_users, users, owner, peer_vars, handler,
                 client_vars, loop_vars>>

(* and only then does the thread begin to wait: those who change what the  *)
(* predicate reads do not take accept_ready_m.                             *)
MainSleep ==
  /\ MainGo("falling", "asleep")
  /\ UNCHANGED <<flags, live_users, users, owner, peer_vars, handler,
                 client_vars, loop_vars>>

SpuriousWakeup ==
  /\ MainGo("asleep", "pred")
  /\ UNCHANGED <<flags, live_users, users, owner, peer_vars, handler,
                 client_vars, loop_vars>>

(* Client::wait: accept fails once the socket is shut down. *)
MainAccept ==
  /\ \/ /\ backlog # <<>> /\ listening = "open"
        /\ MainGo("accept", "start")
        /\ LET c == Head(backlog)
               f == Min({g \in Fds : owner[g] = NoConn})
           IN  /\ accepted' = c
               /\ sock' = [sock EXCEPT ![c] = f]
               /\ owner' = [owner EXCEPT ![f] = c]
        /\ backlog' = Tail(backlog)
     \/ /\ listening = "shut"
        /\ MainGo("accept", "pred")
        /\ UNCHANGED <<accepted, sock, owner, backlog>>
  /\ UNCHANGED <<running, listening, events, main_pos, main_visiting,
                 live_users, users, peer, inbox, typed, link, handler, name,
                 is_online, deleted, history, loop_vars>>

(* The client is counted. *)
MainCount ==
  /\ MainGo("start", "counted")
  /\ live_users' = live_users + 1
  /\ UNCHANGED <<flags, users, owner, peer_vars, handler, client_vars,
                 loop_vars>>

(* Its thread is started, or cannot be, which nobody catches; or, when the *)
(* server is stopping, the client is closed.  Nobody reads the count any   *)
(* more when main lowers it, so that its close_ is one step.               *)
MainStart ==
  /\ \/ /\ running
        /\ \/ /\ MainGo("counted", "pred")
              /\ handler' = [handler EXCEPT ![accepted] = "welcome"]
           \/ /\ MainGo("counted", "crashed")
              /\ UNCHANGED handler
        /\ UNCHANGED <<live_users, owner, peer, inbox, link>>
     \/ /\ ~running
        /\ MainGo("counted", "closing")
        /\ live_users' = live_users - 1
        /\ CloseSock(sock[accepted])
        /\ UNCHANGED handler
  /\ accepted' = NoConn
  /\ UNCHANGED <<running, listening, events, main_pos, main_visiting, users,
                 backlog, typed, client_vars, loop_vars>>

(* The shutdown loop reads the next entry of the map, *)
MainVisit ==
  /\ main_pc = "closing" /\ main_visiting = NoConn
  /\ KeysFrom(main_pos) # {}
  /\ LET n == Min(KeysFrom(main_pos))
     IN  main_pos' = n + 1 /\ main_visiting' = users[n]
  /\ UNCHANGED <<main_pc, running, listening, accepted, events, live_users,
                 users, owner, peer_vars, handler, client_vars, loop_vars>>

(* and closes the client it found there; *)
MainClose ==
  /\ main_pc = "closing" /\ main_visiting # NoConn
  /\ live_users' = live_users - 1
  /\ CloseSock(sock[main_visiting])
  /\ main_visiting' = NoConn
  /\ UNCHANGED <<main_pc, running, listening, accepted, events, main_pos,
                 users, backlog, typed, handler, client_vars, loop_vars>>

(* then main returns. *)
MainExit ==
  /\ main_visiting = NoConn /\ KeysFrom(main_pos) = {}
  /\ MainGo("closing", "exited")
  /\ UNCHANGED <<flags, live_users, users, owner, peer_vars, handler,
                 client_vars, loop_vars>>

MainStep ==
  \/ MainPredicate \/ MainSleep \/ MainAccept \/ MainCount \/ MainStart
  \/ MainVisit \/ MainClose \/ MainExit

(* Mutant: the listening socket left open (line 195). *)
InterruptNoShutdown ==
  /\ Up
  /\ events < MaxEvents
  /\ events' = events + 1
  /\ running' = FALSE
  /\ NotifyAll
  /\ UNCHANGED <<listening, peer, backlog, accepted, main_pos, main_visiting,
                 live_users, users, owner, inbox, typed, link, handler,
                 client_vars, loop_vars>>

(* handle_sig, on the main thread.  The connections that wait to be        *)
(* accepted are reset.                                                     *)
Interrupt ==
  /\ Up
  /\ events < MaxEvents
  /\ events' = events + 1
  /\ running' = FALSE
  /\ NotifyAll
  /\ listening' = "shut"
  /\ peer' = [c \in Conns |-> IF \E n \in DOMAIN backlog : backlog[n] = c
                              THEN "gone" ELSE peer[c]]
  /\ backlog' = <<>>
  /\ UNCHANGED <<accepted, main_pos, main_visiting, live_users, users, owner,
                 inbox, typed, link, handler, client_vars, loop_vars>>
-----------------------------------------------------------------------------
(* handle_client *)

HandlerGo(c, from, to) ==
  Up /\ handler[c] = from /\ handler' = [handler EXCEPT ![c] = to]

(* The welcome message, with the list of users. *)
HandlerWelcome(c) ==
  /\ HandlerGo(c, "welcome", "name")
  /\ SendTo(sock[c])
  /\ LET d == At(sock[c])
     IN  peer' = IF d # NoConn /\ peer[d] = "connected"
                 THEN [peer EXCEPT ![d] = "prompt"] ELSE peer
  /\ UNCHANGED <<flags, live_users, users, owner, backlog, inbox, typed,
                 client_vars, loop_vars>>

(* get_message: what the client sent, or, as an empty string, that there   *)
(* is nobody to read from or that the wait timed out.                      *)
Received(c) == inbox[At(sock[c])]
Receive(c) ==
  /\ At(sock[c]) # NoConn /\ Received(c) # "empty"
  /\ inbox' = [inbox EXCEPT ![At(sock[c])] = "empty"]
NothingToRead(c) ==
  LET d == At(sock[c]) IN d # NoConn => inbox[d] = "empty" /\ peer[d] = "gone"
TimesOut(c) ==
  LET d == At(sock[c]) IN HasTimeout /\ d # NoConn /\ inbox[d] = "empty"

(* The first message is the name.  An empty one, timed out or not, takes   *)
(* the thread elsewhere.                                                   *)
NameOr(c, elsewhere) ==
  /\ \/ /\ Receive(c)
        /\ HandlerGo(c, "name", "check")
        /\ \E n \in IF Received(c) = "name" THEN {typed[At(sock[c])]} ELSE Names :
             name' = [name EXCEPT ![c] = n]
     \/ /\ NothingToRead(c) \/ TimesOut(c)
        /\ HandlerGo(c, "name", elsewhere)
        /\ UNCHANGED <<inbox, name>>
  /\ UNCHANGED <<main_vars, live_users, users, owner, backlog, peer, typed,
                 link, sock, is_online, deleted, history, loop_vars>>

(* Mutant: the return of line 281 forgotten. *)
HandlerNameOrGoOn(c) == NameOr(c, "refused")

(* It ends the thread: line 283 is never reached with timed_out set. *)
HandlerName(c) == NameOr(c, "close")

(* register_client: users.count, *)
HandlerCheck(c) ==
  /\ \/ /\ HandlerGo(c, "check", "insert")
        /\ users[name[c]] = NoConn
        /\ UNCHANGED refused
     \/ /\ HandlerGo(c, "check", "refused")
        /\ users[name[c]] # NoConn
        /\ refused' = refused \cup {c}
  /\ UNCHANGED <<main_vars, live_users, users, owner, peer_vars, sock, name,
                 is_online, deleted, replaced, loop_vars>>

(* then users[name] = client, which replaces an entry made meanwhile, *)
HandlerInsert(c) ==
  /\ HandlerGo(c, "insert", "online")
  /\ users' = [users EXCEPT ![name[c]] = c]
  /\ replaced' = IF users[name[c]] = NoConn THEN replaced
                 ELSE replaced \cup {name[c]}
  /\ UNCHANGED <<main_vars, live_users, owner, peer_vars, sock, name, is_online,
                 deleted, refused, loop_vars>>

(* and the client is on line. *)
HandlerOnline(c) ==
  /\ HandlerGo(c, "online", "joined")
  /\ is_online' = [is_online EXCEPT ![c] = TRUE]
  /\ UNCHANGED <<main_vars, live_users, users, owner, peer_vars, sock, name,
                 deleted, history, loop_vars>>

(* close_: the count goes down, *)
CountDown(c, from, to) ==
  /\ HandlerGo(c, from, to)
  /\ live_users' = live_users - 1
  /\ UNCHANGED <<main_vars, users, owner, peer_vars, client_vars, loop_vars>>

(* then main is notified and the descriptor closed. *)
NotifyAndClose(c, from, to) ==
  /\ HandlerGo(c, from, to)
  /\ NotifyAll
  /\ CloseSock(sock[c])
  /\ UNCHANGED <<flags, live_users, users, backlog, typed, sock, name,
                 is_online, history, loop_vars>>

(* The name is taken: the client is closed, and the thread goes on. *)
HandlerRefuse(c) ==
  \/ CountDown(c, "refused", "refused_notify")
  \/ /\ NotifyAndClose(c, "refused_notify", "joined")
     /\ UNCHANGED deleted

(* broadcast: the next entry of the map, in the order of its keys, *)
BroadcastNext(c) ==
  /\ Up /\ handler[c] \in Broadcasting
  /\ visiting[c] = NoConn
  /\ KeysFrom(pos[c]) # {}
  /\ LET n == Min(KeysFrom(pos[c]))
     IN  /\ pos' = [pos EXCEPT ![c] = n + 1]
         /\ visiting' = [visiting EXCEPT ![c] =
                           IF users[n] = c THEN NoConn ELSE users[n]]
  /\ UNCHANGED <<main_vars, live_users, users, owner, peer_vars, handler,
                 client_vars>>

(* is sent the message, unless it is the sender's own. *)
BroadcastSend(c) ==
  /\ Up /\ handler[c] \in Broadcasting
  /\ visiting[c] # NoConn
  /\ SendTo(sock[visiting[c]])
  /\ visiting' = [visiting EXCEPT ![c] = NoConn]
  /\ UNCHANGED <<flags, live_users, users, owner, backlog, peer, inbox, typed,
                 handler, client_vars, pos>>

(* Mutant: the loop of line 295 tests is_online after its first turn, so   *)
(* that a refused client has one.                                          *)
BroadcastEndAnyway(c) ==
  /\ Up /\ handler[c] \in Broadcasting
  /\ visiting[c] = NoConn
  /\ KeysFrom(pos[c]) = {}
  /\ pos' = [pos EXCEPT ![c] = 0]
  /\ handler' = [handler EXCEPT ![c] = IF @ = "left" THEN "close" ELSE "wait"]
  /\ UNCHANGED <<main_vars, live_users, users, owner, peer_vars, client_vars,
                 visiting>>

(* After the message the loop goes on, or ends; after the last one the     *)
(* client is closed.                                                       *)
BroadcastEnd(c) ==
  /\ Up /\ handler[c] \in Broadcasting
  /\ visiting[c] = NoConn
  /\ KeysFrom(pos[c]) = {}
  /\ pos' = [pos EXCEPT ![c] = 0]
  /\ handler' = [handler EXCEPT ![c] =
                   IF @ = "left" THEN "close"
                   ELSE IF is_online[c] THEN "wait" ELSE "left"]
  /\ UNCHANGED <<main_vars, live_users, users, owner, peer_vars, client_vars,
                 visiting>>

(* One turn of the loop, up to what the message asks for.  A client that   *)
(* timed out is told so.                                                   *)
MessageOrTimeout(c, after_timeout) ==
  /\ \/ /\ Receive(c)
        /\ HandlerGo(c, "wait", CASE Received(c) = "list" -> "list"
                                  [] Received(c) = "bye" -> "unregister"
                                  [] OTHER -> "text")
        /\ UNCHANGED <<main_pc, link>>
     \/ /\ TimesOut(c)
        /\ HandlerGo(c, "wait", after_timeout)
        /\ SendTo(sock[c])
        /\ UNCHANGED inbox
     \/ /\ NothingToRead(c)
        /\ HandlerGo(c, "wait", "unregister")
        /\ UNCHANGED <<main_pc, link, inbox>>
  /\ UNCHANGED <<flags, live_users, users, owner, backlog, peer, typed,
                 client_vars, loop_vars>>

(* Mutant: a client that timed out is not unregistered (line 300). *)
HandlerMessageGoOn(c) == MessageOrTimeout(c, "wait")

HandlerMessage(c) == MessageOrTimeout(c, "unregister")

HandlerList(c) ==
  /\ HandlerGo(c, "list", "wait")
  /\ SendTo(sock[c])
  /\ UNCHANGED <<flags, live_users, users, owner, backlog, peer, inbox, typed,
                 client_vars, loop_vars>>

(* unregister_client: the loop will end, *)
HandlerUnregister(c) ==
  /\ HandlerGo(c, "unregister", "erase")
  /\ is_online' = [is_online EXCEPT ![c] = FALSE]
  /\ UNCHANGED <<main_vars, live_users, users, owner, peer_vars, sock, name,
                 deleted, history, loop_vars>>

(* Mutant: users.erase forgotten (line 136). *)
HandlerEraseNothing(c) ==
  HandlerGo(c, "erase", "left") /\ UNCHANGED all_but_handler

(* and whoever the map has under the name is erased. *)
HandlerErase(c) ==
  /\ HandlerGo(c, "erase", "left")
  /\ users' = [users EXCEPT ![name[c]] = NoConn]
  /\ UNCHANGED <<main_vars, live_users, owner, peer_vars, client_vars,
                 loop_vars>>

(* The thread ends: close_, then delete, which the clients that never gave *)
(* a name are not granted (line 281).                                      *)
CloseAndDelete(c) ==
  /\ NotifyAndClose(c, "notify", "ended")
  /\ deleted' = IF name[c] = 0 THEN deleted ELSE deleted \cup {c}

(* Mutant: the count left as it is. *)
HandlerCloseUncounted(c) ==
  \/ HandlerGo(c, "close", "notify") /\ UNCHANGED all_but_handler
  \/ CloseAndDelete(c)

HandlerClose(c) == CountDown(c, "close", "notify") \/ CloseAndDelete(c)

HandlerStep(c) ==
  \/ HandlerWelcome(c) \/ HandlerName(c) \/ HandlerCheck(c) \/ HandlerInsert(c)
  \/ HandlerOnline(c) \/ HandlerRefuse(c) \/ BroadcastNext(c)
  \/ BroadcastSend(c) \/ BroadcastEnd(c) \/ HandlerMessage(c) \/ HandlerList(c)
  \/ HandlerUnregister(c) \/ HandlerErase(c) \/ HandlerClose(c)
-----------------------------------------------------------------------------
(* Data races on the map, and uses of a client another thread deleted *)

Writing(c) == handler[c] \in {"insert", "erase"}
Accessing(c) ==
  handler[c] \in {"welcome", "check", "insert", "erase", "list"}
                   \cup Broadcasting
Race ==
  \/ \E c, d \in Conns : c # d /\ Writing(c) /\ Accessing(d)
  \/ main_pc = "closing" /\ \E c \in Conns : Writing(c)
  \/ \E c \in Conns : visiting[c] \in deleted
  \/ main_visiting \in deleted

Crash ==
  /\ Up /\ Race
  /\ main_pc' = "crashed"
  /\ UNCHANGED <<flags, live_users, users, owner, peer_vars, handler,
                 client_vars, loop_vars>>
-----------------------------------------------------------------------------
(* client.cpp *)

ClientGo(c, from, to) == peer[c] = from /\ peer' = [peer EXCEPT ![c] = to]

(* connect_to_server.  Connections are numbered in the order they are made. *)
ClientConnect(c) ==
  /\ \A d \in Conns : d < c => peer[d] # "new"
  /\ \/ /\ Up /\ listening = "open" /\ Len(backlog) < 2 * MaxClients
        /\ ClientGo(c, "new", "connected")
        /\ backlog' = Append(backlog, c)
     \/ /\ ~(Up /\ listening = "open")
        /\ ClientGo(c, "new", "gone")
        /\ UNCHANGED backlog
  /\ UNCHANGED <<main_vars, live_users, users, owner, inbox, typed, link,
                 handler, client_vars, loop_vars>>

(* set_user_name, once the welcome message is read.  Of an empty line      *)
(* nothing is sent, and the next line will be the name.                    *)
ClientName(c) ==
  /\ ClientGo(c, "prompt", "chatting")
  /\ \/ /\ inbox' = [inbox EXCEPT ![c] = "name"]
        /\ \E n \in NamesOf[c] : typed' = [typed EXCEPT ![c] = n]
        /\ UNCHANGED events
     \/ /\ events < MaxEvents
        /\ events' = events + 1
        /\ UNCHANGED <<inbox, typed>>
  /\ UNCHANGED <<main_pc, running, listening, accepted, main_pos,
                 main_visiting, live_users, users, owner, backlog, link,
                 handler, client_vars, loop_vars>>

(* handle_outgoing_message *)
ClientLine(c) ==
  /\ peer[c] = "chatting" /\ inbox[c] = "empty"
  /\ events < MaxEvents
  /\ events' = events + 1
  /\ \E m \in Lines : inbox' = [inbox EXCEPT ![c] = m]
  /\ UNCHANGED <<main_pc, running, listening, accepted, main_pos,
                 main_visiting, live_users, users, owner, backlog, peer, typed,
                 link, handler, client_vars, loop_vars>>

(* The user kills the client. *)
ClientLeave(c) ==
  /\ peer[c] \in {"connected", "prompt", "chatting"}
  /\ events < MaxEvents
  /\ events' = events + 1
  /\ peer' = [peer EXCEPT ![c] = "gone"]
  /\ link' = [link EXCEPT ![c] = "fin"]
  /\ UNCHANGED <<main_pc, running, listening, accepted, main_pos,
                 main_visiting, live_users, users, owner, backlog, inbox, typed,
                 handler, client_vars, loop_vars>>
-----------------------------------------------------------------------------
Next ==
  \/ MainStep \/ SpuriousWakeup \/ Interrupt \/ Crash
  \/ \E c \in Conns : \/ HandlerStep(c) \/ ClientConnect(c) \/ ClientName(c)
                      \/ ClientLine(c) \/ ClientLeave(c)

Spec == Init /\ [][Next]_vars

(* The system runs every thread that can run; nothing is asked of users.   *)
Fairness == WF_vars(MainStep) /\ \A c \in Conns : WF_vars(HandlerStep(c))
FairSpec == Spec /\ Fairness

-----------------------------------------------------------------------------
(* Properties *)

Serving == Up /\ main_pc # "closing"

(* No client was refused for its name: line 290 closes the client it       *)
(* refuses, and handle_client goes on to close it again (AdmissionLimit).  *)
NobodyRefused == refused = {}

VarTypes ==
  /\ main_pc \in {"pred", "falling", "asleep", "accept", "start", "counted",
                  "closing", "exited", "killed", "crashed"}
  /\ running \in BOOLEAN /\ listening \in {"open", "shut"}
  /\ accepted \in Conns \cup {NoConn} /\ events \in 0 .. MaxEvents
  /\ main_pos \in Nat /\ main_visiting \in Conns \cup {NoConn}
  /\ live_users \in Int
  /\ users \in [Names -> Conns \cup {NoConn}]
  /\ owner \in [Fds -> Conns \cup {NoConn}]
  /\ backlog \in Seq(Conns)
  /\ peer \in [Conns -> {"new", "connected", "prompt", "chatting", "gone"}]
  /\ inbox \in [Conns -> {"empty", "name"} \cup Lines]
  /\ typed \in [Conns -> Names \cup {0}]
  /\ link \in [Conns -> {"up", "fin", "epipe"}]
  /\ handler \in [Conns -> {"none", "welcome", "name", "check", "insert",
                            "online", "refused", "refused_notify", "wait",
                            "list", "unregister", "erase", "close", "notify",
                            "ended"} \cup Broadcasting]
  /\ sock \in [Conns -> Fds \cup {0}] /\ name \in [Conns -> Names \cup {0}]
  /\ is_online \in [Conns -> BOOLEAN] /\ deleted \subseteq Conns
  /\ pos \in [Conns -> Nat] /\ visiting \in [Conns -> Conns \cup {NoConn}]
  /\ refused \subseteq Conns /\ replaced \subseteq Names

(* Every variable stays in its type; unless a client was refused the count *)
(* of users (server.cpp:177, 250, 351) does not go below zero.             *)
ChatTypeOK == VarTypes /\ (NobodyRefused /\ Serving => live_users >= 0)

(* The clients connected to the server, but for those counted down and     *)
(* about to be closed.                                                     *)
Served == {c \in Conns : /\ \E f \in Fds : owner[f] = c
                         /\ handler[c] \notin {"notify", "refused_notify"}}

(* "MAX_CONCURRENT_CLIENTS: the number of concurrent clients the server    *)
(* will support" (server.cpp:9): main tests the count (184) and raises it  *)
(* (351) with an accept in between, and the threads lower it (250) when    *)
(* they like, yet no more clients are served at once.                      *)
AdmissionLimit == Serving => Cardinality(Served) <= MaxClients

(* Unless a client was refused it is so: also when two with one name both  *)
(* got in (server.cpp:128-129), or one comes back under a name given up.   *)
AdmissionLimitUnlessRefused == NobodyRefused => AdmissionLimit

(* Unless a client was refused, live_users is the number of clients being  *)
(* served, but between accept and the increment: each client is counted    *)
(* once and counted down once, whichever way its thread ends               *)
(* (server.cpp:250, 351).                                                  *)
LiveUsersExact ==
  NobodyRefused /\ Serving /\ main_pc # "start"
    => live_users = Cardinality(Served)

(* Unless a client was refused (which is closed twice, server.cpp:290 and  *)
(* 322), from accept to its own close a thread holds a descriptor that is  *)
(* its client's: no message goes to, and no command comes from, somebody   *)
(* who connected later and got the same number (server.cpp:207, 229, 255). *)
(* While the server stops, main closes the clients of the map under their  *)
(* threads (364): a descriptor may then be closed, but never another's.    *)
SocketsOwned ==
  NobodyRefused /\ Up => \A c \in Conns :
    handler[c] \notin {"none", "ended"} =>
      \/ owner[sock[c]] = c
      \/ main_pc = "closing" /\ owner[sock[c]] = NoConn

(* Whoever is refused or comes and goes under the same name, a client on   *)
(* line is the one the map has under its name, so that broadcasts reach it *)
(* and nobody else's unregistering takes it out; and whom the map knows is *)
(* on line, or between the two writes that enter it (server.cpp:129, 130)  *)
(* or take it out (135, 136).  Excepted are the names two threads found    *)
(* free at once (128), where one entry replaced the other's.               *)
RegistryExact ==
  Up => /\ \A c \in Conns : is_online[c] /\ name[c] \notin replaced
                              => users[name[c]] = c
        /\ \A n \in Registered : \/ is_online[users[n]]
                                 \/ handler[users[n]] \in {"online", "erase"}

(* Even when names clash, whom the map knows goes by that name and is not  *)
(* deleted (server.cpp:323): the shutdown loop (363) and a broadcast (140) *)
(* find live clients in the map.  It says nothing of the pointer they then *)
(* hold without a lock: that client may be deleted, which Crash stands for.*)
NoDanglingEntry ==
  Up => \A n \in Registered : name[users[n]] = n /\ users[n] \notin deleted

(* With a timeout no thread outlives its client's silence: whatever a      *)
(* client does not send, its thread ends and gives its place back, on all  *)
(* the ways out of handle_client (server.cpp:214-226, 280, 299).           *)
SilentKicked ==
  HasTimeout =>
    \A c \in Conns : handler[c] = "welcome" ~> handler[c] = "ended" \/ ~Up

(* A Ctrl+C ends the server, wherever main and the threads are, unless it  *)
(* is lost while main falls asleep (server.cpp:191-200, 337-374).          *)
ShutdownEnds == ~running /\ main_pc \notin {"falling", "asleep"} ~> ~Up

(* wait_till_can_accept "holds the thread until the server can accept more *)
(* users or the server is closed" (server.cpp:180): while main sleeps the  *)
(* server is full and running, or somebody is about to notify main.        *)
SleepsOnlyWhenFull ==
  main_pc = "asleep" =>
    \/ running /\ live_users >= MaxClients
    \/ \E c \in Conns : handler[c] \in {"notify", "refused_notify"}
=============================================================================
