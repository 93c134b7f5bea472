---------------------------- MODULE StreamServer ----------------------------
(***************************************************************************)
(* The song server of task3/server.c with its clients (task3/client.c).    *)
(* Main accepts connections and starts a detached thread for each; a       *)
(* counter under a mutex keeps at most MAX_CONCURRENT_CLIENTS of them.  A  *)
(* SIGINT sets `stop' and closes the listening socket.                     *)
(*                                                                         *)
(* A connection stands for one run of client.c.  The critical sections of  *)
(* live_handlers_count_mutex are one step each: nothing in them blocks but *)
(* pthread_cond_wait.  Signals are handled by the main thread, as Linux    *)
(* does when it does not block them.                                       *)
(***************************************************************************)
EXTENDS Integers, Sequences, FiniteSets

CONSTANTS
  Conns,                    \* the runs of the client
  MAX_CONCURRENT_CLIENTS,
  SongChunks,               \* bound: the chunks of the longest song
  Window,                   \* bound: the chunks the socket buffers hold
  MaxInterrupts,            \* bound: how many times Ctrl+C is hit
  ThreadsMayFail            \* whether pthread_create can fail

ASSUME StreamAssumption ==
  /\ IsFiniteSet(Conns)
  /\ MAX_CONCURRENT_CLIENTS \in Nat \ {0}
  /\ SongChunks \in Nat /\ Window \in Nat \ {0} /\ MaxInterrupts \in Nat
  /\ ThreadsMayFail \in BOOLEAN

VARIABLES
  \* main and the signal handler
  main_pc, stop, listening, accepted, live_handlers_count, interrupts,
  \* the connections: those not accepted yet, and the two ends of each
  backlog, client, request, link, unread, server_end,
  \* the threads that run handle_client
  handler, to_send

main_vars == <<main_pc, stop, listening, accepted, interrupts>>
conn_vars == <<backlog, client, request, link, unread, server_end>>
handler_vars == <<handler, to_send>>
vars == <<main_vars, live_handlers_count, conn_vars, handler_vars>>

NoConn == {}                \* the -1 that a failed accept returns
Up == main_pc \notin {"exited", "killed", "crashed"}
Set(s) == {s[n] : n \in DOMAIN s}

Init ==
  /\ main_pc = "socket" /\ stop = FALSE /\ listening = "none"
  /\ accepted = NoConn /\ live_handlers_count = 0 /\ interrupts = 0
  /\ backlog = <<>>
  /\ client = [c \in Conns |-> "new"]
  /\ request = [c \in Conns |-> "none"]
  /\ link = [c \in Conns |-> "up"]
  /\ unread = [c \in Conns |-> 0]
  /\ server_end = [c \in Conns |-> "none"]
  /\ handler = [c \in Conns |-> "none"]
  /\ to_send = [c \in Conns |-> 0]
-----------------------------------------------------------------------------
(* Main *)

MainGo(from, to) == main_pc = from /\ main_pc' = to

(* socket() *)
MainSocket ==
  /\ MainGo("socket", "bind")
  /\ listening' = "unbound"
  /\ UNCHANGED <<stop, accepted, interrupts, live_handlers_count, conn_vars,
                 handler_vars>>

(* bind() and listen(), or exit(1) when the socket is closed already. *)
MainListen ==
  /\ \/ listening = "unbound" /\ MainGo("bind", "start") /\ listening' = "open"
     \/ listening = "closed" /\ MainGo("bind", "exited") /\ UNCHANGED listening
  /\ UNCHANGED <<stop, accepted, interrupts, live_handlers_count, conn_vars,
                 handler_vars>>

(* stop = 0, just before the loop. *)
MainStart ==
  /\ MainGo("start", "test")
  /\ stop' = FALSE
  /\ UNCHANGED <<listening, accepted, interrupts, live_handlers_count,
                 conn_vars, handler_vars>>

MainTest ==
  /\ main_pc = "test"
  /\ main_pc' = IF stop THEN "stopping" ELSE "room"
  /\ UNCHANGED <<stop, listening, accepted, interrupts, live_handlers_count,
                 conn_vars, handler_vars>>

(* Mutant: line 119 with > for >=. *)
MainRoomOffByOne ==
  /\ main_pc \in {"room", "woken"}
  /\ main_pc' = IF live_handlers_count > MAX_CONCURRENT_CLIENTS
                THEN "asleep" ELSE "accept"
  /\ UNCHANGED <<stop, listening, accepted, interrupts, live_handlers_count,
                 conn_vars, handler_vars>>

(* Wait until a new connection may be accepted. *)
MainRoom ==
  /\ main_pc \in {"room", "woken"}
  /\ main_pc' = IF live_handlers_count >= MAX_CONCURRENT_CLIENTS
                THEN "asleep" ELSE "accept"
  /\ UNCHANGED <<stop, listening, accepted, interrupts, live_handlers_count,
                 conn_vars, handler_vars>>

SpuriousWakeup ==
  /\ MainGo("asleep", "woken")
  /\ UNCHANGED <<stop, listening, accepted, interrupts, live_handlers_count,
                 conn_vars, handler_vars>>

(* accept() blocks while nobody asks to connect and fails on a closed      *)
(* socket; interrupted, it is restarted.                                   *)
MainAccept ==
  /\ MainGo("accept", "accepted")
  /\ \/ /\ listening = "open" /\ backlog # <<>>
        /\ accepted' = {Head(backlog)}
        /\ backlog' = Tail(backlog)
        /\ server_end' = [server_end EXCEPT ![Head(backlog)] = "open"]
     \/ /\ listening = "closed"
        /\ accepted' = NoConn
        /\ UNCHANGED <<backlog, server_end>>
  /\ UNCHANGED <<stop, listening, interrupts, live_handlers_count, client,
                 request, link, unread, handler_vars>>

MainAccepted ==
  /\ main_pc = "accepted"
  /\ \/ /\ stop
        /\ main_pc' = "stopping"
        /\ accepted' = NoConn
        /\ server_end' = [c \in Conns |->
                            IF c \in accepted THEN "closed" ELSE server_end[c]]
        /\ UNCHANGED live_handlers_count
     \/ /\ ~stop /\ accepted = NoConn
        /\ main_pc' = "test"
        /\ UNCHANGED <<accepted, server_end, live_handlers_count>>
     \/ /\ ~stop /\ accepted # NoConn
        /\ main_pc' = "create"
        /\ live_handlers_count' = live_handlers_count + 1
        /\ UNCHANGED <<accepted, server_end>>
  /\ UNCHANGED <<stop, listening, interrupts, backlog, client, request, link,
                 unread, handler_vars>>

(* pthread_create, whose result nobody looks at. *)
MainCreate ==
  /\ MainGo("create", "test")
  /\ \/ handler' = [c \in Conns |->
                      IF c \in accepted THEN "recv" ELSE handler[c]]
     \/ ThreadsMayFail /\ UNCHANGED handler
  /\ accepted' = NoConn
  /\ UNCHANGED <<stop, listening, interrupts, live_handlers_count, conn_vars,
                 to_send>>

(* After the loop: close(server_socket) again and free_song_paths, *)
MainStop ==
  /\ MainGo("stopping", "freed")
  /\ UNCHANGED <<stop, listening, accepted, interrupts, live_handlers_count,
                 conn_vars, handler_vars>>

(* and main returns, which ends the process. *)
MainReturn ==
  /\ MainGo("freed", "exited")
  /\ UNCHANGED <<stop, listening, accepted, interrupts, live_handlers_count,
                 conn_vars, handler_vars>>

MainStep ==
  \/ MainSocket \/ MainListen \/ MainStart \/ MainTest \/ MainRoom
  \/ MainAccept \/ MainAccepted \/ MainCreate \/ MainStop \/ MainReturn

(* inthand: the connections that wait to be accepted are reset with the    *)
(* socket.  Before socket() server_socket is 0, and standard input is      *)
(* closed in its place.                                                    *)
Interrupt ==
  /\ Up
  /\ interrupts < MaxInterrupts
  /\ interrupts' = interrupts + 1
  /\ stop' = TRUE
  /\ listening' = IF listening = "none" THEN "none" ELSE "closed"
  /\ backlog' = <<>>
  /\ server_end' = [c \in Conns |-> IF c \in Set(backlog) THEN "closed"
                                    ELSE server_end[c]]
  /\ UNCHANGED <<main_pc, accepted, live_handlers_count, client, request, link,
                 unread, handler_vars>>
-----------------------------------------------------------------------------
(* handle_client *)

HandlerGo(c, from, to) ==
  Up /\ handler[c] = from /\ handler' = [handler EXCEPT ![c] = to]

(* Mutant: the test of line 198 forgotten. *)
HandlerRecvNoEof(c) ==
  /\ request[c] # "none"
  /\ \/ request[c] \in {"valid", "unterminated"} /\ HandlerGo(c, "recv", "open")
     \/ request[c] \in {"invalid", "unterminated"}
        /\ HandlerGo(c, "recv", "close")
  /\ UNCHANGED <<main_vars, live_handlers_count, conn_vars, to_send>>

(* The song number is received, or the client's end is closed.  atoi reads *)
(* on in the buffer when the number is not followed by a newline.          *)
HandlerRecv(c) ==
  /\ \/ request[c] \in {"valid", "unterminated"} /\ HandlerGo(c, "recv", "open")
     \/ request[c] \in {"invalid", "unterminated"}
        /\ HandlerGo(c, "recv", "close")
     \/ /\ request[c] = "none" /\ link[c] = "fin"
        /\ HandlerGo(c, "recv", "close")
  /\ UNCHANGED <<main_vars, live_handlers_count, conn_vars, to_send>>

(* fopen(ta->song_paths[song_idx - 1]) *)
HandlerOpen(c) ==
  /\ \/ /\ HandlerGo(c, "open", "stream")
        /\ \E n \in 0 .. SongChunks : to_send' = [to_send EXCEPT ![c] = n]
     \/ HandlerGo(c, "open", "close") /\ UNCHANGED to_send
  /\ UNCHANGED <<main_vars, live_handlers_count, conn_vars>>

(* The path is read after main freed it: as if it were still there, as     *)
(* above, or the process dies.                                             *)
HandlerUseFreed(c) ==
  /\ handler[c] = "open"
  /\ MainGo("freed", "crashed")
  /\ UNCHANGED <<stop, listening, accepted, interrupts, live_handlers_count,
                 conn_vars, handler_vars>>

(* send() of one chunk.  It blocks while the client does not read; when    *)
(* the client has closed, its kernel answers the data with a reset, which  *)
(* makes the sends that follow fail.                                       *)
HandlerSend(c) ==
  /\ Up /\ handler[c] = "stream"
  /\ to_send[c] > 0
  /\ to_send' = [to_send EXCEPT ![c] = @ - 1]
  /\ \/ /\ link[c] = "up" /\ unread[c] < Window
        /\ unread' = [unread EXCEPT ![c] = @ + 1]
        /\ UNCHANGED link
     \/ /\ link[c] = "fin"
        /\ \E l \in {"fin", "epipe"} : link' = [link EXCEPT ![c] = l]
        /\ UNCHANGED unread
  /\ UNCHANGED <<main_vars, live_handlers_count, backlog, client, request,
                 server_end, handler>>

(* send() returns -1, or fread finds the end of the file. *)
HandlerDone(c) ==
  /\ to_send[c] = 0 \/ link[c] = "reset"
  /\ HandlerGo(c, "stream", "close")
  /\ UNCHANGED <<main_vars, live_handlers_count, conn_vars, to_send>>

(* send() on a connection known to be broken raises SIGPIPE, which nobody  *)
(* handles: it kills the process.                                          *)
HandlerBrokenPipe(c) ==
  /\ Up /\ handler[c] = "stream"
  /\ to_send[c] > 0 /\ link[c] = "epipe"
  /\ main_pc' = "killed"
  /\ UNCHANGED <<stop, listening, accepted, interrupts, live_handlers_count,
                 conn_vars, handler_vars>>

(* close_client: the socket is closed, *)
HandlerClose(c) ==
  /\ HandlerGo(c, "close", "release")
  /\ server_end' = [server_end EXCEPT ![c] = "closed"]
  /\ UNCHANGED <<main_vars, live_handlers_count, backlog, client, request,
                 link, unread, to_send>>

(* Mutant: main not signalled (line 186). *)
HandlerReleaseSilent(c) ==
  /\ HandlerGo(c, "release", "ended")
  /\ live_handlers_count' = live_handlers_count - 1
  /\ UNCHANGED <<main_vars, conn_vars, to_send>>

(* then the count goes down and main is signalled, under the mutex. *)
HandlerRelease(c) ==
  /\ HandlerGo(c, "release", "ended")
  /\ live_handlers_count' = live_handlers_count - 1
  /\ main_pc' = IF main_pc = "asleep" THEN "woken" ELSE main_pc
  /\ UNCHANGED <<stop, listening, accepted, interrupts, conn_vars, to_send>>

HandlerStep(c) ==
  \/ HandlerRecv(c) \/ HandlerOpen(c) \/ HandlerUseFreed(c) \/ HandlerSend(c)
  \/ HandlerDone(c) \/ HandlerBrokenPipe(c) \/ HandlerClose(c) \/ HandlerRelease(c)
-----------------------------------------------------------------------------
(* client.c *)

ClientGo(c, from, to) ==
  client[c] = from /\ client' = [client EXCEPT ![c] = to]

(* connect() is refused, or waits for its turn in a backlog of twice the   *)
(* limit.                                                                  *)
ClientConnect(c) ==
  /\ \/ /\ Up /\ listening = "open"
        /\ Len(backlog) < 2 * MAX_CONCURRENT_CLIENTS
        /\ ClientGo(c, "new", "prompt")
        /\ backlog' = Append(backlog, c)
     \/ /\ ~(Up /\ listening = "open")
        /\ ClientGo(c, "new", "gone")
        /\ UNCHANGED backlog
  /\ UNCHANGED <<main_vars, live_handlers_count, request, link, unread,
                 server_end, handler_vars>>

(* The user types a line; without a newline when the input ends with it.   *)
(* When the input ends at once, fgets leaves the buffer unset (client.c:75)*)
(* and what it holds is sent: some bytes, which are an unterminated request*)
(* to the server, or none, and then the client is to the server as one that*)
(* stays at its prompt.  ClientFairness assumes that this does not happen. *)
ClientRequest(c) ==
  /\ ClientGo(c, "prompt", "playing")
  /\ \E r \in {"valid", "invalid", "unterminated"} :
       request' = [request EXCEPT ![c] = r]
  /\ UNCHANGED <<main_vars, live_handlers_count, backlog, link, unread,
                 server_end, handler_vars>>

(* play_streamed_mp3: recv() of a chunk, or of the end of the stream. *)
ClientPlay(c) ==
  /\ client[c] = "playing" /\ unread[c] > 0
  /\ unread' = [unread EXCEPT ![c] = @ - 1]
  /\ UNCHANGED <<main_vars, live_handlers_count, backlog, client, request,
                 link, server_end, handler_vars>>

ClientFinish(c) ==
  /\ unread[c] = 0
  /\ server_end[c] = "closed" \/ ~Up
  /\ ClientGo(c, "playing", "gone")
  /\ UNCHANGED <<main_vars, live_handlers_count, backlog, request, link,
                 unread, server_end, handler_vars>>

(* "Kill the process and rerun the program": the socket is closed, and     *)
(* reset if data was left unread.                                          *)
ClientKill(c) ==
  /\ client[c] \in {"prompt", "playing"}
  /\ client' = [client EXCEPT ![c] = "gone"]
  /\ link' = [link EXCEPT ![c] = IF unread[c] > 0 THEN "reset" ELSE "fin"]
  /\ unread' = [unread EXCEPT ![c] = 0]
  /\ UNCHANGED <<main_vars, live_handlers_count, backlog, request, server_end,
                 handler_vars>>

ClientStep(c) == ClientRequest(c) \/ ClientPlay(c) \/ ClientFinish(c)
-----------------------------------------------------------------------------
Next ==
  \/ MainStep \/ SpuriousWakeup \/ Interrupt
  \/ \E c \in Conns : \/ HandlerStep(c) \/ ClientStep(c)
                      \/ ClientConnect(c) \/ ClientKill(c)

Spec == Init /\ [][Next]_vars

(* The system runs every thread that can run. *)
ServerFairness ==
  WF_vars(MainStep) /\ \A c \in Conns : WF_vars(HandlerStep(c))

(* Users do answer the prompt and let the song play, or kill the client. *)
ClientFairness == \A c \in Conns : WF_vars(ClientStep(c))

FairServerSpec == Spec /\ ServerFairness
FairSpec == FairServerSpec /\ ClientFairness
-----------------------------------------------------------------------------
(* Properties *)

Handlers ==
  {c \in Conns : handler[c] \in {"recv", "open", "stream", "close", "release"}}

(* Every variable stays in its type; the count never passes the limit and  *)
(* never goes below zero.                                                  *)
StreamTypeOK ==
  /\ main_pc \in {"socket", "bind", "start", "test", "room", "asleep", "woken",
                  "accept", "accepted", "create", "stopping", "freed",
                  "exited", "killed", "crashed"}
  /\ stop \in BOOLEAN
  /\ listening \in {"none", "unbound", "open", "closed"}
  /\ accepted \in {NoConn} \cup {{c} : c \in Conns}
  /\ live_handlers_count \in 0 .. MAX_CONCURRENT_CLIENTS
  /\ interrupts \in 0 .. MaxInterrupts
  /\ backlog \in Seq(Conns)
  /\ client \in [Conns -> {"new", "prompt", "playing", "gone"}]
  /\ request \in [Conns -> {"none", "valid", "invalid", "unterminated"}]
  /\ link \in [Conns -> {"up", "fin", "epipe", "reset"}]
  /\ unread \in [Conns -> 0 .. Window]
  /\ server_end \in [Conns -> {"none", "open", "closed"}]
  /\ handler \in [Conns -> {"none", "recv", "open", "stream", "close",
                            "release", "ended"}]
  /\ to_send \in [Conns -> 0 .. SongChunks]

(* "Handles upto MAX_CONCURRENT_CLIENTS connections concurrently": though  *)
(* main tests the count (line 119) and raises it (152) in two critical     *)
(* sections with an accept between them, and though handlers that failed   *)
(* to start are never counted down, the sockets open to clients never pass *)
(* the limit, and the handlers that run never pass the count.              *)
AtMostMax ==
  Up =>
    /\ Cardinality({c \in Conns : server_end[c] = "open"})
         <= MAX_CONCURRENT_CLIENTS
    /\ Cardinality(Handlers \cup accepted)
         <= live_handlers_count + (IF main_pc = "accepted" THEN 1 ELSE 0)

(* Connections whose thread could not be started: nobody closes them and   *)
(* nobody takes them off the count.                                        *)
Unstarted ==
  {c \in Conns \ accepted : server_end[c] = "open" /\ handler[c] = "none"}

(* Main sleeps only while every place is taken, by a handler that will     *)
(* signal it or by a thread that failed to start: whatever the order in    *)
(* which the last handlers end, its wake-up is not lost.                   *)
MainNotStranded ==
  main_pc = "asleep" =>
    Cardinality(Handlers) + Cardinality(Unstarted) = MAX_CONCURRENT_CLIENTS

(* Every connection that waits is accepted and given to a handler at last, *)
(* unless the server is told to stop or is killed.                         *)
Served ==
  \A c \in Conns :
    c \in Set(backlog) ~> (handler[c] # "none" \/ interrupts > 0 \/ ~Up)

(* Every handler ends and gives its place back, when its client answers or *)
(* goes away, also in the middle of the song (server.c:197, 232), unless   *)
(* the server is gone: that a SIGPIPE may kill it is excused here.         *)
HandlersEnd ==
  \A c \in Conns : handler[c] = "recv" ~> (handler[c] = "ended" \/ ~Up)

(* A Ctrl+C hit while the server is in its loop makes it return. *)
StopsWhenAsked ==
  (stop /\ main_pc \notin {"socket", "bind", "start"}) ~> ~Up

(* server.c:162, "We exit the while loop when Ctrl+C": every Ctrl+C that   *)
(* runs the signal handler makes the server return.                        *)
InterruptStops == interrupts > 0 ~> ~Up
=============================================================================
