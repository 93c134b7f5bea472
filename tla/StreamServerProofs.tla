------------------------- MODULE StreamServerProofs -------------------------
(***************************************************************************)
(* Proofs about the song server, for any number of clients, any limit and  *)
(* any bounds on the songs, the socket buffers and the interrupts.         *)
(***************************************************************************)
EXTENDS StreamServer, FiniteSetTheorems, TLAPS

-----------------------------------------------------------------------------
(* The inductive invariant *)

(* A connection is in one place at a time: in the backlog, accepted by     *)
(* main, or given to a thread, whose end of the socket is open until       *)
(* close_client.                                                           *)
PlaceInv ==
  /\ \A m, n \in DOMAIN backlog : backlog[m] = backlog[n] => m = n
  /\ \A n \in DOMAIN backlog :
       server_end[backlog[n]] = "none" /\ client[backlog[n]] # "new"
  /\ \A c \in Conns :
       /\ client[c] = "new" => server_end[c] = "none"
       /\ server_end[c] = "none" => handler[c] = "none"
       /\ handler[c] \in {"recv", "open", "stream", "close"} =>
            server_end[c] = "open"
       /\ handler[c] \in {"release", "ended"} => server_end[c] = "closed"
       /\ c \in accepted => server_end[c] = "open" /\ handler[c] = "none"
  /\ Up /\ accepted # NoConn => main_pc \in {"accepted", "create"}

(* The connections that count: main has raised the count for them and      *)
(* nobody has lowered it yet.                                              *)
Counted ==
  {c \in Conns : /\ server_end[c] = "open" \/ handler[c] = "release"
                 /\ ~(c \in accepted /\ main_pc = "accepted")}

(* The count is exact; between the test of line 119 and the increment of   *)
(* line 152 it has room for one; while main sleeps it is at the limit.     *)
CountInv ==
  Up =>
    /\ live_handlers_count = Cardinality(Counted)
    /\ main_pc \in {"accept", "accepted"} =>
         live_handlers_count < MAX_CONCURRENT_CLIENTS
    /\ main_pc = "asleep" => live_handlers_count = MAX_CONCURRENT_CLIENTS

StreamInv == StreamTypeOK /\ PlaceInv /\ CountInv
-----------------------------------------------------------------------------
(* Lemmas *)

LEMMA ConnSets ==
  ASSUME NEW S \in SUBSET Conns
  PROVE  /\ IsFiniteSet(S) /\ Cardinality(S) \in Nat
         /\ \A c : c \notin S => Cardinality(S \cup {c}) = Cardinality(S) + 1
         /\ \A c \in S : /\ Cardinality(S \ {c}) = Cardinality(S) - 1
                         /\ Cardinality(S) > 0
         /\ \A T \in SUBSET S : Cardinality(T) <= Cardinality(S)
<1>1. IsFiniteSet(S)
  BY StreamAssumption, FS_Subset
<1>2. Cardinality(S) \in Nat
  BY <1>1, FS_CardinalityType
<1>3. \A c : c \notin S => Cardinality(S \cup {c}) = Cardinality(S) + 1
  BY <1>1, FS_AddElement
<1>4. \A c \in S : Cardinality(S \ {c}) = Cardinality(S) - 1
  BY <1>1, FS_RemoveElement
<1>5. \A c \in S : Cardinality(S) > 0
  BY <1>1, <1>2, FS_EmptySet
<1>6. \A T \in SUBSET S : Cardinality(T) <= Cardinality(S)
  BY <1>1, FS_Subset
<1>. QED
  BY <1>1, <1>2, <1>3, <1>4, <1>5, <1>6

LEMMA InitStreamInv == Init => StreamInv
<1> SUFFICES ASSUME Init PROVE StreamInv
  OBVIOUS
<1>1. <<>> \in Seq(Conns) /\ DOMAIN <<>> = {}
  OBVIOUS
<1>2. 0 \in 0 .. MAX_CONCURRENT_CLIENTS /\ 0 \in 0 .. MaxInterrupts
      /\ 0 \in 0 .. Window /\ 0 \in 0 .. SongChunks
  BY StreamAssumption
<1>3. StreamTypeOK
  BY <1>1, <1>2 DEF Init, StreamTypeOK, NoConn
<1>4. PlaceInv
  BY <1>1 DEF Init, PlaceInv, NoConn
<1>5. CountInv
  <2>1. Counted = {}
    BY DEF Init, Counted
  <2>. QED
    BY <2>1, FS_EmptySet DEF Init, CountInv
<1>. QED
  BY <1>3, <1>4, <1>5 DEF StreamInv
-----------------------------------------------------------------------------
(* Main's steps *)

(* Main goes on without accepting, and the places stay as they are.        *)
LEMMA MainGoesKeeps ==
  ASSUME StreamInv,
         \/ MainSocket \/ MainListen \/ MainStart \/ MainTest \/ MainRoom
         \/ SpuriousWakeup \/ MainStop \/ MainReturn
  PROVE  StreamInv'
<1> USE StreamAssumption
<1>1. /\ UNCHANGED <<accepted, interrupts, live_handlers_count, conn_vars,
                     handler_vars>>
      /\ main_pc' \in {"bind", "start", "test", "stopping", "room", "asleep",
                       "woken", "accept", "freed", "exited"}
      /\ main_pc \in {"socket", "bind", "start", "test", "room", "woken",
                      "asleep", "stopping", "freed"}
      /\ stop' \in BOOLEAN
      /\ listening' \in {"none", "unbound", "open", "closed"}
  BY DEF MainSocket, MainListen, MainStart, MainTest, MainRoom,
         SpuriousWakeup, MainStop, MainReturn, MainGo, StreamInv, StreamTypeOK
<1>2. /\ main_pc' = "accept" =>
           live_handlers_count < MAX_CONCURRENT_CLIENTS
      /\ main_pc' = "asleep" =>
           live_handlers_count >= MAX_CONCURRENT_CLIENTS
  BY DEF MainSocket, MainListen, MainStart, MainTest, MainRoom,
         SpuriousWakeup, MainStop, MainReturn, MainGo, StreamInv, StreamTypeOK
<1>3. StreamTypeOK'
  BY <1>1 DEF StreamInv, StreamTypeOK, conn_vars, handler_vars
<1>4. PlaceInv'
  BY <1>1 DEF StreamInv, PlaceInv, Up, conn_vars, handler_vars
<1>5. CountInv'
  <2>1. Counted' = Counted
    BY <1>1 DEF Counted, conn_vars, handler_vars
  <2>. QED
    BY <1>1, <1>2, <2>1
    DEF StreamInv, StreamTypeOK, CountInv, Up
<1>. QED
  BY <1>3, <1>4, <1>5 DEF StreamInv

(* The first connection that waits becomes the accepted one. *)
LEMMA MainAcceptKeeps ==
  ASSUME StreamInv, MainAccept
  PROVE  StreamInv'
<1> USE StreamAssumption
<1>1. /\ main_pc = "accept" /\ main_pc' = "accepted"
      /\ UNCHANGED <<stop, listening, interrupts, live_handlers_count, client,
                     request, link, unread, handler_vars>>
  BY DEF MainAccept, MainGo
<1>2. accepted = NoConn
  BY <1>1 DEF StreamInv, PlaceInv, Up
<1>3. CASE accepted' = NoConn /\ UNCHANGED <<backlog, server_end>>
  <2>1. StreamTypeOK'
    BY <1>1, <1>3 DEF StreamInv, StreamTypeOK, handler_vars
  <2>2. PlaceInv'
    BY <1>1, <1>2, <1>3 DEF StreamInv, PlaceInv, Up, handler_vars
  <2>3. Counted' = Counted
    BY <1>1, <1>2, <1>3 DEF Counted, handler_vars, NoConn
  <2>4. CountInv'
    BY <1>1, <2>3 DEF StreamInv, CountInv, Up
  <2>. QED
    BY <2>1, <2>2, <2>4 DEF StreamInv
<1>4. CASE /\ backlog # <<>>
           /\ accepted' = {Head(backlog)}
           /\ backlog' = Tail(backlog)
           /\ server_end' = [server_end EXCEPT ![Head(backlog)] = "open"]
  <2>. DEFINE h == Head(backlog)
  <2>1. /\ backlog \in Seq(Conns) /\ Len(backlog) > 0 /\ Len(backlog) \in Nat
        /\ h = backlog[1] /\ h \in Conns
        /\ backlog' \in Seq(Conns) /\ Len(backlog') = Len(backlog) - 1
        /\ \A n \in 1 .. Len(backlog') : backlog'[n] = backlog[n + 1]
    BY <1>4 DEF StreamInv, StreamTypeOK
  <2>2. /\ DOMAIN backlog = 1 .. Len(backlog)
        /\ DOMAIN backlog' = 1 .. Len(backlog')
    BY <2>1
  <2>3. server_end[h] = "none" /\ handler[h] = "none" /\ client[h] # "new"
    BY <2>1, <2>2 DEF StreamInv, PlaceInv
  <2>4. /\ server_end \in [Conns -> {"none", "open", "closed"}]
        /\ server_end' \in [Conns -> {"none", "open", "closed"}]
        /\ server_end'[h] = "open"
        /\ \A c \in Conns \ {h} : server_end'[c] = server_end[c]
    BY <1>4, <2>1 DEF StreamInv, StreamTypeOK
  <2>. HIDE DEF h
  <2>5. accepted' = {h}
    BY <1>4 DEF h
  <2>6. StreamTypeOK'
    <3>1. accepted' \in {NoConn} \cup {{c} : c \in Conns}
      BY <2>1, <2>5
    <3>2. backlog' \in Seq(Conns)
      BY <2>1
    <3>. QED
      BY <1>1, <2>4, <3>1, <3>2
      DEF StreamInv, StreamTypeOK, handler_vars
  <2>7. PlaceInv'
    <3>1. \A m, n \in DOMAIN backlog' : backlog'[m] = backlog'[n] => m = n
      <4>1. SUFFICES ASSUME NEW m \in DOMAIN backlog',
                            NEW n \in DOMAIN backlog',
                            backlog'[m] = backlog'[n]
                     PROVE  m = n
        OBVIOUS
      <4>2. /\ m + 1 \in DOMAIN backlog /\ n + 1 \in DOMAIN backlog
            /\ backlog[m + 1] = backlog[n + 1]
        BY <2>1, <2>2, <4>1
      <4>3. m + 1 = n + 1
        BY <4>2 DEF StreamInv, PlaceInv
      <4>. QED
        BY <2>2, <2>1, <4>3
    <3>2. \A n \in DOMAIN backlog' :
            /\ server_end'[backlog'[n]] = "none"
            /\ client'[backlog'[n]] # "new"
      <4>1. SUFFICES ASSUME NEW n \in DOMAIN backlog'
                     PROVE  /\ server_end'[backlog'[n]] = "none"
                            /\ client'[backlog'[n]] # "new"
        OBVIOUS
      <4>2. /\ n + 1 \in DOMAIN backlog /\ 1 \in DOMAIN backlog /\ n + 1 # 1
            /\ backlog'[n] = backlog[n + 1] /\ backlog[n + 1] \in Conns
        BY <2>1, <2>2
      <4>3. backlog[n + 1] # h
        BY <2>1, <4>2 DEF StreamInv, PlaceInv
      <4>. QED
        BY <1>1, <2>4, <4>2, <4>3 DEF StreamInv, PlaceInv
    <3>3. \A c \in Conns :
            /\ client'[c] = "new" => server_end'[c] = "none"
            /\ server_end'[c] = "none" => handler'[c] = "none"
            /\ handler'[c] \in {"recv", "open", "stream", "close"} =>
                 server_end'[c] = "open"
            /\ handler'[c] \in {"release", "ended"} => server_end'[c] = "closed"
            /\ c \in accepted' =>
                 server_end'[c] = "open" /\ handler'[c] = "none"
      BY <1>1, <2>3, <2>4, <2>5 DEF StreamInv, PlaceInv, handler_vars
    <3>. QED
      BY <1>1, <3>1, <3>2, <3>3 DEF PlaceInv
  <2>8. Counted' = Counted
    BY <1>1, <1>2, <2>1, <2>3, <2>4, <2>5 DEF Counted, handler_vars, NoConn
  <2>9. CountInv'
    BY <1>1, <2>8 DEF StreamInv, CountInv, Up
  <2>. QED
    BY <2>6, <2>7, <2>9 DEF StreamInv
<1>. QED
  BY <1>3, <1>4 DEF MainAccept

(* accept() has returned: the socket is closed again, or a place is taken. *)
LEMMA MainAcceptedKeeps ==
  ASSUME StreamInv, MainAccepted
  PROVE  StreamInv'
<1> USE StreamAssumption
<1>1. /\ main_pc = "accepted"
      /\ UNCHANGED <<stop, listening, interrupts, backlog, client, request,
                     link, unread, handler, to_send>>
  BY DEF MainAccepted, handler_vars
<1>2. /\ server_end \in [Conns -> {"none", "open", "closed"}]
      /\ accepted \in {NoConn} \cup {{c} : c \in Conns}
      /\ live_handlers_count \in Nat
      /\ live_handlers_count < MAX_CONCURRENT_CLIENTS
      /\ live_handlers_count = Cardinality(Counted)
      /\ \A c \in accepted : server_end[c] = "open" /\ handler[c] = "none"
  <2>1. /\ server_end \in [Conns -> {"none", "open", "closed"}]
        /\ accepted \in {NoConn} \cup {{c} : c \in Conns}
        /\ live_handlers_count \in Nat
    BY DEF StreamInv, StreamTypeOK
  <2>2. /\ live_handlers_count < MAX_CONCURRENT_CLIENTS
        /\ live_handlers_count = Cardinality(Counted)
    BY <1>1 DEF StreamInv, CountInv, Up
  <2>3. \A c \in Conns :
          c \in accepted => server_end[c] = "open" /\ handler[c] = "none"
    BY DEF StreamInv, PlaceInv
  <2>4. \A c \in accepted : c \in Conns
    BY <2>1 DEF NoConn
  <2>. QED
    BY <2>1, <2>2, <2>3, <2>4
<1>3. CASE /\ stop
           /\ main_pc' = "stopping"
           /\ accepted' = NoConn
           /\ server_end' = [c \in Conns |->
                               IF c \in accepted THEN "closed"
                               ELSE server_end[c]]
           /\ UNCHANGED live_handlers_count
  <2>1. \A c \in Conns :
          /\ c \in accepted => server_end'[c] = "closed"
          /\ c \notin accepted => server_end'[c] = server_end[c]
    BY <1>3
  <2>2. server_end' \in [Conns -> {"none", "open", "closed"}]
    BY <1>2, <1>3
  <2>3. StreamTypeOK'
    BY <1>1, <1>3, <2>2 DEF StreamInv, StreamTypeOK
  <2>4. PlaceInv'
    <3>1. \A n \in DOMAIN backlog : backlog[n] \in Conns
      BY DEF StreamInv, StreamTypeOK
    <3>. QED
      BY <1>1, <1>2, <1>3, <2>1, <3>1 DEF StreamInv, PlaceInv, NoConn
  <2>5. Counted' = Counted
    BY <1>1, <1>2, <1>3, <2>1 DEF Counted, NoConn
  <2>6. CountInv'
    BY <1>2, <1>3, <2>5 DEF CountInv
  <2>. QED
    BY <2>3, <2>4, <2>6 DEF StreamInv
<1>4. CASE /\ ~stop /\ accepted = NoConn
           /\ main_pc' = "test"
           /\ UNCHANGED <<accepted, server_end, live_handlers_count>>
  <2>1. StreamTypeOK'
    BY <1>1, <1>4 DEF StreamInv, StreamTypeOK
  <2>2. PlaceInv'
    BY <1>1, <1>4 DEF StreamInv, PlaceInv
  <2>3. Counted' = Counted
    BY <1>1, <1>4 DEF Counted, NoConn
  <2>4. CountInv'
    BY <1>2, <1>4, <2>3 DEF CountInv
  <2>. QED
    BY <2>1, <2>2, <2>4 DEF StreamInv
<1>5. CASE /\ ~stop /\ accepted # NoConn
           /\ main_pc' = "create"
           /\ live_handlers_count' = live_handlers_count + 1
           /\ UNCHANGED <<accepted, server_end>>
  <2>1. PICK c \in Conns : accepted = {c}
    BY <1>2, <1>5
  <2>2. StreamTypeOK'
    <3>1. live_handlers_count' \in 0 .. MAX_CONCURRENT_CLIENTS
      BY <1>2, <1>5
    <3>. QED
      BY <1>1, <1>5, <3>1 DEF StreamInv, StreamTypeOK
  <2>3. PlaceInv'
    BY <1>1, <1>5 DEF StreamInv, PlaceInv
  <2>4. Counted' = Counted \cup {c} /\ c \notin Counted
    BY <1>1, <1>2, <1>5, <2>1 DEF Counted
  <2>5. Counted \in SUBSET Conns
    BY DEF Counted
  <2>6. Cardinality(Counted') = Cardinality(Counted) + 1
    BY <2>4, <2>5, ConnSets
  <2>7. CountInv'
    BY <1>2, <1>5, <2>6 DEF CountInv
  <2>. QED
    BY <2>2, <2>3, <2>7 DEF StreamInv
<1>. QED
  BY <1>3, <1>4, <1>5 DEF MainAccepted

(* The accepted connection is given to a thread, or to nobody. *)
LEMMA MainCreateKeeps ==
  ASSUME StreamInv, MainCreate
  PROVE  StreamInv'
<1> USE StreamAssumption
<1>1. /\ main_pc = "create" /\ main_pc' = "test" /\ accepted' = NoConn
      /\ UNCHANGED <<stop, listening, interrupts, live_handlers_count, backlog,
                     client, request, link, unread, server_end, to_send>>
      /\ \/ handler' = [c \in Conns |->
                          IF c \in accepted THEN "recv" ELSE handler[c]]
         \/ UNCHANGED handler
  BY DEF MainCreate, MainGo, conn_vars
<1>2. handler \in [Conns -> {"none", "recv", "open", "stream", "close",
                             "release", "ended"}]
  BY DEF StreamInv, StreamTypeOK
<1>3. /\ handler' \in [Conns -> {"none", "recv", "open", "stream", "close",
                                 "release", "ended"}]
      /\ \A c \in Conns : \/ handler'[c] = handler[c]
                          \/ c \in accepted /\ handler'[c] = "recv"
  BY <1>1, <1>2
<1>4. \A c \in accepted \cap Conns :
        server_end[c] = "open" /\ handler[c] = "none"
  BY DEF StreamInv, PlaceInv
<1>5. StreamTypeOK'
  BY <1>1, <1>3 DEF StreamInv, StreamTypeOK
<1>6. PlaceInv'
  <2>1. \A n \in DOMAIN backlog : backlog[n] \in Conns
    BY DEF StreamInv, StreamTypeOK
  <2>. QED
    BY <1>1, <1>3, <1>4, <2>1 DEF StreamInv, PlaceInv, NoConn
<1>7. Counted' = Counted
  BY <1>1, <1>3, <1>4 DEF Counted
<1>8. CountInv'
  BY <1>1, <1>7 DEF StreamInv, CountInv, Up
<1>. QED
  BY <1>5, <1>6, <1>8 DEF StreamInv

(* The connections that wait are reset; none of them counts. *)
LEMMA InterruptKeeps ==
  ASSUME StreamInv, Interrupt
  PROVE  StreamInv'
<1> USE StreamAssumption
<1>1. /\ interrupts < MaxInterrupts /\ interrupts' = interrupts + 1
      /\ stop' = TRUE /\ backlog' = <<>>
      /\ listening' \in {"none", "closed"}
      /\ server_end' = [c \in Conns |-> IF c \in Set(backlog) THEN "closed"
                                        ELSE server_end[c]]
      /\ UNCHANGED <<main_pc, accepted, live_handlers_count, client, request,
                     link, unread, handler, to_send>>
  BY DEF Interrupt, handler_vars
<1>2. \A c \in Set(backlog) : /\ server_end[c] = "none" /\ client[c] # "new"
                              /\ c \in Conns
  BY DEF StreamInv, StreamTypeOK, PlaceInv, Set
<1>3. server_end \in [Conns -> {"none", "open", "closed"}]
  BY DEF StreamInv, StreamTypeOK
<1>4. /\ server_end' \in [Conns -> {"none", "open", "closed"}]
      /\ \A c \in Conns :
           /\ c \in Set(backlog) => server_end'[c] = "closed"
           /\ c \notin Set(backlog) => server_end'[c] = server_end[c]
  BY <1>1, <1>3
<1>5. <<>> \in Seq(Conns) /\ DOMAIN <<>> = {}
  OBVIOUS
<1>6. StreamTypeOK'
  <2>1. interrupts' \in 0 .. MaxInterrupts
    BY <1>1 DEF StreamInv, StreamTypeOK
  <2>. QED
    BY <1>1, <1>4, <1>5, <2>1 DEF StreamInv, StreamTypeOK
<1>7. PlaceInv'
  BY <1>1, <1>2, <1>4, <1>5 DEF StreamInv, PlaceInv, Up
<1>8. Counted' = Counted
  BY <1>1, <1>2, <1>4 DEF StreamInv, PlaceInv, Counted
<1>9. CountInv'
  BY <1>1, <1>8 DEF StreamInv, CountInv, Up
<1>. QED
  BY <1>6, <1>7, <1>9 DEF StreamInv
-----------------------------------------------------------------------------
(* The steps of handle_client and of the clients *)

(* The steps that move neither a connection nor the count. *)
LEMMA QuietStepsKeep ==
  ASSUME StreamInv, NEW c \in Conns,
         \/ HandlerRecv(c) \/ HandlerOpen(c) \/ HandlerUseFreed(c)
         \/ HandlerSend(c) \/ HandlerDone(c) \/ HandlerBrokenPipe(c)
         \/ ClientRequest(c) \/ ClientPlay(c) \/ ClientFinish(c)
         \/ ClientKill(c)
  PROVE  StreamInv'
<1> USE StreamAssumption
<1>1. StreamTypeOK
  BY DEF StreamInv
<1>2. /\ UNCHANGED <<stop, listening, accepted, interrupts,
                     live_handlers_count, backlog, server_end>>
      /\ main_pc' \in {main_pc, "crashed", "killed"}
  BY DEF HandlerRecv, HandlerOpen, HandlerUseFreed, HandlerSend, HandlerDone,
         HandlerBrokenPipe, ClientRequest, ClientPlay, ClientFinish,
         ClientKill, HandlerGo, ClientGo, MainGo, main_vars, conn_vars,
         handler_vars
<1>3. \/ UNCHANGED handler
      \/ \E h \in {"open", "stream", "close"} :
           /\ handler[c] \in {"recv", "open", "stream"}
           /\ handler' = [handler EXCEPT ![c] = h]
  BY DEF HandlerRecv, HandlerOpen, HandlerUseFreed, HandlerSend, HandlerDone,
         HandlerBrokenPipe, ClientRequest, ClientPlay, ClientFinish,
         ClientKill, HandlerGo, handler_vars
<1>4. \/ UNCHANGED client
      \/ \E l \in {"playing", "gone"} :
           /\ client[c] # "new"
           /\ client' = [client EXCEPT ![c] = l]
  BY DEF HandlerRecv, HandlerOpen, HandlerUseFreed, HandlerSend, HandlerDone,
         HandlerBrokenPipe, ClientRequest, ClientPlay, ClientFinish,
         ClientKill, ClientGo, conn_vars
<1>5. /\ \/ UNCHANGED request
         \/ \E r \in {"valid", "invalid", "unterminated"} :
              request' = [request EXCEPT ![c] = r]
      /\ \/ UNCHANGED link
         \/ \E l \in {"fin", "epipe", "reset"} : link' = [link EXCEPT ![c] = l]
  BY DEF HandlerRecv, HandlerOpen, HandlerUseFreed, HandlerSend, HandlerDone,
         HandlerBrokenPipe, ClientRequest, ClientPlay, ClientFinish,
         ClientKill, conn_vars
<1>6. \/ UNCHANGED unread
      \/ unread[c] < Window /\ unread' = [unread EXCEPT ![c] = @ + 1]
      \/ unread[c] > 0 /\ unread' = [unread EXCEPT ![c] = @ - 1]
      \/ unread' = [unread EXCEPT ![c] = 0]
  BY DEF HandlerRecv, HandlerOpen, HandlerUseFreed, HandlerSend, HandlerDone,
         HandlerBrokenPipe, ClientRequest, ClientPlay, ClientFinish,
         ClientKill, conn_vars
<1>7. \/ UNCHANGED to_send
      \/ \E n \in 0 .. SongChunks : to_send' = [to_send EXCEPT ![c] = n]
      \/ to_send[c] > 0 /\ to_send' = [to_send EXCEPT ![c] = @ - 1]
  BY DEF HandlerRecv, HandlerOpen, HandlerUseFreed, HandlerSend, HandlerDone,
         HandlerBrokenPipe, ClientRequest, ClientPlay, ClientFinish,
         ClientKill, handler_vars
<1>8. StreamTypeOK'
  <2>1. handler' \in [Conns -> {"none", "recv", "open", "stream", "close",
                                "release", "ended"}]
    <3>1. handler \in [Conns -> {"none", "recv", "open", "stream", "close",
                                 "release", "ended"}]
      BY <1>1 DEF StreamTypeOK
    <3>. QED
      BY <1>3, <3>1
  <2>2. client' \in [Conns -> {"new", "prompt", "playing", "gone"}]
    BY <1>1, <1>4 DEF StreamTypeOK
  <2>3. /\ request' \in [Conns -> {"none", "valid", "invalid", "unterminated"}]
        /\ link' \in [Conns -> {"up", "fin", "epipe", "reset"}]
    <3>1. /\ request \in [Conns -> {"none", "valid", "invalid", "unterminated"}]
          /\ link \in [Conns -> {"up", "fin", "epipe", "reset"}]
      BY <1>1 DEF StreamTypeOK
    <3>2. request' \in [Conns -> {"none", "valid", "invalid", "unterminated"}]
      BY <1>5, <3>1
    <3>3. link' \in [Conns -> {"up", "fin", "epipe", "reset"}]
      BY <1>5, <3>1
    <3>. QED
      BY <3>2, <3>3
  <2>4. unread' \in [Conns -> 0 .. Window]
    <3>1. unread \in [Conns -> 0 .. Window] /\ unread[c] \in 0 .. Window
      BY <1>1 DEF StreamTypeOK
    <3>. QED
      BY <1>6, <3>1
  <2>5. to_send' \in [Conns -> 0 .. SongChunks]
    <3>1. /\ to_send \in [Conns -> 0 .. SongChunks]
          /\ to_send[c] \in 0 .. SongChunks
      BY <1>1 DEF StreamTypeOK
    <3>. QED
      BY <1>7, <3>1
  <2>. QED
    BY <1>1, <1>2, <2>1, <2>2, <2>3, <2>4, <2>5 DEF StreamTypeOK
<1>9. \A d \in Conns :
        /\ \/ handler'[d] = handler[d]
           \/ /\ handler[d] \in {"recv", "open", "stream"}
              /\ handler'[d] \in {"open", "stream", "close"}
        /\ client'[d] = "new" <=> client[d] = "new"
  BY <1>1, <1>3, <1>4 DEF StreamTypeOK
<1>10. PlaceInv'
  <2>1. \A n \in DOMAIN backlog : backlog[n] \in Conns
    BY <1>1 DEF StreamTypeOK
  <2>. QED
    BY <1>2, <1>9, <2>1 DEF StreamInv, PlaceInv, Up
<1>11. CountInv'
  <2>1. SUFFICES ASSUME Up' PROVE CountInv'
    BY DEF CountInv
  <2>2. UNCHANGED main_pc
    BY <1>2, <2>1 DEF Up
  <2>3. Counted' = Counted
    BY <1>2, <1>9, <2>2 DEF Counted
  <2>. QED
    BY <1>2, <2>2, <2>3 DEF StreamInv, CountInv, Up
<1>. QED
  BY <1>8, <1>10, <1>11 DEF StreamInv

(* A connection whose socket is closed counts until the count is lowered. *)
LEMMA HandlerCloseKeeps ==
  ASSUME StreamInv, NEW c \in Conns, HandlerClose(c)
  PROVE  StreamInv'
<1> USE StreamAssumption
<1>1. /\ handler[c] = "close" /\ handler' = [handler EXCEPT ![c] = "release"]
      /\ server_end' = [server_end EXCEPT ![c] = "closed"]
      /\ UNCHANGED <<main_vars, live_handlers_count, backlog, client, request,
                     link, unread, to_send>>
  BY DEF HandlerClose, HandlerGo
<1>2. StreamTypeOK
  BY DEF StreamInv
<1>3. /\ handler'[c] = "release" /\ server_end'[c] = "closed"
      /\ \A d \in Conns \ {c} :
           handler'[d] = handler[d] /\ server_end'[d] = server_end[d]
  BY <1>1, <1>2 DEF StreamTypeOK
<1>4. server_end[c] = "open" /\ c \notin accepted
  BY <1>1 DEF StreamInv, PlaceInv
<1>5. StreamTypeOK'
  BY <1>1, <1>2 DEF StreamTypeOK, main_vars
<1>6. PlaceInv'
  <2>1. \A n \in DOMAIN backlog : backlog[n] \in Conns
    BY <1>2 DEF StreamTypeOK
  <2>. QED
    BY <1>1, <1>3, <1>4, <2>1 DEF StreamInv, PlaceInv, Up, main_vars
<1>7. Counted' = Counted
  BY <1>1, <1>3, <1>4 DEF Counted, main_vars
<1>8. CountInv'
  BY <1>1, <1>7 DEF StreamInv, CountInv, Up, main_vars
<1>. QED
  BY <1>5, <1>6, <1>8 DEF StreamInv

(* The place is given back, and main is woken if it waits for one. *)
LEMMA HandlerReleaseKeeps ==
  ASSUME StreamInv, NEW c \in Conns, HandlerRelease(c)
  PROVE  StreamInv'
<1> USE StreamAssumption
<1>1. /\ Up /\ handler[c] = "release"
      /\ handler' = [handler EXCEPT ![c] = "ended"]
      /\ live_handlers_count' = live_handlers_count - 1
      /\ main_pc' = IF main_pc = "asleep" THEN "woken" ELSE main_pc
      /\ UNCHANGED <<stop, listening, accepted, interrupts, conn_vars, to_send>>
  BY DEF HandlerRelease, HandlerGo
<1>2. StreamTypeOK
  BY DEF StreamInv
<1>3. /\ handler'[c] = "ended"
      /\ \A d \in Conns \ {c} : handler'[d] = handler[d]
  BY <1>1, <1>2 DEF StreamTypeOK
<1>4. server_end[c] = "closed" /\ c \notin accepted
  BY <1>1 DEF StreamInv, PlaceInv
<1>5. Counted \in SUBSET Conns /\ c \in Counted
  BY <1>1, <1>4 DEF Counted
<1>6. /\ Cardinality(Counted) > 0
      /\ Cardinality(Counted \ {c}) = Cardinality(Counted) - 1
  BY <1>5, ConnSets
<1>7. live_handlers_count = Cardinality(Counted)
  BY <1>1 DEF StreamInv, CountInv
<1>8. main_pc' = "accepted" <=> main_pc = "accepted"
  BY <1>1
<1>9. StreamTypeOK'
  <2>1. live_handlers_count' \in 0 .. MAX_CONCURRENT_CLIENTS
    BY <1>1, <1>2, <1>6, <1>7 DEF StreamTypeOK
  <2>. QED
    BY <1>1, <1>2, <2>1 DEF StreamTypeOK, conn_vars
<1>10. PlaceInv'
  <2>1. \A n \in DOMAIN backlog : backlog[n] \in Conns
    BY <1>2 DEF StreamTypeOK
  <2>. QED
    BY <1>1, <1>3, <1>4, <2>1 DEF StreamInv, PlaceInv, Up, conn_vars
<1>11. Counted' = Counted \ {c}
  BY <1>1, <1>3, <1>4, <1>8 DEF Counted, conn_vars
<1>12. CountInv'
  <2>1. live_handlers_count' = Cardinality(Counted')
    BY <1>1, <1>6, <1>7, <1>11
  <2>2. main_pc' # "asleep"
    BY <1>1
  <2>3. main_pc' \in {"accept", "accepted"} =>
          live_handlers_count' < MAX_CONCURRENT_CLIENTS
    BY <1>1, <1>2 DEF StreamInv, CountInv, StreamTypeOK
  <2>. QED
    BY <2>1, <2>2, <2>3 DEF CountInv
<1>. QED
  BY <1>9, <1>10, <1>12 DEF StreamInv

(* A new connection waits behind the others, or is refused. *)
LEMMA ClientConnectKeeps ==
  ASSUME StreamInv, NEW c \in Conns, ClientConnect(c)
  PROVE  StreamInv'
<1> USE StreamAssumption
<1>1. /\ client[c] = "new"
      /\ \E l \in {"prompt", "gone"} : client' = [client EXCEPT ![c] = l]
      /\ \/ backlog' = Append(backlog, c) \/ UNCHANGED backlog
      /\ UNCHANGED <<main_vars, live_handlers_count, request, link, unread,
                     server_end, handler_vars>>
  BY DEF ClientConnect, ClientGo
<1>2. StreamTypeOK
  BY DEF StreamInv
<1>3. /\ client' \in [Conns -> {"new", "prompt", "playing", "gone"}]
      /\ client'[c] # "new"
      /\ \A d \in Conns \ {c} : client'[d] = client[d]
  BY <1>1, <1>2 DEF StreamTypeOK
<1>4. server_end[c] = "none"
  BY <1>1 DEF StreamInv, PlaceInv
<1>5. /\ backlog \in Seq(Conns) /\ Len(backlog) \in Nat
      /\ DOMAIN backlog = 1 .. Len(backlog)
      /\ \A n \in DOMAIN backlog : backlog[n] \in Conns /\ backlog[n] # c
  BY <1>1, <1>2 DEF StreamInv, StreamTypeOK, PlaceInv
<1>6. backlog' \in Seq(Conns)
  BY <1>1, <1>5
<1>7. StreamTypeOK'
  BY <1>1, <1>2, <1>3, <1>6 DEF StreamTypeOK, main_vars, handler_vars
<1>8. /\ \A m, n \in DOMAIN backlog' : backlog'[m] = backlog'[n] => m = n
      /\ \A n \in DOMAIN backlog' :
           server_end[backlog'[n]] = "none" /\ client'[backlog'[n]] # "new"
  <2>1. CASE UNCHANGED backlog
    BY <1>3, <1>5, <2>1 DEF StreamInv, PlaceInv
  <2>2. CASE backlog' = Append(backlog, c)
    <3>1. /\ DOMAIN backlog' = 1 .. Len(backlog) + 1
          /\ backlog'[Len(backlog) + 1] = c
          /\ \A n \in DOMAIN backlog : backlog'[n] = backlog[n]
      BY <1>5, <2>2
    <3>2. \A n \in DOMAIN backlog' :
            n \in DOMAIN backlog \/ n = Len(backlog) + 1
      BY <1>5, <3>1
    <3>3. \A m, n \in DOMAIN backlog : backlog[m] = backlog[n] => m = n
      BY DEF StreamInv, PlaceInv
    <3>4. \A n \in DOMAIN backlog :
            server_end[backlog[n]] = "none" /\ client[backlog[n]] # "new"
      BY DEF StreamInv, PlaceInv
    <3>5. \A m, n \in DOMAIN backlog' : backlog'[m] = backlog'[n] => m = n
      BY <1>5, <3>1, <3>2, <3>3
    <3>6. \A n \in DOMAIN backlog' :
            server_end[backlog'[n]] = "none" /\ client'[backlog'[n]] # "new"
      BY <1>3, <1>4, <1>5, <3>1, <3>2, <3>4
    <3>. QED
      BY <3>5, <3>6
  <2>. QED
    BY <1>1, <2>1, <2>2
<1>9. PlaceInv'
  BY <1>1, <1>3, <1>8
  DEF StreamInv, PlaceInv, Up, main_vars, handler_vars
<1>10. Counted' = Counted
  BY <1>1 DEF Counted, main_vars, handler_vars
<1>11. CountInv'
  BY <1>1, <1>10 DEF StreamInv, CountInv, Up, main_vars
<1>. QED
  BY <1>7, <1>9, <1>11 DEF StreamInv
-----------------------------------------------------------------------------
(* Theorems *)

LEMMA StepStreamInv == StreamInv /\ [Next]_vars => StreamInv'
<1> SUFFICES ASSUME StreamInv, [Next]_vars PROVE StreamInv'
  OBVIOUS
<1>1. CASE MainStep \/ SpuriousWakeup
  BY <1>1, MainGoesKeeps, MainAcceptKeeps, MainAcceptedKeeps, MainCreateKeeps
  DEF MainStep
<1>2. CASE Interrupt
  BY <1>2, InterruptKeeps
<1>3. ASSUME NEW c \in Conns,
             \/ HandlerStep(c) \/ ClientStep(c)
             \/ ClientConnect(c) \/ ClientKill(c)
      PROVE  StreamInv'
  BY <1>3, QuietStepsKeep, HandlerCloseKeeps, HandlerReleaseKeeps,
     ClientConnectKeeps
  DEF HandlerStep, ClientStep
<1>4. CASE UNCHANGED vars
  BY <1>4 DEF StreamInv, StreamTypeOK, PlaceInv, CountInv, Counted, Up, vars,
              main_vars, conn_vars, handler_vars
<1>. QED
  BY <1>1, <1>2, <1>3, <1>4 DEF Next

(* Every connection is in one place at a time, and the count is the number *)
(* of connections main has counted and no handler has counted down.        *)
THEOREM StreamInvHolds == Spec => []StreamInv
<1>. QED
  BY InitStreamInv, StepStreamInv, PTL DEF Spec

(* Every variable stays in its type, and live_handlers_count stays between *)
(* 0 and MAX_CONCURRENT_CLIENTS.                                           *)
THEOREM StreamTypeCorrect == Spec => []StreamTypeOK
<1>1. StreamInv => StreamTypeOK
  BY DEF StreamInv
<1>. QED
  BY <1>1, StreamInvHolds, PTL

(* Neither the open sockets nor the running handlers pass the limit, with  *)
(* any number of clients and any limit, whatever pthread_create answers.   *)
THEOREM ClientLimitHolds == Spec => []AtMostMax
<1>1. StreamInv => AtMostMax
  <2> SUFFICES ASSUME StreamInv, Up
               PROVE  /\ Cardinality({c \in Conns : server_end[c] = "open"})
                           <= MAX_CONCURRENT_CLIENTS
                      /\ Cardinality(Handlers \cup accepted)
                           <= live_handlers_count
                              + (IF main_pc = "accepted" THEN 1 ELSE 0)
    BY DEF AtMostMax
  <2> DEFINE open == {c \in Conns : server_end[c] = "open"}
             running == Handlers \cup accepted
  <2>1. /\ live_handlers_count = Cardinality(Counted)
        /\ live_handlers_count \in 0 .. MAX_CONCURRENT_CLIENTS
        /\ MAX_CONCURRENT_CLIENTS \in Nat
        /\ main_pc = "accepted" =>
             live_handlers_count < MAX_CONCURRENT_CLIENTS
    BY StreamAssumption DEF StreamInv, StreamTypeOK, CountInv
  <2>2. Counted \in SUBSET Conns /\ Cardinality(Counted) \in Nat
    BY ConnSets DEF Counted
  <2>3. Handlers \subseteq Counted
    BY DEF Handlers, Counted, StreamInv, PlaceInv
  <2>4. CASE main_pc # "accepted" \/ accepted = NoConn
    <3>1. open \subseteq Counted
      BY <2>4 DEF Counted, NoConn
    <3>2. accepted \subseteq Counted
      BY <2>4 DEF Counted, NoConn, StreamInv, StreamTypeOK, PlaceInv
    <3>3. running \subseteq Counted
      BY <2>3, <3>2
    <3>. HIDE DEF open, running
    <3>4. /\ Cardinality(open) <= Cardinality(Counted)
          /\ Cardinality(running) <= Cardinality(Counted)
      BY <2>2, <3>1, <3>3, ConnSets
    <3>5. Cardinality(open) \in Nat /\ Cardinality(running) \in Nat
      BY <2>2, <3>1, <3>3, ConnSets
    <3>6. /\ Cardinality(open) <= MAX_CONCURRENT_CLIENTS
          /\ Cardinality(running)
               <= live_handlers_count + (IF main_pc = "accepted" THEN 1 ELSE 0)
      BY <2>1, <3>4, <3>5
    <3>. QED
      BY <3>6 DEF open, running
  <2>5. CASE main_pc = "accepted" /\ accepted # NoConn
    <3>1. PICK c \in Conns : accepted = {c}
      BY <2>5 DEF StreamInv, StreamTypeOK
    <3>2. c \notin Counted
      BY <2>5, <3>1 DEF Counted, StreamInv, PlaceInv
    <3>3. open \subseteq Counted \cup {c}
      BY <3>1 DEF Counted
    <3>4. running \subseteq Counted \cup {c}
      BY <2>3, <3>1
    <3>. HIDE DEF open, running
    <3>5. Cardinality(Counted \cup {c}) = Cardinality(Counted) + 1
      BY <2>2, <3>2, ConnSets
    <3>6. Counted \cup {c} \in SUBSET Conns
      BY <2>2
    <3>7. /\ Cardinality(open) <= Cardinality(Counted \cup {c})
          /\ Cardinality(running) <= Cardinality(Counted \cup {c})
          /\ Cardinality(open) \in Nat /\ Cardinality(running) \in Nat
      BY <3>3, <3>4, <3>6, ConnSets
    <3>8. /\ Cardinality(open) <= MAX_CONCURRENT_CLIENTS
          /\ Cardinality(running)
               <= live_handlers_count + (IF main_pc = "accepted" THEN 1 ELSE 0)
      BY <2>1, <2>5, <3>5, <3>7
    <3>. QED
      BY <3>8 DEF open, running
  <2>. QED
    BY <2>4, <2>5
<1>. QED
  BY <1>1, StreamInvHolds, PTL

(* While main sleeps every place is taken, by a handler that will signal   *)
(* it or by a connection whose thread could not be started.                *)
THEOREM WakeupIsNotLost == Spec => []MainNotStranded
<1>1. StreamInv => MainNotStranded
  <2> SUFFICES ASSUME StreamInv, main_pc = "asleep"
               PROVE  Cardinality(Handlers) + Cardinality(Unstarted)
                        = MAX_CONCURRENT_CLIENTS
    BY DEF MainNotStranded
  <2>1. Cardinality(Counted) = MAX_CONCURRENT_CLIENTS
    BY DEF StreamInv, CountInv, Up
  <2>2. accepted = {}
    BY DEF StreamInv, PlaceInv, Up, NoConn
  <2>3. handler \in [Conns -> {"none", "recv", "open", "stream", "close",
                               "release", "ended"}]
    BY DEF StreamInv, StreamTypeOK
  <2>4. Counted = Handlers \cup Unstarted
    BY <2>2, <2>3 DEF Counted, Handlers, Unstarted, StreamInv, PlaceInv
  <2>5. Handlers \cap Unstarted = {}
    BY DEF Handlers, Unstarted
  <2>6. IsFiniteSet(Handlers) /\ IsFiniteSet(Unstarted)
    BY ConnSets DEF Handlers, Unstarted
  <2>7. Cardinality(Handlers \cup Unstarted)
          = Cardinality(Handlers) + Cardinality(Unstarted)
    <3>1. /\ Cardinality(Handlers) \in Nat /\ Cardinality(Unstarted) \in Nat
          /\ Cardinality({}) = 0
      BY <2>6, FS_CardinalityType, FS_EmptySet
    <3>2. Cardinality(Handlers \cup Unstarted)
            = Cardinality(Handlers) + Cardinality(Unstarted) - Cardinality({})
      <4>. HIDE DEF Handlers, Unstarted
      <4>. QED
        BY <2>5, <2>6, FS_Union
    <3>. QED
      BY <3>1, <3>2
  <2>. QED
    BY <2>1, <2>4, <2>7
<1>. QED
  BY <1>1, StreamInvHolds, PTL
=============================================================================
