-------------------------- MODULE ChatServerProofs --------------------------
(***************************************************************************)
(* Proofs about the chat server, for any number of clients, any names, any *)
(* limit, with and without a timeout.                                      *)
(***************************************************************************)
EXTENDS ChatServer, FiniteSetTheorems, WellFoundedInduction, TLAPS

-----------------------------------------------------------------------------
(* The inductive invariant *)

(* A connection waits in the backlog without a descriptor; from accept on  *)
(* it has one, and main or a thread that serves it.  A descriptor belongs  *)
(* to the connection that accept gave it to, or to nobody.                 *)
PlaceInv ==
  /\ \A m, n \in DOMAIN backlog : backlog[m] = backlog[n] => m = n
  /\ \A n \in DOMAIN backlog :
       sock[backlog[n]] = 0 /\ peer[backlog[n]] # "new"
  /\ \A c \in Conns :
       /\ peer[c] = "new" => sock[c] = 0
       /\ sock[c] = 0 => handler[c] = "none"
       /\ c = accepted => sock[c] # 0 /\ handler[c] = "none"
  /\ Up => (main_pc \in {"start", "counted"} <=> accepted # NoConn)
  /\ \A f \in Fds : owner[f] # NoConn => sock[owner[f]] = f

(* Where a thread is tells whether its client has a name and is on line.   *)
Unnamed == {"none", "welcome", "name"}
Named == {"check", "insert", "online", "refused", "refused_notify", "joined",
          "text", "left", "wait", "list", "unregister", "erase"}
Chatting == {"text", "wait", "list", "unregister"}
Places == {"none", "welcome", "name", "check", "insert", "online", "refused",
           "refused_notify", "wait", "list", "unregister", "erase", "close",
           "notify", "ended"} \cup Broadcasting

ThreadOK(c) ==
  /\ handler[c] \in Unnamed => name[c] = 0
  /\ handler[c] \in Named => name[c] # 0
  /\ is_online[c] => handler[c] \in Chatting \cup {"joined"}
  /\ handler[c] \in Chatting => is_online[c]
  /\ handler[c] \in {"refused", "refused_notify"} => c \in refused
  /\ c \in deleted => handler[c] = "ended"

ThreadInv == \A c \in Conns : ThreadOK(c)

(* Between the insertion and the erasure, which is not quite the same as   *)
(* being on line.                                                          *)
Enrolled(c) == is_online[c] \/ handler[c] \in {"online", "erase"}

(* Whom the map knows goes by the key and is enrolled; and who is enrolled *)
(* is in the map, unless an entry under its name was written over.         *)
RegistryInv ==
  /\ \A n \in Names :
       users[n] # NoConn => name[users[n]] = n /\ Enrolled(users[n])
  /\ \A c \in Conns :
       Enrolled(c) /\ name[c] \notin replaced => users[name[c]] = c

(* Unless a client was refused, a connection has its descriptor from       *)
(* accept to its own close, or until main closes it as the server stops.   *)
Held(c) == handler[c] \notin {"none", "ended"} \/ c = accepted

SocketInv ==
  /\ NobodyRefused /\ Serving =>
       \A c \in Conns : Held(c) <=> sock[c] # 0 /\ owner[sock[c]] = c
  /\ NobodyRefused /\ main_pc = "closing" =>
       \A c \in Conns : Held(c) => owner[sock[c]] \in {c, NoConn}

(* The clients main has counted and that are not counted down yet.         *)
Counted ==
  {c \in Conns :
     \/ handler[c] \notin {"none", "notify", "refused_notify", "ended"}
     \/ main_pc = "counted" /\ c = accepted}

(* The count never passes the limit, and between the test of line 184 and  *)
(* the increment of line 351 it has room for one; unless a client was      *)
(* refused it is exact.                                                    *)
CountInv ==
  /\ live_users <= MaxClients
  /\ main_pc \in {"accept", "start"} => live_users < MaxClients
  /\ NobodyRefused /\ Serving => live_users = Cardinality(Counted)

ChatInv ==
  VarTypes /\ PlaceInv /\ ThreadInv /\ RegistryInv /\ SocketInv /\ CountInv

(* A name that was sent is not empty. *)
TypedInv == \A c \in Conns : inbox[c] = "name" => typed[c] # 0
-----------------------------------------------------------------------------
(* Lemmas *)

LEMMA MinIsLeast ==
  ASSUME NEW S \in SUBSET Nat, S # {}
  PROVE  Min(S) \in S /\ \A n \in S : Min(S) =< n
<1>. DEFINE R == OpToRel(<, Nat)
<1>1. IsWellFoundedOn(R, Nat)
  BY NatLessThanWellFounded
<1>2. \A m, n \in Nat : n < m => <<n, m>> \in R
  BY DEF OpToRel
<1>. HIDE DEF R
<1>3. PICK m \in S : \A n \in S : <<n, m>> \notin R
  BY <1>1, WFMin, Zenon
<1>4. \A n \in S : ~(n < m)
  BY <1>2, <1>3, Zenon
<1>5. \A n \in S : m =< n
  BY <1>4
<1>. QED
  BY <1>5 DEF Min

LEMMA ConnsFacts ==
  /\ NoConn \notin Conns /\ Conns \subseteq Int
  /\ Names \subseteq Nat /\ 0 \notin Names
  /\ 0 \notin Fds /\ Fds \subseteq Nat
  /\ MaxClients \in Nat \ {0} /\ MaxEvents \in Nat
  /\ Cardinality(Conns) \in Nat
<1>1. Cardinality(Conns) \in Nat
  BY ChatAssumption, FS_CardinalityType
<1>. QED
  BY <1>1, ChatAssumption DEF NoConn, Fds

LEMMA ConnSets ==
  ASSUME NEW S \in SUBSET Conns
  PROVE  /\ IsFiniteSet(S) /\ Cardinality(S) \in Nat
         /\ \A c : c \notin S => Cardinality(S \cup {c}) = Cardinality(S) + 1
         /\ \A c \in S : /\ Cardinality(S \ {c}) = Cardinality(S) - 1
                         /\ Cardinality(S) > 0
<1>1. IsFiniteSet(S)
  BY ChatAssumption, FS_Subset
<1>2. Cardinality(S) \in Nat
  BY <1>1, FS_CardinalityType
<1>3. \A c : c \notin S => Cardinality(S \cup {c}) = Cardinality(S) + 1
  BY <1>1, FS_AddElement
<1>4. \A c \in S : Cardinality(S \ {c}) = Cardinality(S) - 1
  BY <1>1, FS_RemoveElement
<1>5. \A c \in S : Cardinality(S) > 0
  BY <1>1, <1>2, FS_EmptySet
<1>. QED
  BY <1>1, <1>2, <1>3, <1>4, <1>5

(* A connection that has no descriptor leaves one free: each of the others *)
(* owns one at most.                                                       *)
LEMMA FreeFd ==
  ASSUME VarTypes, PlaceInv, NEW c \in Conns, sock[c] = 0
  PROVE  LET free == {g \in Fds : owner[g] = NoConn}
         IN  Min(free) \in free
<1>. DEFINE free == {g \in Fds : owner[g] = NoConn}
            others == Conns \ {c}
            theirs == {sock[d] : d \in others}
<1>1. SUFFICES ASSUME free = {} PROVE FALSE
  <2>1. free \in SUBSET Nat
    BY ConnsFacts
  <2>. QED
    BY <2>1, <1>1, MinIsLeast
<1>2. \A f \in Fds : owner[f] \in Conns /\ sock[owner[f]] = f
  BY <1>1 DEF VarTypes, PlaceInv
<1>3. \A f \in Fds : owner[f] # c
  BY <1>2, ConnsFacts
<1>4. Fds \subseteq theirs
  BY <1>2, <1>3
<1>5. /\ IsFiniteSet(others)
      /\ Cardinality(others) = Cardinality(Conns) - 1
  <2>1. IsFiniteSet(Conns)
    BY ChatAssumption
  <2>. QED
    BY <2>1, FS_RemoveElement
<1>6. IsFiniteSet(theirs) /\ Cardinality(theirs) <= Cardinality(others)
  <2>. DEFINE h == [d \in others |-> sock[d]]
  <2>1. h \in Surjection(others, theirs)
    BY DEF Surjection
  <2>. HIDE DEF h, others, theirs
  <2>. QED
    BY <1>5, <2>1, FS_Surjection
<1>7. Cardinality(Fds) = Cardinality(Conns)
  <2>. DEFINE n == Cardinality(Conns)
  <2>1. n \in Nat
    BY ConnsFacts
  <2>. HIDE DEF n
  <2>2. Cardinality(1 .. n) = IF 1 > n THEN 0 ELSE n - 1 + 1
    BY <2>1, FS_Interval
  <2>3. Cardinality(1 .. n) = n
    BY <2>1, <2>2
  <2>. QED
    BY <2>3 DEF n, Fds
<1>8. Cardinality(Fds) <= Cardinality(theirs)
  <2>. HIDE DEF theirs
  <2>. QED
    BY <1>4, <1>6, FS_Subset
<1>9. Cardinality(theirs) \in Nat /\ Cardinality(Conns) \in Nat
  BY <1>6, ConnsFacts, FS_CardinalityType
<1>. HIDE DEF theirs, others
<1>. QED
  BY <1>5, <1>6, <1>7, <1>8, <1>9

(* What a message and a close may change. *)
LEMMA SendEffect ==
  ASSUME VarTypes, NEW f \in Fds \cup {0}, SendTo(f)
  PROVE  /\ link' \in [Conns -> {"up", "fin", "epipe"}]
         /\ main_pc' \in {main_pc, "killed"}
  BY DEF VarTypes, SendTo, At

LEMMA CloseEffect ==
  ASSUME VarTypes, NEW f \in Fds \cup {0}, CloseSock(f)
  PROVE  /\ owner' \in [Fds -> Conns \cup {NoConn}]
         /\ peer' \in [Conns -> {"new", "connected", "prompt", "chatting",
                                 "gone"}]
         /\ inbox' \in [Conns -> {"empty", "name"} \cup Lines]
         /\ link' \in [Conns -> {"up", "fin", "epipe"}]
         /\ \A g \in Fds : owner'[g] = IF g = f THEN NoConn ELSE owner[g]
         /\ \A c \in Conns : peer'[c] \in {peer[c], "gone"}
<1>1. /\ owner \in [Fds -> Conns \cup {NoConn}]
      /\ peer \in [Conns -> {"new", "connected", "prompt", "chatting", "gone"}]
      /\ inbox \in [Conns -> {"empty", "name"} \cup Lines]
      /\ link \in [Conns -> {"up", "fin", "epipe"}]
  BY DEF VarTypes
<1>2. CASE UNCHANGED <<owner, peer, inbox, link>> /\ At(f) = NoConn
  <2>1. \A g \in Fds : g = f => owner[g] = NoConn
    BY <1>2, ConnsFacts DEF At
  <2>. QED
    BY <1>1, <1>2, <2>1
<1>3. CASE /\ At(f) # NoConn
           /\ owner' = [owner EXCEPT ![f] = NoConn]
           /\ ClientStops(At(f))
  <2>1. f \in Fds /\ At(f) \in Conns
    BY <1>1, <1>3 DEF At
  <2>. QED
    BY <1>1, <1>3, <2>1 DEF ClientStops
<1>. QED
  BY <1>2, <1>3 DEF CloseSock
-----------------------------------------------------------------------------
(* Types *)

LEMMA MainTypes ==
  ASSUME ChatInv, MainStep \/ SpuriousWakeup \/ Interrupt \/ Crash
  PROVE  VarTypes'
<1>. USE ConnsFacts
<1>1. VarTypes
  BY DEF ChatInv
<1>2. CASE \/ MainPredicate \/ MainSleep \/ SpuriousWakeup \/ Crash
           \/ MainExit
  <2>1. /\ main_pc' \in {"pred", "falling", "asleep", "accept", "closing",
                         "exited", "crashed"}
        /\ UNCHANGED <<flags, live_users, users, owner, peer_vars, handler,
                       client_vars, loop_vars>>
    BY <1>2
    DEF MainPredicate, MainSleep, SpuriousWakeup, Crash, MainExit, MainGo
  <2>. QED
    BY <1>1, <2>1 DEF VarTypes, flags, peer_vars, client_vars, loop_vars
<1>3. CASE MainAccept
  <2>1. CASE main_pc' = "pred" /\ UNCHANGED <<accepted, sock, owner, backlog>>
    BY <1>1, <1>3, <2>1 DEF VarTypes, MainAccept, history, loop_vars
  <2>2. CASE /\ backlog # <<>>
             /\ main_pc' = "start"
             /\ LET c == Head(backlog)
                    f == Min({g \in Fds : owner[g] = NoConn})
                IN  /\ accepted' = c
                    /\ sock' = [sock EXCEPT ![c] = f]
                    /\ owner' = [owner EXCEPT ![f] = c]
             /\ backlog' = Tail(backlog)
    <3>. DEFINE c == Head(backlog)
                f == Min({g \in Fds : owner[g] = NoConn})
    <3>1. /\ backlog \in Seq(Conns) /\ backlog' \in Seq(Conns)
          /\ c \in Conns /\ 1 \in DOMAIN backlog /\ c = backlog[1]
      BY <1>1, <2>2 DEF VarTypes
    <3>2. sock[c] = 0
      BY <3>1 DEF ChatInv, PlaceInv
    <3>3. f \in Fds
      BY <1>1, <3>1, <3>2, FreeFd DEF ChatInv
    <3>4. /\ accepted' = c /\ sock' = [sock EXCEPT ![c] = f]
          /\ owner' = [owner EXCEPT ![f] = c]
      BY <2>2
    <3>. HIDE DEF c, f
    <3>5. /\ sock' \in [Conns -> Fds \cup {0}]
          /\ owner' \in [Fds -> Conns \cup {NoConn}]
          /\ accepted' \in Conns \cup {NoConn}
      BY <1>1, <3>1, <3>3, <3>4 DEF VarTypes
    <3>. QED
      BY <1>1, <1>3, <2>2, <3>1, <3>5
      DEF VarTypes, MainAccept, history, loop_vars
  <2>. QED
    BY <1>3, <2>1, <2>2 DEF MainAccept, MainGo
<1>4. CASE MainStart
  <2>1. accepted \in Conns
    BY <1>1, <1>4 DEF MainStart, MainGo, ChatInv, VarTypes, PlaceInv, Up
  <2>2. /\ accepted' \in Conns \cup {NoConn}
        /\ main_pc' \in {"pred", "crashed", "closing"}
        /\ live_users' \in Int
        /\ UNCHANGED <<running, listening, events, main_pos, main_visiting,
                       users, backlog, typed, client_vars, loop_vars>>
    BY <1>1, <1>4 DEF MainStart, MainGo, VarTypes
  <2>3. handler' \in [Conns -> Places]
    BY <1>1, <1>4, <2>1 DEF MainStart, VarTypes, Places
  <2>4. CASE UNCHANGED <<owner, peer, inbox, link>>
    BY <1>1, <2>2, <2>3, <2>4 DEF VarTypes, Places, client_vars, loop_vars
  <2>5. CASE CloseSock(sock[accepted])
    <3>1. sock[accepted] \in Fds \cup {0}
      BY <1>1, <2>1 DEF VarTypes
    <3>2. /\ owner' \in [Fds -> Conns \cup {NoConn}]
          /\ peer' \in [Conns -> {"new", "connected", "prompt", "chatting",
                                  "gone"}]
          /\ inbox' \in [Conns -> {"empty", "name"} \cup Lines]
          /\ link' \in [Conns -> {"up", "fin", "epipe"}]
      BY <1>1, <2>5, <3>1, CloseEffect
    <3>. QED
      BY <1>1, <2>2, <2>3, <3>2 DEF VarTypes, Places, client_vars, loop_vars
  <2>. QED
    BY <1>4, <2>4, <2>5 DEF MainStart
<1>5. CASE MainClose
  <2>1. /\ main_visiting \in Conns /\ main_visiting' \in Conns \cup {NoConn}
        /\ live_users' \in Int
        /\ CloseSock(sock[main_visiting])
        /\ UNCHANGED <<main_pc, running, listening, accepted, events, main_pos,
                       users, backlog, typed, handler, client_vars, loop_vars>>
    BY <1>1, <1>5 DEF MainClose, VarTypes
  <2>2. sock[main_visiting] \in Fds \cup {0}
    BY <1>1, <2>1 DEF VarTypes
  <2>3. /\ owner' \in [Fds -> Conns \cup {NoConn}]
        /\ peer' \in [Conns -> {"new", "connected", "prompt", "chatting",
                                "gone"}]
        /\ inbox' \in [Conns -> {"empty", "name"} \cup Lines]
        /\ link' \in [Conns -> {"up", "fin", "epipe"}]
    BY <1>1, <2>1, <2>2, CloseEffect
  <2>. QED
    BY <1>1, <2>1, <2>3 DEF VarTypes, client_vars, loop_vars
<1>6. CASE MainVisit
  <2>1. PICK n \in Names : main_pos' = n + 1 /\ main_visiting' = users[n]
    <3>1. /\ KeysFrom(main_pos) \in SUBSET Nat
          /\ KeysFrom(main_pos) \subseteq Names
      BY DEF KeysFrom, Registered
    <3>2. Min(KeysFrom(main_pos)) \in Names
      BY <1>6, <3>1, MinIsLeast DEF MainVisit
    <3>. QED
      BY <1>6, <3>2 DEF MainVisit
  <2>2. main_pos' \in Nat /\ main_visiting' \in Conns \cup {NoConn}
    BY <1>1, <2>1 DEF VarTypes
  <2>. QED
    BY <1>1, <1>6, <2>2
    DEF VarTypes, MainVisit, peer_vars, client_vars, loop_vars
<1>7. CASE MainCount
  <2>1. live_users' \in Int
    BY <1>1, <1>7 DEF MainCount, VarTypes
  <2>. QED
    BY <1>1, <1>7, <2>1
    DEF VarTypes, MainCount, MainGo, flags, peer_vars, client_vars, loop_vars
<1>8. CASE Interrupt
  <2>1. /\ main_pc' \in {"pred", main_pc} /\ running' = FALSE
        /\ events' \in 0 .. MaxEvents /\ listening' = "shut"
        /\ UNCHANGED <<accepted, main_pos, main_visiting, live_users, users,
                       owner, inbox, typed, link, handler, client_vars,
                       loop_vars>>
    BY <1>1, <1>8 DEF Interrupt, NotifyAll, VarTypes
  <2>2. peer' \in [Conns -> {"new", "connected", "prompt", "chatting", "gone"}]
    <3>1. peer \in [Conns -> {"new", "connected", "prompt", "chatting", "gone"}]
      BY <1>1 DEF VarTypes
    <3>. QED
      BY <1>8, <3>1 DEF Interrupt
  <2>3. backlog' \in Seq(Conns)
    <3>1. <<>> \in Seq(Conns)
      OBVIOUS
    <3>. QED
      BY <1>8, <3>1 DEF Interrupt
  <2>. QED
    BY <1>1, <2>1, <2>2, <2>3 DEF VarTypes, client_vars, loop_vars
<1>. QED
  BY <1>2, <1>3, <1>4, <1>5, <1>6, <1>7, <1>8 DEF MainStep

LEMMA ClientTypes ==
  ASSUME VarTypes, NEW c \in Conns,
         ClientConnect(c) \/ ClientName(c) \/ ClientLine(c) \/ ClientLeave(c)
  PROVE  VarTypes'
<1>. USE ConnsFacts
<1>1. CASE ClientConnect(c)
  <2>1. backlog' \in Seq(Conns)
    <3>1. backlog \in Seq(Conns)
      BY DEF VarTypes
    <3>2. Append(backlog, c) \in Seq(Conns)
      BY <3>1
    <3>. QED
      BY <1>1, <3>1, <3>2 DEF ClientConnect
  <2>2. peer' \in [Conns -> {"new", "connected", "prompt", "chatting", "gone"}]
    BY <1>1 DEF ClientConnect, ClientGo, VarTypes
  <2>. QED
    BY <1>1, <2>1, <2>2
    DEF VarTypes, ClientConnect, main_vars, flags, client_vars, loop_vars
<1>2. CASE ClientName(c)
  <2>1. peer' \in [Conns -> {"new", "connected", "prompt", "chatting", "gone"}]
    BY <1>2 DEF ClientName, ClientGo, VarTypes
  <2>2. inbox' \in [Conns -> {"empty", "name"} \cup Lines]
    BY <1>2 DEF ClientName, VarTypes
  <2>3. typed' \in [Conns -> Names \cup {0}]
    <3>1. NamesOf[c] \subseteq Names
      BY DEF Names
    <3>. QED
      BY <1>2, <3>1 DEF ClientName, VarTypes
  <2>4. events' \in 0 .. MaxEvents
    BY <1>2 DEF ClientName, VarTypes
  <2>. QED
    BY <1>2, <2>1, <2>2, <2>3, <2>4
    DEF VarTypes, ClientName, client_vars, loop_vars
<1>3. CASE ClientLine(c)
  <2>1. inbox' \in [Conns -> {"empty", "name"} \cup Lines]
    BY <1>3 DEF ClientLine, VarTypes
  <2>2. events' \in 0 .. MaxEvents
    BY <1>3 DEF ClientLine, VarTypes
  <2>. QED
    BY <1>3, <2>1, <2>2 DEF VarTypes, ClientLine, client_vars, loop_vars
<1>4. CASE ClientLeave(c)
  <2>1. /\ peer' \in [Conns -> {"new", "connected", "prompt", "chatting",
                                "gone"}]
        /\ link' \in [Conns -> {"up", "fin", "epipe"}]
    BY <1>4 DEF ClientLeave, VarTypes
  <2>2. events' \in 0 .. MaxEvents
    BY <1>4 DEF ClientLeave, VarTypes
  <2>. QED
    BY <1>4, <2>1, <2>2 DEF VarTypes, ClientLeave, client_vars, loop_vars
<1>. QED
  BY <1>1, <1>2, <1>3, <1>4

(* Moving a thread. *)
LEMMA GoTypes ==
  ASSUME VarTypes, NEW c \in Conns, NEW from, NEW to \in Places,
         HandlerGo(c, from, to)
  PROVE  /\ handler' \in [Conns -> Places]
         /\ handler[c] = from /\ handler'[c] = to
         /\ \A d \in Conns : d # c => handler'[d] = handler[d]
<1>1. handler \in [Conns -> Places]
  BY DEF VarTypes, Places
<1>. QED
  BY <1>1 DEF HandlerGo

LEMMA HandlerTypes ==
  ASSUME ChatInv, NEW c \in Conns, HandlerStep(c)
  PROVE  VarTypes'
<1>. USE ConnsFacts
<1>1. /\ VarTypes
      /\ sock[c] \in Fds \cup {0}
      /\ handler \in [Conns -> Places]
  BY DEF ChatInv, VarTypes, Places
<1>2. CASE HandlerWelcome(c)
  <2>1. handler' \in [Conns -> Places]
    BY <1>1, <1>2, GoTypes DEF HandlerWelcome, Places
  <2>2. /\ link' \in [Conns -> {"up", "fin", "epipe"}]
        /\ main_pc' \in {main_pc, "killed"}
    BY <1>1, <1>2, SendEffect DEF HandlerWelcome
  <2>3. peer' \in [Conns -> {"new", "connected", "prompt", "chatting", "gone"}]
    BY <1>1, <1>2 DEF HandlerWelcome, VarTypes
  <2>. QED
    BY <1>1, <1>2, <2>1, <2>2, <2>3
    DEF VarTypes, Places, HandlerWelcome, flags, client_vars, loop_vars
<1>3. CASE HandlerName(c)
  <2>1. handler' \in [Conns -> Places]
    BY <1>1, <1>3, GoTypes DEF HandlerName, NameOr, Places
  <2>2. inbox' \in [Conns -> {"empty", "name"} \cup Lines]
    BY <1>1, <1>3 DEF HandlerName, NameOr, Receive, VarTypes
  <2>3. name' \in [Conns -> Names \cup {0}]
    <3>1. CASE UNCHANGED name
      BY <1>1, <3>1 DEF VarTypes
    <3>2. CASE /\ Receive(c)
               /\ \E n \in IF Received(c) = "name" THEN {typed[At(sock[c])]}
                           ELSE Names :
                    name' = [name EXCEPT ![c] = n]
      <4>1. At(sock[c]) \in Conns
        <5>1. owner \in [Fds -> Conns \cup {NoConn}]
          BY <1>1 DEF VarTypes
        <5>2. At(sock[c]) \in Conns \cup {NoConn}
          BY <1>1, <5>1 DEF At
        <5>3. At(sock[c]) # NoConn
          BY <3>2 DEF Receive
        <5>. QED
          BY <5>2, <5>3
      <4>2. typed[At(sock[c])] \in Names \cup {0}
        BY <1>1, <4>1 DEF VarTypes
      <4>3. \E n \in Names \cup {0} : name' = [name EXCEPT ![c] = n]
        BY <3>2, <4>2
      <4>. QED
        BY <1>1, <4>3 DEF VarTypes
    <3>. QED
      BY <1>3, <3>1, <3>2 DEF HandlerName, NameOr
  <2>. QED
    BY <1>1, <1>3, <2>1, <2>2, <2>3
    DEF VarTypes, Places, HandlerName, NameOr, main_vars, flags, history,
        loop_vars
<1>4. CASE HandlerCheck(c)
  <2>1. handler' \in [Conns -> Places]
    BY <1>1, <1>4, GoTypes DEF HandlerCheck, Places
  <2>2. refused' \subseteq Conns
    BY <1>1, <1>4 DEF HandlerCheck, VarTypes
  <2>3. UNCHANGED <<main_vars, live_users, users, owner, peer_vars, sock, name,
                    is_online, deleted, replaced, loop_vars>>
    BY <1>4 DEF HandlerCheck
  <2>. QED
    BY <1>1, <2>1, <2>2, <2>3
    DEF VarTypes, Places, main_vars, flags, peer_vars, loop_vars
<1>5. CASE HandlerInsert(c)
  <2>1. handler' \in [Conns -> Places]
    BY <1>1, <1>5, GoTypes DEF HandlerInsert, Places
  <2>2. users' \in [Names -> Conns \cup {NoConn}]
    BY <1>1, <1>5 DEF HandlerInsert, VarTypes
  <2>3. replaced' \subseteq Names
    <3>1. handler[c] = "insert"
      BY <1>5 DEF HandlerInsert, HandlerGo
    <3>2. name[c] \in Names
      BY <1>1, <3>1 DEF ChatInv, ThreadInv, ThreadOK, VarTypes, Named
    <3>. QED
      BY <1>1, <1>5, <3>2 DEF HandlerInsert, VarTypes
  <2>. QED
    BY <1>1, <1>5, <2>1, <2>2, <2>3
    DEF VarTypes, Places, HandlerInsert, main_vars, flags, peer_vars, loop_vars
<1>6. ASSUME NEW from, NEW to \in Places, CountDown(c, from, to)
      PROVE  VarTypes'
  <2>1. handler' \in [Conns -> Places]
    BY <1>1, <1>6, GoTypes DEF CountDown
  <2>2. live_users' \in Int
    BY <1>1, <1>6 DEF CountDown, VarTypes
  <2>. QED
    BY <1>1, <1>6, <2>1, <2>2
    DEF VarTypes, Places, CountDown, main_vars, flags, peer_vars, client_vars,
        loop_vars
<1>7. ASSUME NEW from, NEW to \in Places, NotifyAndClose(c, from, to),
             deleted' \subseteq Conns
      PROVE  VarTypes'
  <2>1. handler' \in [Conns -> Places]
    BY <1>1, <1>7, GoTypes DEF NotifyAndClose
  <2>2. /\ owner' \in [Fds -> Conns \cup {NoConn}]
        /\ peer' \in [Conns -> {"new", "connected", "prompt", "chatting",
                                "gone"}]
        /\ inbox' \in [Conns -> {"empty", "name"} \cup Lines]
        /\ link' \in [Conns -> {"up", "fin", "epipe"}]
    BY <1>1, <1>7, CloseEffect DEF NotifyAndClose
  <2>3. main_pc' \in {"pred", main_pc}
    BY <1>7 DEF NotifyAndClose, NotifyAll
  <2>. QED
    BY <1>1, <1>7, <2>1, <2>2, <2>3
    DEF VarTypes, Places, NotifyAndClose, flags, history, loop_vars
<1>8. CASE HandlerRefuse(c)
  <2>1. deleted \subseteq Conns
    BY <1>1 DEF VarTypes
  <2>. QED
    BY <1>6, <1>7, <1>8, <2>1 DEF HandlerRefuse, Places, Broadcasting
<1>9. CASE HandlerClose(c)
  <2>1. CloseAndDelete(c) => deleted' \subseteq Conns
    BY <1>1 DEF CloseAndDelete, VarTypes
  <2>. QED
    BY <1>6, <1>7, <1>9, <2>1 DEF HandlerClose, CloseAndDelete, Places
<1>10. CASE BroadcastNext(c)
  <2>1. PICK n \in Names :
          /\ pos' = [pos EXCEPT ![c] = n + 1]
          /\ visiting' = [visiting EXCEPT ![c] =
                            IF users[n] = c THEN NoConn ELSE users[n]]
    <3>1. KeysFrom(pos[c]) \in SUBSET Nat /\ KeysFrom(pos[c]) \subseteq Names
      BY DEF KeysFrom, Registered
    <3>2. Min(KeysFrom(pos[c])) \in Names
      BY <1>10, <3>1, MinIsLeast DEF BroadcastNext
    <3>. QED
      BY <1>10, <3>2 DEF BroadcastNext
  <2>2. pos' \in [Conns -> Nat]
    BY <1>1, <2>1 DEF VarTypes
  <2>3. visiting' \in [Conns -> Conns \cup {NoConn}]
    BY <1>1, <2>1 DEF VarTypes
  <2>. QED
    BY <1>1, <1>10, <2>2, <2>3
    DEF VarTypes, BroadcastNext, main_vars, flags, peer_vars, client_vars
<1>11. CASE BroadcastSend(c)
  <2>1. sock[visiting[c]] \in Fds \cup {0}
    BY <1>1, <1>11 DEF BroadcastSend, VarTypes
  <2>2. /\ link' \in [Conns -> {"up", "fin", "epipe"}]
        /\ main_pc' \in {main_pc, "killed"}
    BY <1>1, <1>11, <2>1, SendEffect DEF BroadcastSend
  <2>3. visiting' \in [Conns -> Conns \cup {NoConn}]
    BY <1>1, <1>11 DEF BroadcastSend, VarTypes
  <2>. QED
    BY <1>1, <1>11, <2>2, <2>3 DEF VarTypes, BroadcastSend, flags, client_vars
<1>12. CASE BroadcastEnd(c)
  <2>1. handler' \in [Conns -> Places]
    BY <1>1, <1>12 DEF BroadcastEnd, Places, Broadcasting
  <2>2. pos' \in [Conns -> Nat]
    BY <1>1, <1>12 DEF BroadcastEnd, VarTypes
  <2>. QED
    BY <1>1, <1>12, <2>1, <2>2
    DEF VarTypes, Places, BroadcastEnd, main_vars, flags, peer_vars,
        client_vars
<1>13. CASE HandlerMessage(c)
  <2>1. handler' \in [Conns -> Places]
    BY <1>1, <1>13, GoTypes
    DEF HandlerMessage, MessageOrTimeout, Places, Broadcasting
  <2>2. /\ link' \in [Conns -> {"up", "fin", "epipe"}]
        /\ main_pc' \in {main_pc, "killed"}
    <3>1. link \in [Conns -> {"up", "fin", "epipe"}]
      BY <1>1 DEF VarTypes
    <3>. QED
      BY <1>1, <1>13, <3>1, SendEffect DEF HandlerMessage, MessageOrTimeout
  <2>3. inbox' \in [Conns -> {"empty", "name"} \cup Lines]
    BY <1>1, <1>13 DEF HandlerMessage, MessageOrTimeout, Receive, VarTypes
  <2>. QED
    BY <1>1, <1>13, <2>1, <2>2, <2>3
    DEF VarTypes, Places, HandlerMessage, MessageOrTimeout, flags,
        client_vars, loop_vars
<1>14. CASE HandlerList(c)
  <2>1. handler' \in [Conns -> Places]
    BY <1>1, <1>14, GoTypes DEF HandlerList, Places
  <2>2. /\ link' \in [Conns -> {"up", "fin", "epipe"}]
        /\ main_pc' \in {main_pc, "killed"}
    BY <1>1, <1>14, SendEffect DEF HandlerList
  <2>. QED
    BY <1>1, <1>14, <2>1, <2>2
    DEF VarTypes, Places, HandlerList, flags, client_vars, loop_vars
<1>15. CASE HandlerOnline(c) \/ HandlerUnregister(c)
  <2>1. handler' \in [Conns -> Places]
    BY <1>1, <1>15, GoTypes
    DEF HandlerOnline, HandlerUnregister, Places, Broadcasting
  <2>2. is_online' \in [Conns -> BOOLEAN]
    BY <1>1, <1>15 DEF HandlerOnline, HandlerUnregister, VarTypes
  <2>3. UNCHANGED <<main_vars, live_users, users, owner, peer_vars, sock, name,
                    deleted, history, loop_vars>>
    BY <1>15 DEF HandlerOnline, HandlerUnregister
  <2>. QED
    BY <1>1, <2>1, <2>2, <2>3
    DEF VarTypes, Places, main_vars, flags, peer_vars, history, loop_vars
<1>16. CASE HandlerErase(c)
  <2>1. handler' \in [Conns -> Places]
    BY <1>1, <1>16, GoTypes DEF HandlerErase, Places, Broadcasting
  <2>2. users' \in [Names -> Conns \cup {NoConn}]
    BY <1>1, <1>16 DEF HandlerErase, VarTypes
  <2>. QED
    BY <1>1, <1>16, <2>1, <2>2
    DEF VarTypes, Places, HandlerErase, main_vars, flags, peer_vars,
        client_vars, loop_vars
<1>. QED
  BY <1>2, <1>3, <1>4, <1>5, <1>8, <1>9, <1>10, <1>11, <1>12, <1>13, <1>14,
     <1>15, <1>16
  DEF HandlerStep
-----------------------------------------------------------------------------
(* The steps that move no connection, count nobody and leave the map alone *)

(* What main and the threads may do in them. *)
MainMoves ==
  \/ UNCHANGED main_pc
  \/ main_pc' \in {"exited", "killed", "crashed"}
  \/ /\ main_pc \in {"pred", "falling", "asleep"}
     /\ main_pc' \in {"pred", "falling", "asleep", "closing"}
  \/ main_pc = "accept" /\ main_pc' = "pred"
  \/ main_pc = "pred" /\ main_pc' = "accept" /\ live_users < MaxClients

ThreadMoves(c) ==
  \/ handler'[c] = handler[c]
  \/ handler[c] = "welcome" /\ handler'[c] = "name"
  \/ handler[c] = "name" /\ handler'[c] = "close"
  \/ handler[c] = "check" /\ handler'[c] = "insert"
  \/ handler[c] = "check" /\ handler'[c] = "refused" /\ c \in refused'
  \/ is_online[c] /\ handler'[c] \in Chatting
  \/ /\ ~is_online[c] /\ handler[c] \in {"joined", "left"}
     /\ handler'[c] \in {"left", "close"}

(* A step that leaves the map alone and enrols nobody keeps the registry.  *)
LEMMA RegistryStays ==
  ASSUME VarTypes, RegistryInv, UNCHANGED <<users, name, replaced>>,
         \A c \in Conns : Enrolled(c)' <=> Enrolled(c)
  PROVE  RegistryInv'
<1>1. \A n \in Names : users[n] # NoConn => users[n] \in Conns
  BY DEF VarTypes
<1>2. ASSUME NEW n \in Names, users'[n] # NoConn
      PROVE  (name[users[n]] = n /\ Enrolled(users[n]))'
  <2>. DEFINE c == users[n]
  <2>1. c' = c /\ c \in Conns /\ users[n] # NoConn
    BY <1>1, <1>2
  <2>2. name[c] = n /\ Enrolled(c)
    BY <2>1 DEF RegistryInv
  <2>3. is_online'[c'] \/ handler'[c'] \in {"online", "erase"}
    BY <2>1, <2>2 DEF Enrolled
  <2>. QED
    BY <2>1, <2>2, <2>3 DEF Enrolled
<1>3. ASSUME NEW c \in Conns, Enrolled(c)', name'[c] \notin replaced'
      PROVE  users'[name'[c]] = c
  BY <1>3 DEF RegistryInv
<1>. QED
  BY <1>2, <1>3 DEF RegistryInv

LEMMA QuietStepKeeps ==
  ASSUME ChatInv, VarTypes', MainMoves, \A c \in Conns : ThreadMoves(c),
         UNCHANGED <<live_users, accepted, users, owner, sock, name, is_online,
                     deleted, replaced>>,
         refused \subseteq refused',
         backlog' \in {backlog, <<>>},
         \A c \in Conns : peer'[c] = "new" => peer[c] = "new"
  PROVE  ChatInv'
<1>. USE ConnsFacts
<1>1. VarTypes
  BY DEF ChatInv
<1>2. \A c \in Conns :
        /\ handler'[c] \in {"none", "welcome", "ended", "notify",
                            "refused_notify", "joined", "unregister"}
             => handler'[c] = handler[c] \/ handler'[c] = "unregister"
        /\ handler'[c] = "none" <=> handler[c] = "none"
        /\ handler'[c] = "ended" <=> handler[c] = "ended"
        /\ handler'[c] = "notify" <=> handler[c] = "notify"
        /\ handler'[c] = "refused_notify" <=> handler[c] = "refused_notify"
        /\ handler'[c] \in {"online", "erase"} <=>
             handler[c] \in {"online", "erase"}
  BY DEF ThreadMoves, Chatting, ChatInv, ThreadInv, ThreadOK
<1>3. /\ Up' => Up
      /\ Up' => (main_pc' = "start" <=> main_pc = "start")
      /\ Up' => (main_pc' = "counted" <=> main_pc = "counted")
      /\ Serving' => Serving
      /\ main_pc' = "closing" => Serving \/ main_pc = "closing"
      /\ NobodyRefused' => NobodyRefused
  BY DEF MainMoves, Up, Serving, NobodyRefused
<1>4. PlaceInv'
  <2>1. DOMAIN <<>> = {}
    OBVIOUS
  <2>2. \A n \in DOMAIN backlog : backlog[n] \in Conns
    BY <1>1 DEF VarTypes
  <2>3. /\ \A m, n \in DOMAIN backlog' : backlog'[m] = backlog'[n] => m = n
        /\ \A n \in DOMAIN backlog' :
             sock'[backlog'[n]] = 0 /\ peer'[backlog'[n]] # "new"
    BY <2>1, <2>2 DEF ChatInv, PlaceInv
  <2>4. \A c \in Conns :
          /\ peer'[c] = "new" => sock'[c] = 0
          /\ sock'[c] = 0 => handler'[c] = "none"
          /\ c = accepted' => sock'[c] # 0 /\ handler'[c] = "none"
    BY <1>2 DEF ChatInv, PlaceInv
  <2>5. Up' => (main_pc' \in {"start", "counted"} <=> accepted' # NoConn)
    BY <1>3 DEF ChatInv, PlaceInv
  <2>6. \A f \in Fds : owner'[f] # NoConn => sock'[owner'[f]] = f
    BY DEF ChatInv, PlaceInv
  <2>. QED
    BY <2>3, <2>4, <2>5, <2>6 DEF PlaceInv
<1>5. ThreadInv'
  <2>1. SUFFICES ASSUME NEW c \in Conns PROVE ThreadOK(c)'
    BY DEF ThreadInv
  <2>2. ThreadOK(c) /\ ThreadMoves(c)
    BY DEF ChatInv, ThreadInv
  <2>. QED
    BY <2>2 DEF ThreadMoves, ThreadOK, Unnamed, Named, Chatting
<1>6. RegistryInv'
  <2>1. \A c \in Conns : Enrolled(c)' <=> Enrolled(c)
    BY <1>2 DEF Enrolled
  <2>2. RegistryInv
    BY DEF ChatInv
  <2>. QED
    BY <1>1, <2>1, <2>2, RegistryStays
<1>7. SocketInv'
  <2>1. \A c \in Conns : Held(c)' <=> Held(c)
    BY <1>2 DEF Held
  <2>. QED
    BY <1>3, <2>1 DEF ChatInv, SocketInv, PlaceInv, Held
<1>8. CountInv'
  <2>1. Up' => Counted' = Counted
    BY <1>2, <1>3 DEF Counted
  <2>2. main_pc' \in {"accept", "start"} => live_users < MaxClients
    BY DEF ChatInv, CountInv, MainMoves
  <2>. QED
    BY <1>3, <2>1, <2>2 DEF ChatInv, CountInv, Serving
<1>. QED
  BY <1>4, <1>5, <1>6, <1>7, <1>8 DEF ChatInv

LEMMA QuietMainKeeps ==
  ASSUME ChatInv,
         \/ MainPredicate \/ MainSleep \/ SpuriousWakeup \/ Interrupt \/ Crash
         \/ MainAccept /\ UNCHANGED <<accepted, sock, owner, backlog>>
         \/ MainVisit \/ MainExit
  PROVE  ChatInv'
<1>1. VarTypes'
  BY MainTypes DEF MainStep
<1>2. UNCHANGED <<live_users, accepted, users, owner, sock, handler, name,
                  is_online, deleted, refused, replaced>>
  BY DEF MainPredicate, MainSleep, SpuriousWakeup, Interrupt, Crash,
         MainAccept, MainVisit, MainExit, flags, client_vars, history
<1>3. MainMoves
  BY DEF MainMoves, MainPredicate, MainSleep, SpuriousWakeup, Interrupt, Crash,
         MainAccept, MainVisit, MainExit, MainGo, NotifyAll, CanAccept
<1>4. backlog' \in {backlog, <<>>}
  BY DEF MainPredicate, MainSleep, SpuriousWakeup, Interrupt, Crash,
         MainAccept, MainVisit, MainExit, flags, peer_vars
<1>5. \A c \in Conns : peer'[c] = "new" => peer[c] = "new"
  BY DEF MainPredicate, MainSleep, SpuriousWakeup, Interrupt, Crash,
         MainAccept, MainVisit, MainExit, flags, peer_vars
<1>6. \A c \in Conns : ThreadMoves(c)
  BY <1>2 DEF ThreadMoves
<1>. QED
  BY <1>1, <1>2, <1>3, <1>4, <1>5, <1>6, QuietStepKeeps

LEMMA QuietClientKeeps ==
  ASSUME ChatInv, NEW c \in Conns,
         ClientName(c) \/ ClientLine(c) \/ ClientLeave(c)
  PROVE  ChatInv'
<1>1. VarTypes'
  BY ClientTypes DEF ChatInv
<1>2. UNCHANGED <<main_pc, live_users, accepted, users, owner, sock, backlog,
                  handler, name, is_online, deleted, refused, replaced>>
  BY DEF ClientName, ClientLine, ClientLeave, client_vars
<1>3. \A d \in Conns : peer'[d] = "new" => peer[d] = "new"
  BY DEF ClientName, ClientLine, ClientLeave, ClientGo, ChatInv, VarTypes
<1>4. MainMoves /\ \A d \in Conns : ThreadMoves(d)
  BY <1>2 DEF MainMoves, ThreadMoves
<1>. QED
  BY <1>1, <1>2, <1>3, <1>4, QuietStepKeeps

LEMMA QuietThreadKeeps ==
  ASSUME ChatInv, NEW c \in Conns,
         \/ HandlerName(c) /\ handler'[c] # "check"
         \/ HandlerWelcome(c) \/ HandlerCheck(c) \/ BroadcastNext(c)
         \/ BroadcastSend(c) \/ BroadcastEnd(c) \/ HandlerMessage(c)
         \/ HandlerList(c)
  PROVE  ChatInv'
<1>. USE ConnsFacts
<1>1. VarTypes'
  BY HandlerTypes DEF HandlerStep
<1>2. VarTypes /\ sock[c] \in Fds \cup {0} /\ handler \in [Conns -> Places]
  BY DEF ChatInv, VarTypes, Places
<1>3. /\ UNCHANGED <<live_users, accepted, users, owner, sock, backlog, name,
                     is_online, deleted, replaced>>
      /\ refused \subseteq refused'
  <2>1. CASE HandlerName(c) /\ handler'[c] # "check"
    <3>1. ~HandlerGo(c, "name", "check")
      BY <1>2, <2>1 DEF HandlerGo
    <3>. QED
      BY <2>1, <3>1 DEF HandlerName, NameOr, main_vars, flags, history
  <2>2. CASE \/ HandlerWelcome(c) \/ HandlerCheck(c) \/ BroadcastNext(c)
             \/ BroadcastSend(c) \/ BroadcastEnd(c) \/ HandlerMessage(c)
             \/ HandlerList(c)
    BY <2>2 DEF HandlerWelcome, HandlerCheck, BroadcastNext, BroadcastSend,
                BroadcastEnd, HandlerMessage, MessageOrTimeout, HandlerList,
                all_but_handler, main_vars, flags, peer_vars, client_vars
  <2>. QED
    BY <2>1, <2>2
<1>4. main_pc' \in {main_pc, "killed"}
  <2>1. CASE HandlerWelcome(c) \/ HandlerList(c) \/ HandlerMessage(c)
    BY <1>2, <2>1, SendEffect
    DEF HandlerWelcome, HandlerList, HandlerMessage, MessageOrTimeout
  <2>2. CASE BroadcastSend(c)
    <3>1. sock[visiting[c]] \in Fds \cup {0}
      BY <1>2, <2>2 DEF BroadcastSend, VarTypes
    <3>. QED
      BY <1>2, <2>2, <3>1, SendEffect DEF BroadcastSend
  <2>3. CASE \/ HandlerName(c) \/ HandlerCheck(c) \/ BroadcastNext(c)
             \/ BroadcastEnd(c)
    BY <2>3 DEF HandlerName, NameOr, HandlerCheck, BroadcastNext, BroadcastEnd,
                all_but_handler, main_vars
  <2>. QED
    BY <2>1, <2>2, <2>3
<1>5. \A d \in Conns : peer'[d] = "new" => peer[d] = "new"
  <2>1. peer \in [Conns -> {"new", "connected", "prompt", "chatting", "gone"}]
    BY <1>2 DEF VarTypes
  <2>2. CASE HandlerWelcome(c)
    BY <2>1, <2>2 DEF HandlerWelcome
  <2>3. CASE ~HandlerWelcome(c)
    BY <2>3 DEF HandlerName, NameOr, HandlerCheck, BroadcastNext,
                BroadcastSend, BroadcastEnd, HandlerMessage, MessageOrTimeout,
                HandlerList, all_but_handler, peer_vars
  <2>. QED
    BY <2>2, <2>3
<1>6. \A d \in Conns : ThreadMoves(d)
  <2>1. CASE BroadcastNext(c) \/ BroadcastSend(c)
    BY <2>1 DEF BroadcastNext, BroadcastSend, ThreadMoves
  <2>2. CASE BroadcastEnd(c)
    <3>1. \A d \in Conns : d # c => handler'[d] = handler[d]
      BY <1>2, <2>2 DEF BroadcastEnd
    <3>2. /\ handler[c] \in {"joined", "text", "left"}
          /\ handler'[c] = IF handler[c] = "left" THEN "close"
                           ELSE IF is_online[c] THEN "wait" ELSE "left"
      BY <1>2, <2>2 DEF BroadcastEnd, Broadcasting
    <3>3. /\ handler[c] = "text" => is_online[c]
          /\ handler[c] = "left" => ~is_online[c]
      BY DEF ChatInv, ThreadInv, ThreadOK, Chatting
    <3>. QED
      BY <3>1, <3>2, <3>3 DEF ThreadMoves, Chatting
  <2>3. ASSUME NEW from, NEW to \in Places, HandlerGo(c, from, to),
               \/ from = "welcome" /\ to = "name"
               \/ from = "name" /\ to = "close"
               \/ from = "check" /\ to = "insert"
               \/ from = "check" /\ to = "refused" /\ c \in refused'
               \/ from \in Chatting /\ to \in Chatting
        PROVE  \A d \in Conns : ThreadMoves(d)
    <3>1. /\ handler[c] = from /\ handler'[c] = to
          /\ \A d \in Conns : d # c => handler'[d] = handler[d]
      BY <1>2, <2>3, GoTypes
    <3>2. handler[c] \in Chatting => is_online[c]
      BY DEF ChatInv, ThreadInv, ThreadOK
    <3>. QED
      BY <2>3, <3>1, <3>2 DEF ThreadMoves
  <2>4. CASE HandlerWelcome(c)
    BY <2>3, <2>4 DEF HandlerWelcome, Places
  <2>5. CASE HandlerName(c) /\ handler'[c] # "check"
    <3>1. ~HandlerGo(c, "name", "check")
      BY <1>2, <2>5 DEF HandlerGo
    <3>. QED
      BY <2>3, <2>5, <3>1 DEF HandlerName, NameOr, Places
  <2>6. CASE HandlerCheck(c)
    <3>1. \/ HandlerGo(c, "check", "insert")
          \/ HandlerGo(c, "check", "refused") /\ c \in refused'
      BY <2>6 DEF HandlerCheck
    <3>. QED
      BY <2>3, <3>1 DEF Places
  <2>7. CASE HandlerMessage(c)
    <3>1. \E to \in Chatting : HandlerGo(c, "wait", to)
      BY <2>7 DEF HandlerMessage, MessageOrTimeout, Chatting
    <3>. QED
      BY <2>3, <3>1 DEF Places, Chatting, Broadcasting
  <2>8. CASE HandlerList(c)
    BY <2>3, <2>8 DEF HandlerList, Places, Chatting
  <2>. QED
    BY <2>1, <2>2, <2>4, <2>5, <2>6, <2>7, <2>8
<1>7. MainMoves
  BY <1>4 DEF MainMoves
<1>. QED
  BY <1>1, <1>3, <1>5, <1>6, <1>7, QuietStepKeeps
-----------------------------------------------------------------------------
(* The other steps *)

(* A connection leaves the backlog with a descriptor of its own. *)
LEMMA AcceptKeeps ==
  ASSUME ChatInv, MainAccept, ~UNCHANGED <<accepted, sock, owner, backlog>>
  PROVE  ChatInv'
<1>. USE ConnsFacts
<1>. DEFINE c == Head(backlog)
            f == Min({g \in Fds : owner[g] = NoConn})
<1>1. VarTypes /\ VarTypes'
  BY MainTypes DEF MainStep, ChatInv
<1>2. /\ backlog # <<>> /\ main_pc = "accept" /\ main_pc' = "start"
      /\ accepted' = c /\ sock' = [sock EXCEPT ![c] = f]
      /\ owner' = [owner EXCEPT ![f] = c] /\ backlog' = Tail(backlog)
      /\ UNCHANGED <<live_users, running, users, peer, handler, name,
                     is_online, deleted, refused, replaced>>
  BY DEF MainAccept, MainGo, history
<1>3. /\ backlog \in Seq(Conns) /\ Len(backlog) \in Nat /\ Len(backlog) > 0
      /\ DOMAIN backlog = 1 .. Len(backlog)
      /\ c = backlog[1] /\ c \in Conns /\ 1 \in DOMAIN backlog
      /\ DOMAIN backlog' = 1 .. Len(backlog) - 1
      /\ \A n \in DOMAIN backlog' :
           /\ n + 1 \in DOMAIN backlog /\ n + 1 # 1
           /\ backlog'[n] = backlog[n + 1] /\ backlog[n + 1] \in Conns
  BY <1>1, <1>2 DEF VarTypes
<1>4. sock[c] = 0 /\ peer[c] # "new" /\ handler[c] = "none"
  BY <1>3 DEF ChatInv, PlaceInv
<1>5. f \in Fds /\ owner[f] = NoConn
  BY <1>1, <1>3, <1>4, FreeFd DEF ChatInv
<1>. HIDE DEF c, f
<1>6. /\ sock'[c] = f /\ owner'[f] = c
      /\ \A d \in Conns : d # c => sock'[d] = sock[d]
      /\ \A g \in Fds : g # f => owner'[g] = owner[g]
  BY <1>1, <1>2, <1>3, <1>5 DEF VarTypes
<1>7. accepted = NoConn
  BY <1>2 DEF ChatInv, PlaceInv, Up
<1>8. PlaceInv'
  <2>1. \A m, n \in DOMAIN backlog' : backlog'[m] = backlog'[n] => m = n
    <3>1. SUFFICES ASSUME NEW m \in DOMAIN backlog', NEW n \in DOMAIN backlog',
                          backlog'[m] = backlog'[n]
                   PROVE  m = n
      OBVIOUS
    <3>2. m + 1 = n + 1
      BY <1>3, <3>1 DEF ChatInv, PlaceInv
    <3>. QED
      BY <1>3, <3>2
  <2>2. \A n \in DOMAIN backlog' :
          sock'[backlog'[n]] = 0 /\ peer'[backlog'[n]] # "new"
    <3>1. SUFFICES ASSUME NEW n \in DOMAIN backlog'
                   PROVE  sock'[backlog'[n]] = 0 /\ peer'[backlog'[n]] # "new"
      OBVIOUS
    <3>2. backlog[n + 1] # c
      BY <1>3 DEF ChatInv, PlaceInv
    <3>3. sock[backlog[n + 1]] = 0 /\ peer[backlog[n + 1]] # "new"
      BY <1>3 DEF ChatInv, PlaceInv
    <3>. QED
      BY <1>2, <1>3, <1>6, <3>2, <3>3
  <2>3. \A d \in Conns :
          /\ peer'[d] = "new" => sock'[d] = 0
          /\ sock'[d] = 0 => handler'[d] = "none"
          /\ d = accepted' => sock'[d] # 0 /\ handler'[d] = "none"
    BY <1>2, <1>4, <1>5, <1>6 DEF ChatInv, PlaceInv
  <2>4. main_pc' \in {"start", "counted"} <=> accepted' # NoConn
    BY <1>2, <1>3
  <2>5. \A g \in Fds : owner'[g] # NoConn => sock'[owner'[g]] = g
    <3>1. SUFFICES ASSUME NEW g \in Fds, owner'[g] # NoConn
                   PROVE  sock'[owner'[g]] = g
      OBVIOUS
    <3>2. CASE g # f
      <4>1. owner[g] \in Conns /\ sock[owner[g]] = g /\ g # 0
        BY <1>1, <1>6, <3>1, <3>2 DEF VarTypes, ChatInv, PlaceInv
      <4>. QED
        BY <1>4, <1>6, <3>2, <4>1
    <3>. QED
      BY <1>6, <3>2
  <2>. QED
    BY <2>1, <2>2, <2>3, <2>4, <2>5 DEF PlaceInv
<1>9. ThreadInv' /\ RegistryInv'
  BY <1>2 DEF ChatInv, ThreadInv, ThreadOK, RegistryInv, Enrolled
<1>10. SocketInv'
  <2>1. SUFFICES ASSUME NobodyRefused, Serving, NEW d \in Conns
                 PROVE  Held(d)' <=> sock'[d] # 0 /\ owner'[sock'[d]] = d
    BY <1>2 DEF SocketInv, NobodyRefused, Serving, Up
  <2>2. Held(d) <=> sock[d] # 0 /\ owner[sock[d]] = d
    BY <2>1 DEF ChatInv, SocketInv
  <2>3. CASE d = c
    BY <1>2, <1>5, <1>6, <2>3 DEF Held
  <2>4. CASE d # c
    <3>1. Held(d)' <=> Held(d)
      BY <1>2, <1>7, <2>4 DEF Held
    <3>2. sock[d] # 0 => sock[d] \in Fds
      BY <1>1 DEF VarTypes
    <3>3. sock'[d] = sock[d]
      BY <1>6, <2>4
    <3>4. CASE sock[d] = f
      BY <1>3, <1>5, <1>6, <2>2, <2>4, <3>1, <3>3, <3>4
    <3>5. CASE sock[d] \in Fds /\ sock[d] # f
      <4>1. owner'[sock[d]] = owner[sock[d]]
        BY <1>6, <3>5
      <4>. QED
        BY <2>2, <3>1, <3>3, <4>1
    <3>6. CASE sock[d] = 0
      BY <2>2, <3>1, <3>3, <3>6
    <3>. QED
      BY <3>2, <3>4, <3>5, <3>6
  <2>. QED
    BY <2>3, <2>4
<1>11. CountInv'
  <2>1. Counted' = Counted
    BY <1>2 DEF Counted
  <2>2. Serving
    BY <1>2 DEF Serving, Up
  <2>. QED
    BY <1>2, <2>1, <2>2 DEF ChatInv, CountInv, NobodyRefused
<1>. QED
  BY <1>1, <1>8, <1>9, <1>10, <1>11 DEF ChatInv

(* The accepted connection is counted. *)
LEMMA CountKeeps ==
  ASSUME ChatInv, MainCount
  PROVE  ChatInv'
<1>. USE ConnsFacts
<1>1. VarTypes /\ VarTypes'
  BY MainTypes DEF MainStep, ChatInv
<1>2. /\ main_pc = "start" /\ main_pc' = "counted"
      /\ live_users' = live_users + 1
      /\ UNCHANGED <<accepted, users, owner, backlog, peer, handler, sock, name,
                     is_online, deleted, refused, replaced>>
  BY DEF MainCount, MainGo, flags, peer_vars, client_vars
<1>3. PlaceInv'
  BY <1>2 DEF ChatInv, PlaceInv, Up
<1>4. ThreadInv' /\ RegistryInv'
  BY <1>2 DEF ChatInv, ThreadInv, ThreadOK, RegistryInv, Enrolled
<1>5. SocketInv'
  BY <1>2 DEF ChatInv, SocketInv, Held, NobodyRefused, Serving, Up
<1>6. CountInv'
  <2>1. accepted \in Conns /\ handler[accepted] = "none"
    BY <1>1, <1>2 DEF ChatInv, PlaceInv, VarTypes, Up
  <2>2. /\ Counted' = Counted \cup {accepted} /\ accepted \notin Counted
        /\ Counted \in SUBSET Conns
    BY <1>2, <2>1 DEF Counted
  <2>3. Cardinality(Counted') = Cardinality(Counted) + 1
    BY <2>2, ConnSets
  <2>4. live_users < MaxClients /\ live_users \in Int
    BY <1>1, <1>2 DEF ChatInv, CountInv, VarTypes
  <2>5. NobodyRefused => live_users = Cardinality(Counted)
    BY <1>2 DEF ChatInv, CountInv, Serving, Up
  <2>. QED
    BY <1>2, <2>3, <2>4, <2>5 DEF CountInv, NobodyRefused
<1>. QED
  BY <1>1, <1>3, <1>4, <1>5, <1>6 DEF ChatInv

(* Closing a descriptor leaves connections where they are. *)
LEMMA CloseKeepsPlaces ==
  ASSUME ChatInv, NEW f \in Fds \cup {0}, CloseSock(f),
         UNCHANGED <<backlog, sock>>
  PROVE  /\ \A g \in Fds : owner'[g] \in {NoConn, owner[g]}
         /\ \A m, n \in DOMAIN backlog' : backlog'[m] = backlog'[n] => m = n
         /\ \A n \in DOMAIN backlog' :
              sock'[backlog'[n]] = 0 /\ peer'[backlog'[n]] # "new"
         /\ \A c \in Conns :
              /\ peer'[c] = "new" => sock'[c] = 0
              /\ sock'[c] = 0 => handler[c] = "none"
         /\ \A g \in Fds : owner'[g] # NoConn => sock'[owner'[g]] = g
<1>. USE ConnsFacts
<1>1. VarTypes
  BY DEF ChatInv
<1>2. /\ \A g \in Fds : owner'[g] \in {NoConn, owner[g]}
      /\ \A c \in Conns : peer'[c] \in {peer[c], "gone"}
  BY <1>1, CloseEffect
<1>3. \A n \in DOMAIN backlog : backlog[n] \in Conns
  BY <1>1 DEF VarTypes
<1>4. /\ \A m, n \in DOMAIN backlog' : backlog'[m] = backlog'[n] => m = n
      /\ \A n \in DOMAIN backlog' :
           sock'[backlog'[n]] = 0 /\ peer'[backlog'[n]] # "new"
  <2>1. /\ \A m, n \in DOMAIN backlog : backlog[m] = backlog[n] => m = n
        /\ \A n \in DOMAIN backlog :
             sock[backlog[n]] = 0 /\ peer'[backlog[n]] # "new"
    BY <1>2, <1>3 DEF ChatInv, PlaceInv
  <2>. QED
    BY <2>1
<1>5. \A c \in Conns : /\ peer'[c] = "new" => sock'[c] = 0
                       /\ sock'[c] = 0 => handler[c] = "none"
  BY <1>2 DEF ChatInv, PlaceInv
<1>6. \A g \in Fds : owner'[g] # NoConn => sock'[owner'[g]] = g
  BY <1>2 DEF ChatInv, PlaceInv
<1>. QED
  BY <1>2, <1>4, <1>5, <1>6

(* A thread is started for the accepted connection, or the process dies of *)
(* it; or the connection is closed, and the server stops.                  *)
LEMMA StartKeeps ==
  ASSUME ChatInv, MainStart
  PROVE  ChatInv'
<1>. USE ConnsFacts
<1>1. VarTypes /\ VarTypes'
  BY MainTypes DEF MainStep, ChatInv
<1>2. /\ main_pc = "counted" /\ accepted' = NoConn
      /\ UNCHANGED <<running, users, backlog, sock, name, is_online, deleted,
                     refused, replaced>>
  BY DEF MainStart, MainGo, client_vars
<1>3. /\ accepted \in Conns /\ sock[accepted] # 0
      /\ handler[accepted] = "none"
      /\ sock[accepted] \in Fds
  BY <1>1, <1>2 DEF ChatInv, PlaceInv, VarTypes, Up
<1>4. name[accepted] = 0 /\ ~is_online[accepted] /\ accepted \notin deleted
  BY <1>1, <1>3 DEF ChatInv, ThreadInv, ThreadOK, Unnamed, Chatting
<1>5. CASE /\ main_pc' = "pred"
           /\ handler' = [handler EXCEPT ![accepted] = "welcome"]
           /\ UNCHANGED <<live_users, owner, peer, inbox, link>>
  <2>1. /\ handler'[accepted] = "welcome"
        /\ \A d \in Conns : d # accepted => handler'[d] = handler[d]
    BY <1>1, <1>3, <1>5 DEF VarTypes
  <2>2. PlaceInv'
    BY <1>2, <1>3, <1>5, <2>1 DEF ChatInv, PlaceInv
  <2>3. ThreadInv'
    <3>1. SUFFICES ASSUME NEW d \in Conns PROVE ThreadOK(d)'
      BY DEF ThreadInv
    <3>2. CASE d = accepted
      BY <1>2, <1>4, <2>1, <3>2 DEF ThreadOK, Named, Chatting
    <3>3. CASE d # accepted
      BY <1>2, <2>1, <3>3 DEF ChatInv, ThreadInv, ThreadOK
    <3>. QED
      BY <3>2, <3>3
  <2>4. RegistryInv'
    <3>1. \A d \in Conns : Enrolled(d)' <=> Enrolled(d)
      BY <1>2, <1>3, <2>1 DEF Enrolled
    <3>. QED
      BY <1>1, <1>2, <3>1, RegistryStays DEF ChatInv
  <2>5. SocketInv'
    <3>1. \A d \in Conns : Held(d)' <=> Held(d)
      BY <1>2, <1>3, <2>1 DEF Held
    <3>. QED
      BY <1>2, <1>5, <3>1 DEF ChatInv, SocketInv, NobodyRefused, Serving, Up
  <2>6. CountInv'
    <3>1. Counted' = Counted
      BY <1>2, <1>3, <1>5, <2>1 DEF Counted
    <3>. QED
      BY <1>2, <1>5, <3>1 DEF ChatInv, CountInv, NobodyRefused, Serving, Up
  <2>. QED
    BY <1>1, <2>2, <2>3, <2>4, <2>5, <2>6 DEF ChatInv
<1>6. CASE /\ main_pc' \in {"crashed", "closing"}
           /\ UNCHANGED handler
           /\ live_users' \in {live_users, live_users - 1}
           /\ UNCHANGED <<owner, peer>> \/ CloseSock(sock[accepted])
  <2>1. ~Serving'
    BY <1>6 DEF Serving, Up
  <2>2. PlaceInv'
    <3>1. CASE UNCHANGED <<owner, peer>>
      BY <1>2, <1>6, <3>1 DEF ChatInv, PlaceInv
    <3>2. CASE CloseSock(sock[accepted])
      BY <1>2, <1>3, <1>6, <3>2, CloseKeepsPlaces DEF PlaceInv
    <3>. QED
      BY <1>6, <3>1, <3>2
  <2>3. ThreadInv' /\ RegistryInv'
    BY <1>2, <1>6 DEF ChatInv, ThreadInv, ThreadOK, RegistryInv, Enrolled
  <2>4. SocketInv'
    <3>1. \A g \in Fds : owner'[g] \in {NoConn, owner[g]}
      BY <1>1, <1>2, <1>3, <1>6, CloseKeepsPlaces DEF VarTypes
    <3>2. SUFFICES ASSUME NobodyRefused, NEW d \in Conns, Held(d)'
                   PROVE  owner'[sock[d]] \in {d, NoConn}
      BY <1>2, <2>1 DEF SocketInv, NobodyRefused
    <3>3. Held(d)
      BY <1>2, <1>6, <3>2 DEF Held
    <3>4. sock[d] # 0 /\ owner[sock[d]] = d
      BY <1>2, <3>2, <3>3 DEF ChatInv, SocketInv, Serving, Up
    <3>5. sock[d] \in Fds
      BY <1>1, <3>4 DEF VarTypes
    <3>. QED
      BY <3>1, <3>4, <3>5
  <2>5. CountInv'
    <3>1. live_users \in Int /\ live_users <= MaxClients
      BY <1>1 DEF ChatInv, CountInv, VarTypes
    <3>2. live_users' <= MaxClients
      BY <1>6, <3>1
    <3>. QED
      BY <1>6, <2>1, <3>2 DEF CountInv
  <2>. QED
    BY <1>1, <2>2, <2>3, <2>4, <2>5 DEF ChatInv
<1>. QED
  BY <1>5, <1>6 DEF MainStart, MainGo

(* The shutdown loop closes a client. *)
LEMMA ShutdownKeeps ==
  ASSUME ChatInv, MainClose
  PROVE  ChatInv'
<1>. USE ConnsFacts
<1>1. VarTypes /\ VarTypes'
  BY MainTypes DEF MainStep, ChatInv
<1>2. /\ main_pc = "closing" /\ main_pc' = "closing"
      /\ main_visiting # NoConn
      /\ live_users' = live_users - 1 /\ CloseSock(sock[main_visiting])
      /\ UNCHANGED <<accepted, users, backlog, handler, sock, name, is_online,
                     deleted, refused, replaced>>
  BY DEF MainClose, client_vars
<1>3. sock[main_visiting] \in Fds \cup {0}
  BY <1>1, <1>2 DEF VarTypes
<1>4. PlaceInv'
  <2>1. accepted = NoConn
    BY <1>2 DEF ChatInv, PlaceInv, Up
  <2>. QED
    BY <1>2, <1>3, <2>1, CloseKeepsPlaces DEF PlaceInv
<1>5. ThreadInv' /\ RegistryInv'
  BY <1>2 DEF ChatInv, ThreadInv, ThreadOK, RegistryInv, Enrolled
<1>6. SocketInv'
  <2>1. SUFFICES ASSUME NobodyRefused, NEW d \in Conns, Held(d)
                 PROVE  owner'[sock[d]] \in {d, NoConn}
    BY <1>2 DEF SocketInv, NobodyRefused, Serving, Held
  <2>2. owner[sock[d]] \in {d, NoConn} /\ sock[d] # 0
    BY <1>2, <2>1 DEF ChatInv, SocketInv, PlaceInv, Held
  <2>3. sock[d] \in Fds
    BY <1>1, <2>2 DEF VarTypes
  <2>. QED
    BY <1>2, <1>3, <2>2, <2>3, CloseKeepsPlaces
<1>7. CountInv'
  BY <1>1, <1>2 DEF ChatInv, CountInv, Serving, VarTypes
<1>. QED
  BY <1>1, <1>4, <1>5, <1>6, <1>7 DEF ChatInv

(* A new connection waits behind the others, or is refused. *)
LEMMA ConnectKeeps ==
  ASSUME ChatInv, NEW c \in Conns, ClientConnect(c)
  PROVE  ChatInv'
<1>1. VarTypes /\ VarTypes'
  BY ClientTypes DEF ChatInv
<1>2. /\ peer[c] = "new"
      /\ \/ peer' = [peer EXCEPT ![c] = "connected"]
         \/ peer' = [peer EXCEPT ![c] = "gone"]
      /\ backlog' = Append(backlog, c) \/ UNCHANGED backlog
      /\ UNCHANGED <<main_pc, running, accepted, live_users, users, owner,
                     handler, sock, name, is_online, deleted, refused,
                     replaced>>
  BY DEF ClientConnect, ClientGo, main_vars, flags, client_vars
<1>3. peer'[c] # "new" /\ \A d \in Conns : d # c => peer'[d] = peer[d]
  BY <1>1, <1>2 DEF VarTypes
<1>4. sock[c] = 0
  BY <1>2 DEF ChatInv, PlaceInv
<1>5. /\ backlog \in Seq(Conns) /\ Len(backlog) \in Nat
      /\ DOMAIN backlog = 1 .. Len(backlog)
      /\ \A n \in DOMAIN backlog : backlog[n] \in Conns /\ backlog[n] # c
  BY <1>1, <1>2 DEF ChatInv, VarTypes, PlaceInv
<1>6. /\ \A m, n \in DOMAIN backlog' : backlog'[m] = backlog'[n] => m = n
      /\ \A n \in DOMAIN backlog' :
           sock[backlog'[n]] = 0 /\ peer'[backlog'[n]] # "new"
  <2>1. /\ \A m, n \in DOMAIN backlog : backlog[m] = backlog[n] => m = n
        /\ \A n \in DOMAIN backlog :
             sock[backlog[n]] = 0 /\ peer[backlog[n]] # "new"
    BY DEF ChatInv, PlaceInv
  <2>2. CASE UNCHANGED backlog
    BY <1>3, <1>5, <2>1, <2>2
  <2>3. CASE backlog' = Append(backlog, c)
    <3>1. /\ DOMAIN backlog' = 1 .. Len(backlog) + 1
          /\ backlog'[Len(backlog) + 1] = c
          /\ \A n \in DOMAIN backlog : backlog'[n] = backlog[n]
      BY <1>5, <2>3
    <3>2. \A n \in DOMAIN backlog' :
            n \in DOMAIN backlog \/ n = Len(backlog) + 1
      BY <1>5, <3>1
    <3>3. \A m, n \in DOMAIN backlog' : backlog'[m] = backlog'[n] => m = n
      BY <1>5, <2>1, <3>1, <3>2
    <3>4. \A n \in DOMAIN backlog' :
            sock[backlog'[n]] = 0 /\ peer'[backlog'[n]] # "new"
      BY <1>3, <1>4, <1>5, <2>1, <3>1, <3>2
    <3>. QED
      BY <3>3, <3>4
  <2>. QED
    BY <1>2, <2>2, <2>3
<1>7. PlaceInv'
  BY <1>2, <1>3, <1>6 DEF ChatInv, PlaceInv, Up
<1>8. ThreadInv' /\ RegistryInv'
  BY <1>2 DEF ChatInv, ThreadInv, ThreadOK, RegistryInv, Enrolled
<1>9. SocketInv'
  BY <1>2 DEF ChatInv, SocketInv, Held, NobodyRefused, Serving, Up
<1>10. CountInv'
  BY <1>2 DEF ChatInv, CountInv, Counted, NobodyRefused, Serving, Up
<1>. QED
  BY <1>1, <1>7, <1>8, <1>9, <1>10 DEF ChatInv

(* The client gives its name. *)
LEMMA NameKeeps ==
  ASSUME ChatInv, TypedInv, NEW c \in Conns,
         HandlerName(c), handler'[c] = "check"
  PROVE  ChatInv'
<1>. USE ConnsFacts
<1>1. VarTypes /\ VarTypes'
  BY HandlerTypes DEF HandlerStep, ChatInv
<1>2. /\ handler \in [Conns -> Places]
      /\ UNCHANGED <<main_pc, running, accepted, live_users, users, owner,
                     backlog, peer, sock, is_online, deleted, refused,
                     replaced>>
  BY <1>1
  DEF HandlerName, NameOr, main_vars, flags, history, VarTypes, Places
<1>3. /\ Receive(c) /\ HandlerGo(c, "name", "check")
      /\ \E n \in IF Received(c) = "name" THEN {typed[At(sock[c])]} ELSE Names :
           name' = [name EXCEPT ![c] = n]
  BY <1>2 DEF HandlerName, NameOr, HandlerGo
<1>4. /\ handler[c] = "name"
      /\ \A d \in Conns : d # c => handler'[d] = handler[d]
  BY <1>1, <1>3, GoTypes DEF Places
<1>5. /\ name[c] = 0 /\ ~is_online[c] /\ c \notin deleted
      /\ sock[c] \in Fds
  <2>1. name[c] = 0 /\ ~is_online[c] /\ c \notin deleted
    BY <1>4 DEF ChatInv, ThreadInv, ThreadOK, Unnamed, Chatting
  <2>2. sock[c] \in Fds
    BY <1>1, <1>4 DEF ChatInv, PlaceInv, VarTypes
  <2>. QED
    BY <2>1, <2>2
<1>6. name'[c] # 0 /\ \A d \in Conns : d # c => name'[d] = name[d]
  <2>1. PICK n \in Names \cup {0} :
          /\ name' = [name EXCEPT ![c] = n]
          /\ Received(c) = "name" => n = typed[At(sock[c])]
          /\ Received(c) # "name" => n \in Names
    <3>1. At(sock[c]) \in Conns
      BY <1>1, <1>3 DEF Receive, At, VarTypes
    <3>2. typed[At(sock[c])] \in Names \cup {0}
      BY <1>1, <3>1 DEF VarTypes
    <3>. QED
      BY <1>3, <3>2
  <2>2. n # 0
    <3>1. At(sock[c]) \in Conns
      BY <1>1, <1>3 DEF Receive, At, VarTypes
    <3>. QED
      BY <2>1, <3>1 DEF TypedInv, Received
  <2>. QED
    BY <1>1, <2>1, <2>2 DEF VarTypes
<1>8. PlaceInv'
  BY <1>2, <1>4, <1>5 DEF ChatInv, PlaceInv, Up
<1>9. ThreadInv'
  <2>1. SUFFICES ASSUME NEW d \in Conns PROVE ThreadOK(d)'
    BY DEF ThreadInv
  <2>2. CASE d = c
    BY <1>2, <1>5, <1>6, <2>2 DEF ThreadOK, Unnamed, Chatting
  <2>3. CASE d # c
    BY <1>2, <1>4, <1>6, <2>3 DEF ChatInv, ThreadInv, ThreadOK
  <2>. QED
    BY <2>2, <2>3
<1>10. RegistryInv'
  <2>1. /\ ~Enrolled(c) /\ ~Enrolled(c)'
        /\ \A d \in Conns : d # c => (Enrolled(d)' <=> Enrolled(d))
    BY <1>2, <1>4, <1>5 DEF Enrolled
  <2>2. ASSUME NEW n \in Names, users[n] # NoConn
        PROVE  (name[users[n]] = n /\ Enrolled(users[n]))'
    <3>1. users[n] \in Conns /\ name[users[n]] = n /\ Enrolled(users[n])
      BY <1>1, <2>2 DEF ChatInv, RegistryInv, VarTypes
    <3>2. users' = users
      BY <1>2
    <3>. QED
      BY <1>6, <2>1, <3>1, <3>2 DEF Enrolled
  <2>3. ASSUME NEW d \in Conns, Enrolled(d)', name'[d] \notin replaced
        PROVE  users[name'[d]] = d
    BY <1>6, <2>1, <2>3 DEF ChatInv, RegistryInv
  <2>. QED
    BY <1>2, <2>2, <2>3 DEF RegistryInv
<1>11. SocketInv'
  <2>1. \A d \in Conns : Held(d)' <=> Held(d)
    BY <1>2, <1>4 DEF Held
  <2>. QED
    BY <1>2, <2>1 DEF ChatInv, SocketInv, NobodyRefused, Serving, Up
<1>12. CountInv'
  <2>1. Counted' = Counted
    BY <1>2, <1>4 DEF Counted
  <2>. QED
    BY <1>2, <2>1 DEF ChatInv, CountInv, NobodyRefused, Serving, Up
<1>. QED
  BY <1>1, <1>8, <1>9, <1>10, <1>11, <1>12 DEF ChatInv

(* The client enters the map under its name, in the place of whoever has   *)
(* entered it since the test.                                              *)
LEMMA InsertKeeps ==
  ASSUME ChatInv, NEW c \in Conns, HandlerInsert(c)
  PROVE  ChatInv'
<1>. USE ConnsFacts
<1>1. VarTypes /\ VarTypes'
  BY HandlerTypes DEF HandlerStep, ChatInv
<1>2. /\ UNCHANGED <<main_pc, running, accepted, live_users, owner, backlog,
                     peer, sock, name, is_online, deleted, refused>>
      /\ HandlerGo(c, "insert", "online")
      /\ users' = [users EXCEPT ![name[c]] = c]
      /\ replaced' = IF users[name[c]] = NoConn THEN replaced
                     ELSE replaced \cup {name[c]}
  BY DEF HandlerInsert, main_vars, flags, peer_vars
<1>3. /\ handler[c] = "insert" /\ handler'[c] = "online"
      /\ \A d \in Conns : d # c => handler'[d] = handler[d]
  BY <1>1, <1>2, GoTypes DEF Places
<1>4. name[c] \in Names /\ ~is_online[c] /\ c \notin deleted
  BY <1>1, <1>3
  DEF ChatInv, ThreadInv, ThreadOK, VarTypes, Named, Chatting
<1>5. /\ users'[name[c]] = c
      /\ \A n \in Names : n # name[c] => users'[n] = users[n]
  BY <1>1, <1>2, <1>4 DEF VarTypes
<1>6. PlaceInv'
  BY <1>2, <1>3 DEF ChatInv, PlaceInv, Up
<1>7. ThreadInv'
  <2>1. SUFFICES ASSUME NEW d \in Conns PROVE ThreadOK(d)'
    BY DEF ThreadInv
  <2>2. CASE d = c
    BY <1>2, <1>3, <1>4, <2>2 DEF ThreadOK, Unnamed, Chatting
  <2>3. CASE d # c
    BY <1>2, <1>3, <2>3 DEF ChatInv, ThreadInv, ThreadOK
  <2>. QED
    BY <2>2, <2>3
<1>8. RegistryInv'
  <2>1. /\ Enrolled(c)'
        /\ \A d \in Conns : d # c => (Enrolled(d)' <=> Enrolled(d))
    BY <1>2, <1>3 DEF Enrolled
  <2>2. ASSUME NEW n \in Names, users'[n] # NoConn
        PROVE  (name[users[n]] = n /\ Enrolled(users[n]))'
    <3>1. CASE n # name[c]
      <4>1. users[n] \in Conns /\ name[users[n]] = n /\ Enrolled(users[n])
        BY <1>1, <1>5, <2>2, <3>1 DEF ChatInv, RegistryInv, VarTypes
      <4>2. users[n] # c /\ users'[n] = users[n]
        BY <1>5, <3>1, <4>1
      <4>. QED
        BY <1>2, <2>1, <4>1, <4>2 DEF Enrolled
    <3>2. CASE n = name[c]
      <4>1. users'[n] = c
        BY <1>5, <3>2
      <4>. QED
        BY <1>2, <2>1, <3>2, <4>1 DEF Enrolled
    <3>. QED
      BY <3>1, <3>2
  <2>3. ASSUME NEW d \in Conns, Enrolled(d)', name[d] \notin replaced'
        PROVE  users'[name[d]] = d
    <3>1. CASE d = c
      BY <1>5, <3>1
    <3>2. CASE d # c
      <4>1. users[name[d]] = d
        BY <1>2, <2>1, <2>3, <3>2 DEF ChatInv, RegistryInv
      <4>2. name[d] \in Names
        BY <1>1, <2>1, <2>3, <3>2
        DEF ChatInv, ThreadInv, ThreadOK, VarTypes, Enrolled, Named, Chatting
      <4>3. name[d] # name[c]
        BY <1>2, <2>3, <4>1
      <4>. QED
        BY <1>5, <4>1, <4>2, <4>3
    <3>. QED
      BY <3>1, <3>2
  <2>. QED
    BY <1>2, <2>2, <2>3 DEF RegistryInv
<1>9. SocketInv'
  <2>1. \A d \in Conns : Held(d)' <=> Held(d)
    BY <1>2, <1>3 DEF Held
  <2>. QED
    BY <1>2, <2>1 DEF ChatInv, SocketInv, NobodyRefused, Serving, Up
<1>10. CountInv'
  <2>1. Counted' = Counted
    BY <1>2, <1>3 DEF Counted
  <2>. QED
    BY <1>2, <2>1 DEF ChatInv, CountInv, NobodyRefused, Serving, Up
<1>. QED
  BY <1>1, <1>6, <1>7, <1>8, <1>9, <1>10 DEF ChatInv

(* A client goes on line after it entered the map, or off line before it   *)
(* leaves it.                                                              *)
LEMMA OnlineKeeps ==
  ASSUME ChatInv, NEW c \in Conns, HandlerOnline(c) \/ HandlerUnregister(c)
  PROVE  ChatInv'
<1>. USE ConnsFacts
<1>1. VarTypes /\ VarTypes'
  BY HandlerTypes DEF HandlerStep, ChatInv
<1>2. /\ UNCHANGED <<main_pc, running, accepted, live_users, users, owner,
                     backlog, peer, sock, name, deleted, refused, replaced>>
      /\ \/ /\ HandlerGo(c, "online", "joined")
            /\ is_online' = [is_online EXCEPT ![c] = TRUE]
         \/ /\ HandlerGo(c, "unregister", "erase")
            /\ is_online' = [is_online EXCEPT ![c] = FALSE]
  BY DEF HandlerOnline, HandlerUnregister, main_vars, flags, peer_vars, history
<1>3. /\ \/ /\ handler[c] = "online" /\ handler'[c] = "joined"
            /\ is_online' = [is_online EXCEPT ![c] = TRUE]
         \/ /\ handler[c] = "unregister" /\ handler'[c] = "erase"
            /\ is_online' = [is_online EXCEPT ![c] = FALSE]
      /\ \A d \in Conns : d # c => handler'[d] = handler[d]
  BY <1>1, <1>2, GoTypes DEF Places, Broadcasting
<1>4. name[c] \in Names /\ c \notin deleted
  BY <1>1, <1>3 DEF ChatInv, ThreadInv, ThreadOK, VarTypes, Named
<1>5. /\ is_online'[c] <=> handler'[c] = "joined"
      /\ \A d \in Conns : d # c => is_online'[d] = is_online[d]
  BY <1>1, <1>3 DEF VarTypes
<1>6. PlaceInv'
  BY <1>2, <1>3 DEF ChatInv, PlaceInv, Up
<1>7. ThreadInv'
  <2>1. SUFFICES ASSUME NEW d \in Conns PROVE ThreadOK(d)'
    BY DEF ThreadInv
  <2>2. CASE d = c
    BY <1>2, <1>3, <1>4, <1>5, <2>2 DEF ThreadOK, Unnamed, Chatting
  <2>3. CASE d # c
    BY <1>2, <1>3, <1>5, <2>3 DEF ChatInv, ThreadInv, ThreadOK
  <2>. QED
    BY <2>2, <2>3
<1>8. RegistryInv'
  <2>1. \A d \in Conns : Enrolled(d)' <=> Enrolled(d)
    <3>1. handler[c] = "unregister" => is_online[c]
      BY DEF ChatInv, ThreadInv, ThreadOK, Chatting
    <3>. QED
      BY <1>3, <1>5, <3>1 DEF Enrolled
  <2>. QED
    BY <1>1, <1>2, <2>1, RegistryStays DEF ChatInv
<1>9. SocketInv'
  <2>1. \A d \in Conns : Held(d)' <=> Held(d)
    BY <1>2, <1>3 DEF Held
  <2>. QED
    BY <1>2, <2>1 DEF ChatInv, SocketInv, NobodyRefused, Serving, Up
<1>10. CountInv'
  <2>1. Counted' = Counted
    BY <1>2, <1>3 DEF Counted
  <2>. QED
    BY <1>2, <2>1 DEF ChatInv, CountInv, NobodyRefused, Serving, Up
<1>. QED
  BY <1>1, <1>6, <1>7, <1>8, <1>9, <1>10 DEF ChatInv

(* The client leaves the map, with whoever goes by the same name. *)
LEMMA EraseKeeps ==
  ASSUME ChatInv, NEW c \in Conns, HandlerErase(c)
  PROVE  ChatInv'
<1>. USE ConnsFacts
<1>1. VarTypes /\ VarTypes'
  BY HandlerTypes DEF HandlerStep, ChatInv
<1>2. /\ UNCHANGED <<main_pc, running, accepted, live_users, owner, backlog,
                     peer, sock, name, is_online, deleted, refused, replaced>>
      /\ HandlerGo(c, "erase", "left")
      /\ users' = [users EXCEPT ![name[c]] = NoConn]
  BY DEF HandlerErase, main_vars, flags, peer_vars, client_vars
<1>3. /\ handler[c] = "erase" /\ handler'[c] = "left"
      /\ \A d \in Conns : d # c => handler'[d] = handler[d]
  BY <1>1, <1>2, GoTypes DEF Places, Broadcasting
<1>4. name[c] \in Names /\ ~is_online[c] /\ c \notin deleted
  BY <1>1, <1>3
  DEF ChatInv, ThreadInv, ThreadOK, VarTypes, Named, Chatting
<1>5. /\ users'[name[c]] = NoConn
      /\ \A n \in Names : n # name[c] => users'[n] = users[n]
  BY <1>1, <1>2, <1>4 DEF VarTypes
<1>6. PlaceInv'
  BY <1>2, <1>3 DEF ChatInv, PlaceInv, Up
<1>7. ThreadInv'
  <2>1. SUFFICES ASSUME NEW d \in Conns PROVE ThreadOK(d)'
    BY DEF ThreadInv
  <2>2. CASE d = c
    BY <1>2, <1>3, <1>4, <2>2 DEF ThreadOK, Unnamed, Chatting
  <2>3. CASE d # c
    BY <1>2, <1>3, <2>3 DEF ChatInv, ThreadInv, ThreadOK
  <2>. QED
    BY <2>2, <2>3
<1>8. RegistryInv'
  <2>1. /\ Enrolled(c) /\ ~Enrolled(c)'
        /\ \A d \in Conns : d # c => (Enrolled(d)' <=> Enrolled(d))
    BY <1>2, <1>3, <1>4 DEF Enrolled
  <2>2. ASSUME NEW n \in Names, users'[n] # NoConn
        PROVE  (name[users[n]] = n /\ Enrolled(users[n]))'
    <3>1. n # name[c] /\ users'[n] = users[n]
      BY <1>5, <2>2
    <3>2. users[n] \in Conns /\ name[users[n]] = n /\ Enrolled(users[n])
      BY <1>1, <2>2, <3>1 DEF ChatInv, RegistryInv, VarTypes
    <3>. QED
      BY <1>2, <2>1, <3>1, <3>2 DEF Enrolled
  <2>3. ASSUME NEW d \in Conns, Enrolled(d)', name[d] \notin replaced
        PROVE  users'[name[d]] = d
    <3>1. d # c /\ Enrolled(d)
      BY <2>1, <2>3
    <3>2. users[name[d]] = d
      BY <2>3, <3>1 DEF ChatInv, RegistryInv
    <3>3. name[d] \in Names
      BY <1>1, <3>1
      DEF ChatInv, ThreadInv, ThreadOK, VarTypes, Enrolled, Named, Chatting
    <3>4. name[d] # name[c]
      <4>1. ASSUME name[d] = name[c] PROVE FALSE
        <5>1. users[name[c]] = c
          BY <2>1, <2>3, <4>1 DEF ChatInv, RegistryInv
        <5>. QED
          BY <3>1, <3>2, <4>1, <5>1
      <4>. QED
        BY <4>1
    <3>. QED
      BY <1>5, <3>2, <3>3, <3>4
  <2>. QED
    BY <1>2, <2>2, <2>3 DEF RegistryInv
<1>9. SocketInv'
  <2>1. \A d \in Conns : Held(d)' <=> Held(d)
    BY <1>2, <1>3 DEF Held
  <2>. QED
    BY <1>2, <2>1 DEF ChatInv, SocketInv, NobodyRefused, Serving, Up
<1>10. CountInv'
  <2>1. Counted' = Counted
    BY <1>2, <1>3 DEF Counted
  <2>. QED
    BY <1>2, <2>1 DEF ChatInv, CountInv, NobodyRefused, Serving, Up
<1>. QED
  BY <1>1, <1>6, <1>7, <1>8, <1>9, <1>10 DEF ChatInv

(* A client is counted down, on the way to its close. *)
LEMMA CountDownKeeps ==
  ASSUME ChatInv, NEW c \in Conns,
         \/ CountDown(c, "refused", "refused_notify")
         \/ CountDown(c, "close", "notify")
  PROVE  ChatInv'
<1>. USE ConnsFacts
<1>1. VarTypes /\ VarTypes'
  BY HandlerTypes DEF HandlerStep, HandlerRefuse, HandlerClose, ChatInv
<1>2. /\ UNCHANGED <<main_pc, running, accepted, users, owner, backlog, peer,
                     sock, name, is_online, deleted, refused, replaced>>
      /\ live_users' = live_users - 1
      /\ \/ HandlerGo(c, "refused", "refused_notify")
         \/ HandlerGo(c, "close", "notify")
  BY DEF CountDown, main_vars, flags, peer_vars, client_vars
<1>3. /\ \/ handler[c] = "refused" /\ handler'[c] = "refused_notify"
         \/ handler[c] = "close" /\ handler'[c] = "notify"
      /\ \A d \in Conns : d # c => handler'[d] = handler[d]
  BY <1>1, <1>2, GoTypes DEF Places
<1>4. PlaceInv'
  BY <1>2, <1>3 DEF ChatInv, PlaceInv, Up
<1>5. ThreadInv'
  <2>1. SUFFICES ASSUME NEW d \in Conns PROVE ThreadOK(d)'
    BY DEF ThreadInv
  <2>2. CASE d = c
    BY <1>2, <1>3, <2>2
    DEF ChatInv, ThreadInv, ThreadOK, Unnamed, Named, Chatting
  <2>3. CASE d # c
    BY <1>2, <1>3, <2>3 DEF ChatInv, ThreadInv, ThreadOK
  <2>. QED
    BY <2>2, <2>3
<1>6. RegistryInv'
  <2>1. \A d \in Conns : Enrolled(d)' <=> Enrolled(d)
    BY <1>2, <1>3 DEF Enrolled
  <2>. QED
    BY <1>1, <1>2, <2>1, RegistryStays DEF ChatInv
<1>7. SocketInv'
  <2>1. \A d \in Conns : Held(d)' <=> Held(d)
    BY <1>2, <1>3 DEF Held
  <2>. QED
    BY <1>2, <2>1 DEF ChatInv, SocketInv, NobodyRefused, Serving, Up
<1>8. CountInv'
  <2>1. Counted' = Counted \ {c} /\ c \in Counted /\ Counted \in SUBSET Conns
    BY <1>2, <1>3 DEF Counted, ChatInv, PlaceInv
  <2>2. Cardinality(Counted') = Cardinality(Counted) - 1
    BY <2>1, ConnSets
  <2>3. live_users \in Int
    BY <1>1 DEF VarTypes
  <2>. QED
    BY <1>2, <2>2, <2>3 DEF ChatInv, CountInv, NobodyRefused, Serving, Up
<1>. QED
  BY <1>1, <1>4, <1>5, <1>6, <1>7, <1>8 DEF ChatInv

(* The descriptor of a client is closed, and main notified.  The thread of *)
(* a refused client goes on; any other one ends.                           *)
LEMMA NotifyKeeps ==
  ASSUME ChatInv, NEW c \in Conns,
         \/ NotifyAndClose(c, "refused_notify", "joined") /\ UNCHANGED deleted
         \/ CloseAndDelete(c)
  PROVE  ChatInv'
<1>. USE ConnsFacts
<1>1. VarTypes /\ VarTypes'
  BY HandlerTypes DEF HandlerStep, HandlerRefuse, HandlerClose, ChatInv
<1>2. /\ UNCHANGED <<running, accepted, live_users, users, backlog, sock, name,
                     is_online, refused, replaced>>
      /\ main_pc' = IF main_pc = "asleep" THEN "pred" ELSE main_pc
      /\ CloseSock(sock[c])
      /\ \/ /\ HandlerGo(c, "refused_notify", "joined")
            /\ UNCHANGED deleted
         \/ /\ HandlerGo(c, "notify", "ended")
            /\ deleted' \subseteq deleted \cup {c}
  BY DEF NotifyAndClose, CloseAndDelete, NotifyAll, flags, history
<1>3. /\ \/ /\ handler[c] = "refused_notify" /\ handler'[c] = "joined"
            /\ UNCHANGED deleted
         \/ /\ handler[c] = "notify" /\ handler'[c] = "ended"
            /\ deleted' \subseteq deleted \cup {c}
      /\ \A d \in Conns : d # c => handler'[d] = handler[d]
  BY <1>1, <1>2, GoTypes DEF Places, Broadcasting
<1>4. NobodyRefused => handler[c] = "notify" /\ handler'[c] = "ended"
  BY <1>3 DEF ChatInv, ThreadInv, ThreadOK, NobodyRefused
<1>5. sock[c] # 0 /\ sock[c] \in Fds
  BY <1>1, <1>3 DEF ChatInv, PlaceInv, VarTypes
<1>6. /\ \A g \in Fds : owner'[g] = IF g = sock[c] THEN NoConn ELSE owner[g]
      /\ \A d \in Conns : peer'[d] \in {peer[d], "gone"}
  BY <1>1, <1>2, <1>5, CloseEffect
<1>7. /\ Up' => Up
      /\ Up' => (main_pc' = "start" <=> main_pc = "start")
      /\ Up' => (main_pc' = "counted" <=> main_pc = "counted")
      /\ Serving' => Serving
      /\ main_pc' = "closing" <=> main_pc = "closing"
      /\ main_pc' \in {"accept", "start"} => main_pc' = main_pc
  BY <1>2 DEF Up, Serving
<1>8. PlaceInv'
  <2>1. \A d \in Conns :
          /\ sock[d] = 0 => handler'[d] = "none"
          /\ d = accepted => sock[d] # 0 /\ handler'[d] = "none"
    BY <1>3 DEF ChatInv, PlaceInv
  <2>2. Up' => (main_pc' \in {"start", "counted"} <=> accepted # NoConn)
    BY <1>7 DEF ChatInv, PlaceInv
  <2>. QED
    BY <1>2, <1>5, <2>1, <2>2, CloseKeepsPlaces DEF PlaceInv
<1>9. ThreadInv'
  <2>1. SUFFICES ASSUME NEW d \in Conns PROVE ThreadOK(d)'
    BY DEF ThreadInv
  <2>2. CASE d = c
    BY <1>2, <1>3, <2>2
    DEF ChatInv, ThreadInv, ThreadOK, Unnamed, Named, Chatting
  <2>3. CASE d # c
    BY <1>2, <1>3, <2>3 DEF ChatInv, ThreadInv, ThreadOK
  <2>. QED
    BY <2>2, <2>3
<1>10. RegistryInv'
  <2>1. \A d \in Conns : Enrolled(d)' <=> Enrolled(d)
    BY <1>2, <1>3 DEF Enrolled
  <2>. QED
    BY <1>1, <1>2, <2>1, RegistryStays DEF ChatInv
<1>11. SocketInv'
  <2>1. ASSUME NobodyRefused, main_pc = "closing", NEW d \in Conns, Held(d)'
        PROVE  owner'[sock[d]] \in {d, NoConn}
    <3>1. Held(d)
      BY <1>2, <1>3, <2>1 DEF Held
    <3>2. owner[sock[d]] \in {d, NoConn} /\ sock[d] # 0
      BY <2>1, <3>1 DEF ChatInv, SocketInv, PlaceInv, Held
    <3>3. sock[d] \in Fds
      BY <1>1, <3>2 DEF VarTypes
    <3>. QED
      BY <1>6, <3>2, <3>3
  <2>2. SUFFICES ASSUME NobodyRefused, Serving, NEW d \in Conns
                 PROVE  Held(d)' <=> sock[d] # 0 /\ owner'[sock[d]] = d
    BY <1>2, <1>7, <2>1 DEF SocketInv, NobodyRefused
  <2>3. handler[c] = "notify" /\ handler'[c] = "ended"
    BY <1>4, <2>2
  <2>4. \A e \in Conns : Held(e) <=> sock[e] # 0 /\ owner[sock[e]] = e
    BY <2>2 DEF ChatInv, SocketInv
  <2>5. owner[sock[c]] = c
    BY <2>3, <2>4 DEF Held
  <2>6. CASE d = c
    <3>1. d # accepted
      BY <2>3, <2>6 DEF ChatInv, PlaceInv
    <3>2. ~Held(d)'
      BY <1>2, <2>3, <2>6, <3>1 DEF Held
    <3>. QED
      BY <1>5, <1>6, <2>6, <3>2
  <2>7. CASE d # c
    <3>1. Held(d)' <=> Held(d)
      BY <1>2, <1>3, <2>7 DEF Held
    <3>2. sock[d] # 0 => sock[d] \in Fds
      BY <1>1 DEF VarTypes
    <3>3. Held(d) <=> sock[d] # 0 /\ owner[sock[d]] = d
      BY <2>4
    <3>4. CASE sock[d] = sock[c]
      <4>1. owner'[sock[d]] = NoConn /\ owner[sock[d]] = c
        BY <1>5, <1>6, <2>5, <3>4
      <4>. QED
        BY <2>7, <3>1, <3>3, <4>1
    <3>5. CASE sock[d] \in Fds /\ sock[d] # sock[c]
      <4>1. owner'[sock[d]] = owner[sock[d]]
        BY <1>6, <3>5
      <4>. QED
        BY <3>1, <3>3, <4>1
    <3>6. CASE sock[d] = 0
      BY <3>1, <3>3, <3>6
    <3>. QED
      BY <3>2, <3>4, <3>5, <3>6
  <2>. QED
    BY <2>6, <2>7
<1>12. CountInv'
  <2>1. NobodyRefused /\ Up' => Counted' = Counted
    BY <1>2, <1>3, <1>7, <1>4 DEF Counted
  <2>. QED
    BY <1>2, <1>7, <2>1 DEF ChatInv, CountInv, NobodyRefused, Serving
<1>. QED
  BY <1>1, <1>8, <1>9, <1>10, <1>11, <1>12 DEF ChatInv

(* Names are sent by set_user_name alone. *)
LEMMA TypedKept ==
  ASSUME ChatInv, TypedInv, [Next]_vars
  PROVE  TypedInv'
<1>. USE ConnsFacts
<1>1. VarTypes
  BY DEF ChatInv
<1>2. ASSUME UNCHANGED typed,
             \A d \in Conns : inbox'[d] = "name" => inbox[d] = "name"
      PROVE  TypedInv'
  BY <1>2 DEF TypedInv
<1>3. ASSUME NEW f \in Fds \cup {0}, CloseSock(f)
      PROVE  \A d \in Conns : inbox'[d] = "name" => inbox[d] = "name"
  <2>1. At(f) # NoConn => At(f) \in Conns
    BY <1>1 DEF At, VarTypes
  <2>. QED
    BY <1>1, <1>3, <2>1 DEF CloseSock, ClientStops, VarTypes
<1>4. CASE \/ MainPredicate \/ MainSleep \/ MainAccept \/ MainCount
           \/ MainVisit \/ MainExit \/ SpuriousWakeup \/ Interrupt \/ Crash
           \/ UNCHANGED vars
  <2>1. UNCHANGED <<inbox, typed>>
    BY <1>4 DEF MainPredicate, MainSleep, MainAccept, MainCount, MainVisit,
                MainExit, SpuriousWakeup, Interrupt, Crash, vars,
                all_but_handler, peer_vars
  <2>. QED
    BY <1>2, <2>1
<1>5. CASE MainStart
  <2>1. sock[accepted] \in Fds \cup {0}
    BY <1>1, <1>5
    DEF MainStart, MainGo, ChatInv, PlaceInv, VarTypes, Up
  <2>2. UNCHANGED typed /\ (UNCHANGED inbox \/ CloseSock(sock[accepted]))
    BY <1>5 DEF MainStart
  <2>. QED
    BY <1>2, <1>3, <2>1, <2>2
<1>6. CASE MainClose
  <2>1. sock[main_visiting] \in Fds \cup {0}
    BY <1>1, <1>6 DEF MainClose, VarTypes
  <2>. QED
    BY <1>2, <1>3, <1>6, <2>1 DEF MainClose
<1>7. ASSUME NEW c \in Conns, HandlerStep(c) PROVE TypedInv'
  <2>1. CASE HandlerRefuse(c) \/ HandlerClose(c)
    <3>1. sock[c] \in Fds \cup {0}
      BY <1>1 DEF VarTypes
    <3>2. /\ UNCHANGED typed
          /\ UNCHANGED inbox \/ CloseSock(sock[c])
      BY <2>1 DEF HandlerRefuse, HandlerClose, CloseAndDelete, CountDown,
                  NotifyAndClose, peer_vars
    <3>. QED
      BY <1>2, <1>3, <3>1, <3>2
  <2>2. CASE HandlerName(c) \/ HandlerMessage(c)
    <3>1. /\ UNCHANGED typed
          /\ UNCHANGED inbox \/ Receive(c)
      BY <2>2 DEF HandlerName, NameOr, HandlerMessage, MessageOrTimeout
    <3>2. Receive(c) =>
            \A d \in Conns : inbox'[d] = "name" => inbox[d] = "name"
      BY <1>1 DEF Receive, VarTypes
    <3>. QED
      BY <1>2, <3>1, <3>2
  <2>3. CASE \/ HandlerWelcome(c) \/ HandlerCheck(c) \/ HandlerInsert(c)
             \/ HandlerOnline(c) \/ BroadcastNext(c) \/ BroadcastSend(c)
             \/ BroadcastEnd(c) \/ HandlerList(c) \/ HandlerUnregister(c)
             \/ HandlerErase(c)
    <3>1. UNCHANGED <<inbox, typed>>
      BY <2>3 DEF HandlerWelcome, HandlerCheck, HandlerInsert, HandlerOnline,
                  BroadcastNext, BroadcastSend, BroadcastEnd, HandlerList,
                  HandlerUnregister, HandlerErase, peer_vars
    <3>. QED
      BY <1>2, <3>1
  <2>. QED
    BY <1>7, <2>1, <2>2, <2>3 DEF HandlerStep
<1>8. ASSUME NEW c \in Conns,
             ClientConnect(c) \/ ClientLine(c) \/ ClientLeave(c)
      PROVE  TypedInv'
  <2>1. /\ UNCHANGED typed
        /\ \/ UNCHANGED inbox
           \/ \E m \in Lines : inbox' = [inbox EXCEPT ![c] = m]
    BY <1>8 DEF ClientConnect, ClientLine, ClientLeave
  <2>2. \A d \in Conns : inbox'[d] = "name" => inbox[d] = "name"
    BY <1>1, <2>1 DEF VarTypes, Lines
  <2>. QED
    BY <1>2, <2>1, <2>2
<1>9. ASSUME NEW c \in Conns, ClientName(c) PROVE TypedInv'
  <2>1. CASE UNCHANGED <<inbox, typed>>
    BY <1>2, <2>1
  <2>2. CASE /\ inbox' = [inbox EXCEPT ![c] = "name"]
             /\ \E n \in NamesOf[c] : typed' = [typed EXCEPT ![c] = n]
    <3>1. NamesOf[c] \subseteq Names
      BY DEF Names
    <3>2. /\ typed'[c] # 0
          /\ \A d \in Conns : d # c =>
               typed'[d] = typed[d] /\ inbox'[d] = inbox[d]
      BY <1>1, <2>2, <3>1 DEF VarTypes
    <3>. QED
      BY <3>2 DEF TypedInv
  <2>. QED
    BY <1>9, <2>1, <2>2 DEF ClientName
<1>. QED
  BY <1>4, <1>5, <1>6, <1>7, <1>8, <1>9 DEF Next, MainStep

LEMMA InitChatInv == Init => ChatInv /\ TypedInv
<1>. USE ConnsFacts
<1>1. SUFFICES ASSUME Init PROVE ChatInv /\ TypedInv
  OBVIOUS
<1>2. <<>> \in Seq(Conns) /\ DOMAIN <<>> = {}
  OBVIOUS
<1>3. 0 \in 0 .. MaxEvents
  BY ConnsFacts
<1>4. VarTypes
  BY <1>1, <1>2, <1>3 DEF Init, VarTypes
<1>5. PlaceInv
  BY <1>1, <1>2 DEF Init, PlaceInv
<1>6. ThreadInv
  BY <1>1 DEF Init, ThreadInv, ThreadOK, Unnamed, Named, Chatting
<1>7. RegistryInv
  BY <1>1 DEF Init, RegistryInv, Enrolled
<1>8. SocketInv
  BY <1>1 DEF Init, SocketInv, Held
<1>9. CountInv
  <2>1. Counted = {}
    BY <1>1 DEF Init, Counted
  <2>. QED
    BY <1>1, <2>1, FS_EmptySet DEF Init, CountInv
<1>10. TypedInv
  BY <1>1 DEF Init, TypedInv
<1>. QED
  BY <1>4, <1>5, <1>6, <1>7, <1>8, <1>9, <1>10 DEF ChatInv

LEMMA StepChatInv ==
  ChatInv /\ TypedInv /\ [Next]_vars => ChatInv' /\ TypedInv'
<1>. SUFFICES ASSUME ChatInv, TypedInv, [Next]_vars PROVE ChatInv'
  BY TypedKept
<1>1. CASE MainStep \/ SpuriousWakeup \/ Interrupt \/ Crash
  <2>1. CASE MainAccept
    BY <2>1, AcceptKeeps, QuietMainKeeps
  <2>2. CASE MainClose
    BY <2>2, ShutdownKeeps
  <2>. QED
    BY <1>1, <2>1, <2>2, CountKeeps, StartKeeps, QuietMainKeeps DEF MainStep
<1>2. ASSUME NEW c \in Conns, HandlerStep(c) PROVE ChatInv'
  <2>1. CASE HandlerName(c)
    BY <2>1, NameKeeps, QuietThreadKeeps
  <2>2. CASE HandlerRefuse(c) \/ HandlerClose(c)
    BY <2>2, CountDownKeeps, NotifyKeeps DEF HandlerRefuse, HandlerClose
  <2>3. CASE \/ HandlerInsert(c) \/ HandlerOnline(c) \/ HandlerUnregister(c)
             \/ HandlerErase(c)
    BY <2>3, InsertKeeps, OnlineKeeps, EraseKeeps
  <2>4. CASE \/ HandlerWelcome(c) \/ HandlerCheck(c) \/ BroadcastNext(c)
             \/ BroadcastSend(c) \/ BroadcastEnd(c) \/ HandlerMessage(c)
             \/ HandlerList(c)
    BY <2>4, QuietThreadKeeps
  <2>. QED
    BY <1>2, <2>1, <2>2, <2>3, <2>4 DEF HandlerStep
<1>3. ASSUME NEW c \in Conns, \/ ClientConnect(c) \/ ClientName(c)
                              \/ ClientLine(c) \/ ClientLeave(c)
      PROVE  ChatInv'
  BY <1>3, ConnectKeeps, QuietClientKeeps
<1>4. CASE UNCHANGED vars
  BY <1>4 DEF ChatInv, VarTypes, PlaceInv, ThreadInv, ThreadOK, RegistryInv,
              Enrolled, SocketInv, CountInv, Counted, Held, NobodyRefused,
              Serving, Up, vars, all_but_handler, main_vars, flags, peer_vars,
              client_vars, loop_vars
<1>. QED
  BY <1>1, <1>2, <1>3, <1>4 DEF Next
-----------------------------------------------------------------------------
(* Theorems *)

(* Connections, threads, the map and the count fit together as ChatInv     *)
(* says, in every reachable state.                                         *)
THEOREM ChatInvHolds == Spec => []ChatInv
<1>1. Spec => [](ChatInv /\ TypedInv)
  BY InitChatInv, StepChatInv, PTL DEF Spec
<1>. QED
  BY <1>1, PTL

(* Every variable stays in its type: in particular accept always finds a   *)
(* free descriptor, and the count never goes below zero unless a client    *)
(* was refused.                                                            *)
THEOREM ChatTypeCorrect == Spec => []ChatTypeOK
<1>1. ChatInv => ChatTypeOK
  <2>1. Cardinality(Counted) \in Nat
    BY ConnSets DEF Counted
  <2>. QED
    BY <2>1 DEF ChatInv, CountInv, ChatTypeOK
<1>. QED
  BY <1>1, ChatInvHolds, PTL

(* Those who are served are those main has counted, and the one it has     *)
(* just accepted.                                                          *)
LEMMA ServedIsCounted ==
  ASSUME ChatInv, NobodyRefused, Serving
  PROVE  /\ main_pc # "start" => Served = Counted
         /\ main_pc = "start" =>
              /\ accepted \in Conns \ Counted
              /\ Served = Counted \cup {accepted}
<1>. USE ConnsFacts
<1>1. \A c \in Conns : Held(c) <=> sock[c] # 0 /\ owner[sock[c]] = c
  BY DEF ChatInv, SocketInv
<1>2. \A c \in Conns : (\E f \in Fds : owner[f] = c) <=> Held(c)
  <2>1. \A c \in Conns : sock[c] # 0 => sock[c] \in Fds
    BY DEF ChatInv, VarTypes
  <2>2. \A f \in Fds : owner[f] # NoConn => sock[owner[f]] = f
    BY DEF ChatInv, PlaceInv
  <2>3. ASSUME NEW c \in Conns, Held(c) PROVE \E f \in Fds : owner[f] = c
    BY <1>1, <2>1, <2>3
  <2>4. ASSUME NEW c \in Conns, NEW f \in Fds, owner[f] = c PROVE Held(c)
    <3>1. sock[c] = f /\ f # 0
      BY <2>2, <2>4
    <3>. QED
      BY <1>1, <2>4, <3>1
  <2>. QED
    BY <2>3, <2>4
<1>3. main_pc \in {"start", "counted"} <=> accepted # NoConn
  BY DEF ChatInv, PlaceInv, Serving
<1>4. accepted \in Conns => handler[accepted] = "none"
  BY DEF ChatInv, PlaceInv
<1>5. accepted \in Conns \cup {NoConn}
  BY DEF ChatInv, VarTypes
<1>6. \A c \in Conns : c \in Served <=> c \in Counted \/ c = accepted
  BY <1>2, <1>3, <1>4 DEF Served, Held, Counted
<1>7. Served \subseteq Conns /\ Counted \subseteq Conns
  BY DEF Served, Counted
<1>. QED
  BY <1>3, <1>4, <1>5, <1>6, <1>7 DEF Counted

(* Unless a client was refused the count is exact. *)
THEOREM CountIsExact == Spec => []LiveUsersExact
<1>1. ChatInv => LiveUsersExact
  BY ServedIsCounted DEF ChatInv, CountInv, LiveUsersExact
<1>. QED
  BY <1>1, ChatInvHolds, PTL

(* Unless a client was refused no more than MaxClients are served at a     *)
(* time.                                                                   *)
THEOREM AdmissionIsLimited == Spec => []AdmissionLimitUnlessRefused
<1>1. ChatInv => AdmissionLimitUnlessRefused
  <2>1. SUFFICES ASSUME ChatInv, NobodyRefused, Serving
                 PROVE  Cardinality(Served) <= MaxClients
    BY DEF AdmissionLimitUnlessRefused, AdmissionLimit
  <2>2. live_users = Cardinality(Counted) /\ Counted \in SUBSET Conns
    BY <2>1 DEF ChatInv, CountInv, Counted
  <2>3. CASE main_pc # "start"
    BY <2>1, <2>2, <2>3, ServedIsCounted DEF ChatInv, CountInv
  <2>4. CASE main_pc = "start"
    <3>1. Cardinality(Served) = Cardinality(Counted) + 1
      BY <2>1, <2>2, <2>4, ServedIsCounted, ConnSets
    <3>2. live_users < MaxClients
      BY <2>1, <2>4 DEF ChatInv, CountInv
    <3>3. Cardinality(Counted) \in Nat
      BY <2>2, ConnSets
    <3>. QED
      BY <2>2, <3>1, <3>2, <3>3, ConnsFacts
  <2>. QED
    BY <2>3, <2>4
<1>. QED
  BY <1>1, ChatInvHolds, PTL

(* Unless a client was refused every thread keeps its client's descriptor  *)
(* until it closes it, or main does as the server stops.                   *)
THEOREM DescriptorsAreOwned == Spec => []SocketsOwned
<1>1. ChatInv => SocketsOwned
  BY DEF ChatInv, SocketInv, SocketsOwned, Serving, Held
<1>. QED
  BY <1>1, ChatInvHolds, PTL

(* Whatever names are given and however often, who is on line is in the    *)
(* map unless an entry under its name was written over, and who is in the  *)
(* map is on line or between the two writes of its entering or leaving.    *)
THEOREM RegistryIsExact == Spec => []RegistryExact
<1>1. ChatInv => RegistryExact
  BY DEF ChatInv, RegistryInv, Enrolled, Registered, RegistryExact
<1>. QED
  BY <1>1, ChatInvHolds, PTL

(* Even when names clash the map holds no deleted client, and nobody under *)
(* a name that is not his.                                                 *)
THEOREM NobodyDangles == Spec => []NoDanglingEntry
<1>1. ChatInv => NoDanglingEntry
  BY DEF ChatInv, VarTypes, ThreadInv, ThreadOK, RegistryInv, NoDanglingEntry,
         Enrolled, Registered, Chatting
<1>. QED
  BY <1>1, ChatInvHolds, PTL
=============================================================================
