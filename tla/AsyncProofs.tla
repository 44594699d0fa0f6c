----------------------------- MODULE AsyncProofs -----------------------------
(***************************************************************************)
(* What holds of the asynchronous sockets for any number of sockets, any   *)
(* size of the table and of the event queue.  The threads look an entry up *)
(* in one section under the mutex and use it in a later one; the inductive *)
(* invariant says what each of them may rely on in between.                *)
(***************************************************************************)
EXTENDS AsyncSocket, TLAPS, WellFoundedInduction

\* The places of the application inside a call on a socket that is in the table.
InCall == Requests \cup {"status", "sent"}

\* The entry a thread looked up is still there and is still of its socket.
LookupInv ==
    /\ app.pc \in InCall \cup {"unlist"} => HasFd(app.idx, app.fd)
    /\ app.pc = "fill" => list[app.idx] = NULL
    /\ tcpip.pc \in {"event", "readcb"} => HasFd(tcpip.idx, tcpip.fd)
    /\ app.pc = "unlist" /\ tcpip.pc # "idle" => tcpip.fd # app.fd

\* The socket that is being opened or closed is in lwIP or in the table; any other in both or none.
Moving(fd) == app.pc \in {"empty", "fill", "unlist"} /\ app.fd = fd

TableInv ==
    /\ \A i, j \in Idx, fd \in Fd : HasFd(i, fd) /\ HasFd(j, fd) => i = j
    /\ app.pc \in {"empty", "fill"} =>
         /\ \A i \in Idx : ~HasFd(i, app.fd)
         /\ sock[app.fd].phase # "free"
    /\ app.pc = "unlist" => sock[app.fd].phase = "free"
    /\ \A fd \in Fd : ~Moving(fd) => ((sock[fd].phase # "free") <=> \E i \in Idx : HasFd(i, fd))

\* A socket that is free or new has nothing to be acknowledged, and a listed one is of the
\* protocol its entry names; every byte of it is accounted for until lwIP has closed it.
Settled(i) ==
    LET e == list[i]
    IN  /\ e.protocol = sock[e.skt_fd].protocol
        /\ e.acked_size + Announced(i) + sock[e.skt_fd].unacked
             = IF e.protocol = "tcp" THEN e.send_size + Uncounted(i) ELSE 0

Closed(i) == app.pc = "unlist" /\ app.idx = i

SizeInv ==
    /\ \A fd \in Fd : sock[fd].phase = "free" => sock[fd].unacked = 0
    /\ app.pc \in {"empty", "fill"} => sock[app.fd].unacked = 0 /\ sock[app.fd].protocol = app.protocol
    /\ \A i \in Idx : list[i] # NULL /\ ~Closed(i) => Settled(i)

IInv == TypeOK /\ OnlySktThreadFaults /\ LookupInv /\ TableInv /\ SizeInv

-----------------------------------------------------------------------------
\* Every set of numbers has a least element.
LEMMA LeastIndex ==
  ASSUME NEW T, T \subseteq Nat, T # {}
  PROVE  \E x \in T : \A y \in T : x <= y
  <1> DEFINE R == OpToRel(<, Nat)
  <1>1. \A x, y \in Nat : y < x => <<y, x>> \in R
    BY DEF OpToRel
  <1>2. IsWellFoundedOn(R, Nat)
    BY NatLessThanWellFounded
  <1> HIDE DEF R
  <1>3. PICK x \in T : \A y \in T : <<y, x>> \notin R
    BY <1>2, WFMin
  <1>4. \A y \in T : ~(y < x)
    BY <1>1, <1>3
  <1> QED
    BY <1>4

\* The loops of find_empty_socket_idx and find_valid_socket_idx_by_fd return a place they
\* were looking for, if there is one.
LEMMA FirstFound ==
  ASSUME NEW S, S \subseteq Idx, S # {}
  PROVE  First(S) \in S
  <1>1. S \subseteq Nat
    BY MaxSocketAssumption DEF Idx
  <1>2. \E i \in S : \A j \in S : i <= j
    BY <1>1, LeastIndex
  <1> QED
    BY <1>2 DEF First

\* find_valid_socket_idx_by_fd returns an entry of the socket it was asked for.
LEMMA FirstValid ==
  ASSUME NEW fd, Valid(fd) # {}
  PROVE  First(Valid(fd)) \in Idx /\ HasFd(First(Valid(fd)), fd)
  <1>1. First(Valid(fd)) \in Valid(fd)
    BY FirstFound DEF Valid
  <1> QED
    BY <1>1 DEF Valid

\* find_empty_socket_idx returns a free place.
LEMMA FirstEmpty ==
  ASSUME Empty # {}
  PROVE  First(Empty) \in Idx /\ list[First(Empty)] = NULL
  <1>1. First(Empty) \in Empty
    BY FirstFound DEF Empty
  <1> QED
    BY <1>1 DEF Empty

\* What the application's call remembers, by place.
LEMMA AppFields ==
  ASSUME AppOK
  PROVE  /\ app.pc \in {"empty", "fill"} => app.fd \in Fd /\ app.protocol \in {"tcp", "udp"}
         /\ app.pc = "fill" => app.idx \in Idx
         /\ app.pc \in InCall \cup {"unlist"} => app.fd \in Fd /\ app.idx \in Idx
         /\ app.pc \in Requests => app \in [pc : Requests, fd : Fd, idx : Idx]
         /\ app.pc = "status" => app.ret \in {"ok", "EINPROGRESS", "error"}
         /\ app.pc = "sent" => app.ret \in Int
  BY DEF AppOK, Idle, Requests, InCall

\* What lwIP's handler remembers, by place.
LEMMA TcpipFields ==
  ASSUME TcpipOK
  PROVE  /\ tcpip.pc = "event" => tcpip.id \in EventIds /\ tcpip.size \in Int
         /\ tcpip.pc \in {"event", "readcb"} => tcpip.idx \in Idx
         /\ tcpip.pc # "idle" => tcpip.fd \in Fd
  BY DEF TcpipOK, Idle

\* What skt_proc_thread remembers, by place.
LEMMA SktFields ==
  ASSUME SktOK
  PROVE  /\ skt.pc # "idle" => skt.fd \in Fd
         /\ skt.pc = "use" => skt.idx \in Idx
  BY DEF SktOK, Idle

Phases == {"free", "open", "connecting", "connected", "reset"}

\* lwIP changes one field of one socket at a time.
LEMMA SockFields ==
  ASSUME sock \in [Fd -> Socks], NEW fd \in Fd
  PROVE  /\ \A p \in Phases : [sock EXCEPT ![fd].phase = p] \in [Fd -> Socks]
         /\ \A u \in Int : [sock EXCEPT ![fd].unacked = u] \in [Fd -> Socks]
  BY DEF Socks, Phases

\* The threads write one field of one entry at a time.
LEMMA EntryFields ==
  ASSUME list \in [Idx -> Entries \cup {NULL}], NEW i \in Idx, list[i] # NULL
  PROVE  /\ \A v \in {NULL, "callback"} : [list EXCEPT ![i].event_callback = v] \in [Idx -> Entries \cup {NULL}]
         /\ \A v \in {"CREATED", "CONNECTING", "CONNECTED", "CLOSING"} :
              [list EXCEPT ![i].status = v] \in [Idx -> Entries \cup {NULL}]
         /\ \A v \in Int : [list EXCEPT ![i].send_size = v] \in [Idx -> Entries \cup {NULL}]
  BY DEF Entries

-----------------------------------------------------------------------------
\* The table, lwIP's sockets, the queue and what the three threads remember keep their types;
\* the queue never holds more than it has places for.
THEOREM AsyncTypeCorrect == Spec => []TypeOK
<1>1. Init => TypeOK
  BY QueueLenAssumption DEF Init, TypeOK, AppOK, TcpipOK, SktOK, FreeSock, Socks
<1>2. TypeOK /\ [Next]_vars => TypeOK'
  <2> SUFFICES ASSUME TypeOK, [Next]_vars PROVE TypeOK'
    OBVIOUS
  <2>a. AppOK /\ TcpipOK /\ SktOK
    BY DEF TypeOK
  <2> USE AppFields, TcpipFields, SktFields, <2>a
  <2>1. ASSUME NEW o \in Opens, xy_socket_create(o[1], o[2]) PROVE TypeOK'
    BY OpensAssumption, <2>1 DEF xy_socket_create, LwipCall, Socks, TypeOK, AppOK, TcpipOK, SktOK, Idle, InCall, Requests
  <2>2. ASSUME NEW fd \in Fd, NEW r \in Requests, find_valid_socket_idx_by_fd(r, fd) PROVE TypeOK'
    BY FirstValid, <2>2 DEF find_valid_socket_idx_by_fd, Section, TypeOK, AppOK, TcpipOK, SktOK, Idle, InCall, Requests
  <2>3. CASE find_empty_socket_idx
    BY FirstEmpty, <2>3 DEF find_empty_socket_idx, Section, FreeSock, Socks, TypeOK, AppOK, TcpipOK, SktOK, Idle, InCall, Requests
  <2>4. CASE FillEntry
    BY <2>4 DEF FillEntry, Section, Entries, TypeOK, AppOK, TcpipOK, SktOK, Idle, InCall, Requests
  <2>5. ASSUME NEW cb \in {NULL, "callback"}, xy_socket_event_register(cb) PROVE TypeOK'
    <3>1. app.pc = "register" /\ app.idx \in Idx
      BY <2>5 DEF xy_socket_event_register, InCall, Requests
    <3>2. list' \in [Idx -> Entries \cup {NULL}]
      <4>0. list \in [Idx -> Entries \cup {NULL}]
        BY DEF TypeOK
      <4>1. CASE list[app.idx] = NULL
        BY <2>5, <4>0, <4>1 DEF xy_socket_event_register, Using
      <4>2. CASE list[app.idx] # NULL
        <5>1. list' = [list EXCEPT ![app.idx].event_callback = cb]
          BY <2>5, <4>2 DEF xy_socket_event_register, Using
        <5> QED
          BY <3>1, <4>0, <4>2, <5>1, EntryFields
      <4> QED
        BY <4>1, <4>2
    <3>3. app' \in {app, Idle} /\ fault' \in {"none", "app"} /\ UNCHANGED <<lock, msgq, sock, tcpip, skt>>
      BY <2>5 DEF xy_socket_event_register, Using, Section
    <3> QED
      BY <3>2, <3>3 DEF TypeOK, AppOK, TcpipOK, SktOK
  <2>6. CASE xy_socket_get
    BY <2>6 DEF xy_socket_get, Using, Section, TypeOK, AppOK, TcpipOK, SktOK, Idle, InCall, Requests
  <2>7. ASSUME NEW ret \in {"ok", "EINPROGRESS", "error"}, xy_socket_connect(ret) PROVE TypeOK'
    <3>1. app.pc = "connect" /\ app.fd \in Fd /\ app.idx \in Idx
      BY <2>7 DEF xy_socket_connect, InCall, Requests
    <3>2. PICK p \in Phases : sock' = [sock EXCEPT ![app.fd].phase = p]
      <4>1. sock[app.fd].phase \in Phases
        BY <3>1 DEF TypeOK, Socks, Phases
      <4>2. CASE ret = "ok"
        BY <2>7, <4>2 DEF xy_socket_connect, Phases
      <4>3. CASE ret = "EINPROGRESS"
        BY <2>7, <4>3 DEF xy_socket_connect, Phases
      <4>4. CASE ret = "error"
        BY <2>7, <4>1, <4>4 DEF xy_socket_connect, Phases
      <4> QED
        BY <4>2, <4>3, <4>4
    <3>3. sock' \in [Fd -> Socks]
      BY <3>1, <3>2, SockFields DEF TypeOK
    <3>4. AppOK'
      BY <3>1, <2>7 DEF xy_socket_connect, AppOK
    <3> QED
      BY <3>3, <3>4, <2>7 DEF xy_socket_connect, LwipCall, TypeOK, TcpipOK, SktOK
  <2>8. CASE ConnectStatus
    <3>1. app.pc = "status" /\ app.idx \in Idx
      BY <2>8 DEF ConnectStatus, InCall
    <3>2. list' \in [Idx -> Entries \cup {NULL}]
      <4>0. list \in [Idx -> Entries \cup {NULL}]
        BY DEF TypeOK
      <4>1. CASE UNCHANGED list
        BY <4>0, <4>1
      <4>2. CASE list' # list
        <5>1. list[app.idx] # NULL
          BY <2>8, <4>2 DEF ConnectStatus, Using
        <5>2. PICK st \in {"CONNECTED", "CONNECTING"} : list' = [list EXCEPT ![app.idx].status = st]
          BY <2>8, <4>2, <5>1 DEF ConnectStatus, Using
        <5> QED
          BY <3>1, <4>0, <5>1, <5>2, EntryFields
      <4> QED
        BY <4>1, <4>2
    <3>3. app' \in {app, Idle} /\ fault' \in {"none", "app"} /\ UNCHANGED <<lock, msgq, sock, tcpip, skt>>
      BY <2>8 DEF ConnectStatus, Using, Section
    <3> QED
      BY <3>2, <3>3 DEF TypeOK, AppOK, TcpipOK, SktOK
  <2>9. ASSUME NEW n \in Bytes, NEW ret \in Bytes, xy_socket_send(n, ret) PROVE TypeOK'
    <3>1. app.pc = "send" /\ app.fd \in Fd /\ app.idx \in Idx /\ n \in Int /\ ret \in Int
      BY <2>9, MaxSentAssumption DEF xy_socket_send, InCall, Requests, Bytes
    <3>2. sock[app.fd].unacked \in Int
      BY <3>1 DEF TypeOK, Socks
    <3>3. PICK u \in Int : sock' = [sock EXCEPT ![app.fd].unacked = u]
      <4>1. sock' = [sock EXCEPT ![app.fd].unacked =
                       IF Protocol = "tcp" THEN sock[app.fd].unacked + ret ELSE sock[app.fd].unacked]
        BY <2>9, <3>1 DEF xy_socket_send, TypeOK
      <4>2. (IF Protocol = "tcp" THEN sock[app.fd].unacked + ret ELSE sock[app.fd].unacked) \in Int
        BY <3>1, <3>2
      <4> QED
        BY <4>1, <4>2
    <3>4. sock' \in [Fd -> Socks]
      BY <3>1, <3>3, SockFields DEF TypeOK
    <3>5. AppOK'
      BY <3>1, <2>9 DEF xy_socket_send, AppOK
    <3> QED
      BY <3>4, <3>5, <2>9 DEF xy_socket_send, LwipCall, TypeOK, TcpipOK, SktOK
  <2>10. CASE SendSize
    <3>1. app.pc = "sent" /\ app.idx \in Idx /\ app.ret \in Int
      BY <2>10 DEF SendSize, InCall
    <3>2. list' \in [Idx -> Entries \cup {NULL}]
      <4>1. CASE list[app.idx] = NULL
        BY <2>10, <4>1 DEF SendSize, Using, TypeOK
      <4>2. CASE list[app.idx] # NULL
        <5>1. list[app.idx].send_size + app.ret \in Int
          BY <3>1, <4>2 DEF TypeOK, Entries
        <5>2. list' = [list EXCEPT ![app.idx].send_size = list[app.idx].send_size + app.ret]
          BY <2>10, <4>2 DEF SendSize, Accounted, Using
        <5>3. list \in [Idx -> Entries \cup {NULL}]
          BY DEF TypeOK
        <5> QED
          BY <3>1, <4>2, <5>1, <5>2, <5>3, EntryFields
      <4> QED
        BY <4>1, <4>2
    <3>3. app' \in {app, Idle} /\ fault' \in {"none", "app"} /\ UNCHANGED <<lock, msgq, sock, tcpip, skt>>
      BY <2>10 DEF SendSize, Using, Section
    <3> QED
      BY <3>2, <3>3 DEF TypeOK, AppOK, TcpipOK, SktOK
  <2>11. ASSUME NEW closed \in BOOLEAN, xy_socket_close(closed) PROVE TypeOK'
    <3>1. app.fd \in Fd /\ app \in [pc : Requests, fd : Fd, idx : Idx]
      BY <2>11 DEF xy_socket_close, InCall, Requests
    <3>2. sock' \in [Fd -> Socks]
      BY <3>1, <2>11 DEF xy_socket_close, TypeOK, FreeSock, Socks
    <3>3. AppOK'
      BY <3>1, <2>11 DEF xy_socket_close, AppOK
    <3> QED
      BY <3>2, <3>3, <2>11 DEF xy_socket_close, LwipCall, TypeOK, TcpipOK, SktOK
  <2>12. CASE FreeEntry
    BY <2>12 DEF FreeEntry, Using, Section, TypeOK, AppOK, TcpipOK, SktOK, Idle, InCall, Requests
  <2>13. ASSUME NEW fd \in Fd, NEW id \in EventIds, NEW size \in Bytes,
                xy_async_socket_api_event(fd, id, size) PROVE TypeOK'
    <3>1. size \in Int /\ sock[fd].unacked \in Int
      BY MaxSentAssumption DEF Bytes, TypeOK, Socks
    <3>2. \/ UNCHANGED sock
          \/ \E p \in Phases : sock' = [sock EXCEPT ![fd].phase = p]
          \/ \E u \in Int : sock' = [sock EXCEPT ![fd].unacked = u]
      <4>1. CASE id \in {"LWIP_EVENT_RECV", "LWIP_EVENT_FIN"}
        BY <2>13, <4>1 DEF xy_async_socket_api_event, Raised
      <4>2. CASE id = "LWIP_EVENT_CONNECTED"
        BY <2>13, <4>2 DEF xy_async_socket_api_event, Raised, Phases
      <4>3. CASE id = "LWIP_EVENT_ERR"
        BY <2>13, <4>3 DEF xy_async_socket_api_event, Raised, Phases
      <4>4. CASE id = "LWIP_EVENT_SENT"
        BY <2>13, <3>1, <4>4 DEF xy_async_socket_api_event, Raised
      <4> QED
        BY <4>1, <4>2, <4>3, <4>4 DEF EventIds
    <3>3. sock' \in [Fd -> Socks]
      BY <3>2, SockFields DEF TypeOK
    <3>4. TcpipOK'
      BY <3>1, <2>13, FirstValid DEF xy_async_socket_api_event, TcpipOK
    <3> QED
      BY <3>3, <3>4, <2>13 DEF xy_async_socket_api_event, Section, TypeOK, AppOK, SktOK
  <2>14. CASE HandleEvent
    <3>1. tcpip.pc = "event" /\ tcpip.id \in EventIds /\ tcpip.fd \in Fd /\ tcpip.idx \in Idx /\ tcpip.size \in Int
      BY <2>14 DEF HandleEvent
    <3>2. TcpipOK' /\ fault' \in {"none", "tcpip"} /\ UNCHANGED <<lock, msgq, sock, app, skt>>
      <4>1. fault' \in {"none", "tcpip"} /\ UNCHANGED <<lock, msgq, sock, app, skt>>
        BY <3>1, <2>14 DEF HandleEvent, Using, Section, EventIds
      <4>2. tcpip' \in {Idle, tcpip, [pc |-> "post", fd |-> tcpip.fd]}
        BY <3>1, <2>14 DEF HandleEvent, Using, EventIds
      <4> QED
        BY <3>1, <4>1, <4>2 DEF TcpipOK
    <3>3. list' \in [Idx -> Entries \cup {NULL}]
      <4>1. CASE UNCHANGED list
        BY <4>1 DEF TypeOK
      <4>2. CASE list[tcpip.idx] # NULL /\ list' = [list EXCEPT ![tcpip.idx].acked_size = @ + tcpip.size]
        BY <3>1, <4>2 DEF TypeOK, Entries
      <4>3. CASE \E st \in {"CLOSING", "CONNECTED"} :
                   list[tcpip.idx] # NULL /\ list' = [list EXCEPT ![tcpip.idx].status = st]
        BY <3>1, <4>3 DEF TypeOK, Entries
      <4> QED
        BY <3>1, <2>14, <4>1, <4>2, <4>3 DEF HandleEvent, Using, EventIds
    <3> QED
      BY <3>2, <3>3 DEF TypeOK, AppOK, SktOK
  <2>15. CASE xy_post_event_to_app
    BY FirstValid, <2>15 DEF xy_post_event_to_app, Section, TypeOK, AppOK, TcpipOK, SktOK, Idle, InCall, Requests
  <2>16. CASE ReadCallback
    BY <2>16 DEF ReadCallback, Using, TypeOK, AppOK, TcpipOK, SktOK, Idle, InCall, Requests
  <2>17. CASE send_msg_2_skt_thd
    BY QueueLenAssumption, <2>17 DEF send_msg_2_skt_thd, Room, LockReleased, TypeOK, AppOK, TcpipOK, SktOK, Idle, InCall, Requests
  <2>18. CASE skt_proc_thread
    <3>1. Head(msgq) \in Fd /\ msgq' \in Seq(Fd) /\ Len(msgq') = Len(msgq) - 1
      <4>1. msgq \in Seq(Fd) /\ msgq # << >> /\ msgq' = Tail(msgq)
        BY <2>18 DEF skt_proc_thread, TypeOK
      <4> QED
        BY <4>1
    <3>2. SktOK'
      BY <3>1, <2>18 DEF skt_proc_thread, SktOK
    <3> QED
      BY <3>1, <3>2, <2>18, QueueLenAssumption DEF skt_proc_thread, TypeOK, AppOK, TcpipOK
  <2>19. CASE FindForCallback
    BY FirstValid, <2>19 DEF FindForCallback, Section, TypeOK, AppOK, TcpipOK, SktOK, Idle, InCall, Requests
  <2>20. CASE UseForCallback
    BY <2>20 DEF UseForCallback, Section, TypeOK, AppOK, TcpipOK, SktOK, Idle, InCall, Requests
  <2>21. CASE UNCHANGED vars
    BY <2>21 DEF vars, TypeOK, AppOK, TcpipOK, SktOK
  <2> QED
    BY <2>1, <2>2, <2>3, <2>4, <2>5, <2>6, <2>7, <2>8, <2>9, <2>10, <2>11, <2>12, <2>13, <2>14, <2>15, <2>16, <2>17, <2>18, <2>19, <2>20, <2>21 DEF Next, AppCalls, AppGoesOn, TcpipGoesOn, SktThread
<1> QED
  BY <1>1, <1>2, PTL DEF Spec

-----------------------------------------------------------------------------
\* A step that adds no entry, frees none and gives none to another socket.
SameTable ==
    \A i \in Idx : /\ list'[i] = NULL <=> list[i] = NULL
                   /\ list[i] # NULL => list'[i].skt_fd = list[i].skt_fd /\ list'[i].protocol = list[i].protocol

SamePhases == \A fd \in Fd : sock'[fd].phase = "free" <=> sock[fd].phase = "free"

\* Writing a field of an entry leaves the entry to its socket.
LEMMA FieldWritten ==
  ASSUME TypeOK, NEW i \in Idx, list[i] # NULL
  PROVE  /\ \A v \in {NULL, "callback"} : list' = [list EXCEPT ![i].event_callback = v] => SameTable
         /\ \A v \in {"CREATED", "CONNECTING", "CONNECTED", "CLOSING"} :
              list' = [list EXCEPT ![i].status = v] => SameTable
         /\ \A v \in Int : list' = [list EXCEPT ![i].send_size = v] => SameTable
         /\ \A v \in Int : list' = [list EXCEPT ![i].acked_size = v] => SameTable
  <1>1. list \in [Idx -> Entries \cup {NULL}] /\ list[i] \in Entries
    BY DEF TypeOK
  <1>2. ASSUME NEW e \in Entries, e.skt_fd = list[i].skt_fd, e.protocol = list[i].protocol,
               list' = [list EXCEPT ![i] = e]
        PROVE  SameTable
    BY <1>1, <1>2, NullAssumption DEF SameTable
  <1>3. ASSUME NEW v \in {NULL, "callback"}, list' = [list EXCEPT ![i].event_callback = v] PROVE SameTable
    BY <1>1, <1>2, <1>3 DEF Entries
  <1>4. ASSUME NEW v \in {"CREATED", "CONNECTING", "CONNECTED", "CLOSING"}, list' = [list EXCEPT ![i].status = v]
        PROVE SameTable
    BY <1>1, <1>2, <1>4 DEF Entries
  <1>5. ASSUME NEW v \in Int, list' = [list EXCEPT ![i].send_size = v] PROVE SameTable
    BY <1>1, <1>2, <1>5 DEF Entries
  <1>6. ASSUME NEW v \in Int, list' = [list EXCEPT ![i].acked_size = v] PROVE SameTable
    BY <1>1, <1>2, <1>6 DEF Entries
  <1> QED
    BY <1>3, <1>4, <1>5, <1>6

\* A call on a listed socket, or an event, that leaves the table and the phases alone.
LEMMA TableKept ==
  ASSUME TypeOK, TableInv, LookupInv, SameTable, SamePhases,
         app.pc \notin {"empty", "fill", "unlist"}, app'.pc \notin {"empty", "fill", "unlist"}
  PROVE  TableInv'
  BY DEF TableInv, SameTable, SamePhases, HasFd, Moving

\* The same for a step of another thread than the application.
LEMMA TableKeptBesides ==
  ASSUME TypeOK, TableInv, LookupInv, SameTable, SamePhases, UNCHANGED app
  PROVE  TableInv'
  <1>1. app.pc \in {"empty", "fill", "unlist"} => app.fd \in Fd
    BY AppFields DEF TypeOK
  <1> QED
    BY <1>1 DEF TableInv, SameTable, SamePhases, HasFd, Moving

\* A call of lwIP, or an event, that neither opens nor frees a socket.
LEMMA PhaseWritten ==
  ASSUME TypeOK, NEW fd \in Fd
  PROVE  /\ \A p \in Phases \ {"free"} :
              sock[fd].phase # "free" /\ sock' = [sock EXCEPT ![fd].phase = p] => SamePhases
         /\ \A u \in Int : sock' = [sock EXCEPT ![fd].unacked = u] => SamePhases
  BY DEF TypeOK, Socks, Phases, SamePhases

\* connect() opens and frees no socket, and moves no bytes.
LEMMA ConnectPhases ==
  ASSUME TypeOK, NEW ret \in {"ok", "EINPROGRESS", "error"}, xy_socket_connect(ret), app.fd \in Fd
  PROVE  /\ SamePhases
         /\ \A fd \in Fd : sock'[fd].unacked = sock[fd].unacked /\ sock'[fd].protocol = sock[fd].protocol
<1>1. CASE ret = "ok"
  <2>1. sock[app.fd].phase # "free" /\ sock' = [sock EXCEPT ![app.fd].phase = "connected"]
    BY <1>1 DEF xy_socket_connect
  <2> QED
    BY <2>1 DEF TypeOK, Socks, SamePhases
<1>2. CASE ret = "EINPROGRESS"
  <2>1. sock[app.fd].phase # "free" /\ sock' = [sock EXCEPT ![app.fd].phase = "connecting"]
    BY <1>2 DEF xy_socket_connect
  <2> QED
    BY <2>1 DEF TypeOK, Socks, SamePhases
<1>3. CASE ret = "error"
  <2>1. sock' = [sock EXCEPT ![app.fd].phase = sock[app.fd].phase]
    BY <1>3 DEF xy_socket_connect
  <2> QED
    BY <2>1 DEF TypeOK, Socks, SamePhases
<1> QED
  BY <1>1, <1>2, <1>3

\* Whatever a thread looked up under the mutex is there when it comes back for it, and the
\* table and lwIP's sockets differ only in the one socket that is being opened or closed.
LEMMA TableStep ==
  ASSUME TypeOK, TypeOK', LookupInv, TableInv, OnlySktThreadFaults, [Next]_vars
  PROVE  LookupInv' /\ TableInv' /\ OnlySktThreadFaults'
<1> DEFINE Goal == LookupInv' /\ TableInv' /\ OnlySktThreadFaults'
<1>a. AppOK /\ TcpipOK /\ AppOK' /\ TcpipOK'
  BY DEF TypeOK
<1>b. UNCHANGED list => SameTable
  BY DEF SameTable
<1>c. UNCHANGED sock => SamePhases
  BY DEF SamePhases
<1>d. app.pc \in InCall \cup {"unlist"} => app.idx \in Idx /\ app.fd \in Fd /\ list[app.idx] # NULL
  BY <1>a, AppFields DEF LookupInv, HasFd
<1>e. tcpip.pc \in {"event", "readcb"} => tcpip.idx \in Idx /\ tcpip.fd \in Fd /\ list[tcpip.idx] # NULL
  BY <1>a, TcpipFields DEF LookupInv, HasFd
<1>f. ASSUME SameTable, SamePhases, app.pc \in InCall \cup {"idle"}, app' = Idle, UNCHANGED <<tcpip, fault>>
      PROVE  Goal
  <2>1. TableInv'
    BY <1>f, TableKept DEF InCall, Requests, Idle
  <2>2. LookupInv'
    BY <1>e, <1>f DEF LookupInv, SameTable, HasFd, Idle, InCall, Requests
  <2> QED
    BY <2>1, <2>2, <1>f DEF OnlySktThreadFaults
<1>g. ASSUME SameTable, UNCHANGED <<sock, app, fault>>,
             tcpip'.pc # "idle" => tcpip.pc # "idle" /\ tcpip'.fd = tcpip.fd,
             tcpip'.pc = "event" => FALSE,
             tcpip'.pc = "readcb" => /\ UNCHANGED list
                                     /\ list[tcpip'.idx] # NULL /\ list[tcpip'.idx].skt_fd = tcpip'.fd
      PROVE  Goal
  <2>1. TableInv'
    BY <1>c, <1>g, TableKeptBesides
  <2>2. app.pc = "fill" => app.idx \in Idx
    BY <1>a, AppFields
  <2>3. LookupInv'
    BY <1>d, <1>g, <2>2 DEF LookupInv, SameTable, HasFd
  <2> QED
    BY <2>1, <2>3, <1>g DEF OnlySktThreadFaults
<1>1. ASSUME NEW o \in Opens, xy_socket_create(o[1], o[2]) PROVE Goal
  <2>1. o[1] \in Fd
    BY OpensAssumption
  <2> QED
    BY <2>1, <1>1 DEF xy_socket_create, LwipCall, TypeOK, Socks, Moving, OnlySktThreadFaults, LookupInv, TableInv, HasFd, InCall, Requests, Idle
<1>2. ASSUME NEW fd \in Fd, NEW r \in Requests, find_valid_socket_idx_by_fd(r, fd) PROVE Goal
  <2>1. app'.pc \in Requests /\ app'.fd = fd /\ HasFd(app'.idx, fd)
    BY <1>2, FirstValid DEF find_valid_socket_idx_by_fd
  <2>2. TableInv'
    BY <1>2, <1>b, <1>c, <2>1, TableKept DEF find_valid_socket_idx_by_fd, Requests
  <2> QED
    BY <1>2, <2>1, <2>2 DEF find_valid_socket_idx_by_fd, LookupInv, HasFd, InCall, Requests, OnlySktThreadFaults
<1>3. CASE find_empty_socket_idx
  <2>1. app.pc = "empty" /\ app.fd \in Fd
    BY <1>3, <1>a, AppFields DEF find_empty_socket_idx
  <2>2. CASE Empty = {}
    BY <1>3, <2>1, <2>2 DEF find_empty_socket_idx, FreeSock, Moving, TypeOK, OnlySktThreadFaults, LookupInv, TableInv, HasFd, InCall, Requests, Idle
  <2>3. CASE Empty # {}
    <3>1. app'.pc = "fill" /\ app'.fd = app.fd /\ app'.idx \in Idx /\ list[app'.idx] = NULL /\ UNCHANGED sock
      BY <1>3, <2>3, FirstEmpty DEF find_empty_socket_idx
    <3> QED
      BY <1>3, <2>1, <3>1 DEF find_empty_socket_idx, Moving, OnlySktThreadFaults, LookupInv, TableInv, HasFd, InCall, Requests
  <2> QED
    BY <2>2, <2>3
<1>4. CASE FillEntry
  <2> DEFINE e == [skt_fd |-> app.fd, protocol |-> app.protocol, status |-> "CREATED",
                   event_callback |-> NULL, send_size |-> 0, acked_size |-> 0]
  <2>1. app.pc = "fill" /\ app.fd \in Fd /\ app.idx \in Idx /\ app.protocol \in {"tcp", "udp"} /\ list[app.idx] = NULL
    BY <1>4, <1>a, AppFields DEF FillEntry, LookupInv
  <2>2. e \in Entries /\ e # NULL /\ e.skt_fd = app.fd
    BY <2>1, NullAssumption DEF Entries
  <2>3. list' = [list EXCEPT ![app.idx] = e] /\ app' = Idle /\ UNCHANGED <<sock, tcpip, fault>>
    BY <1>4 DEF FillEntry
  <2> HIDE DEF e
  <2>4. \A i \in Idx, fd \in Fd : HasFd(i, fd)' <=> (HasFd(i, fd) \/ (i = app.idx /\ fd = app.fd))
    BY <2>1, <2>2, <2>3 DEF HasFd, TypeOK
  <2>5. TableInv'
    BY <2>1, <2>3, <2>4 DEF TableInv, Moving, Idle
  <2>6. LookupInv'
    BY <2>1, <2>3, <1>e DEF LookupInv, HasFd, Idle, InCall, Requests, TypeOK
  <2> QED
    BY <2>3, <2>5, <2>6 DEF OnlySktThreadFaults
<1>5. ASSUME NEW cb \in {NULL, "callback"}, xy_socket_event_register(cb) PROVE Goal
  BY <1>5, <1>c, <1>d, <1>f, FieldWritten DEF xy_socket_event_register, Using, InCall, Requests
<1>6. CASE xy_socket_get
  BY <1>6, <1>b, <1>c, <1>d, <1>f DEF xy_socket_get, Using, InCall, Requests
<1>7. ASSUME NEW ret \in {"ok", "EINPROGRESS", "error"}, xy_socket_connect(ret) PROVE Goal
  <2>1. app.pc = "connect" /\ app.fd \in Fd /\ app'.pc = "status" /\ app'.fd = app.fd /\ app'.idx = app.idx
        /\ UNCHANGED <<list, fault, tcpip>>
    BY <1>7, <1>d DEF xy_socket_connect, InCall, Requests, LwipCall
  <2>2. SamePhases
    BY <1>7, <2>1, ConnectPhases
  <2>3. TableInv'
    BY <1>b, <2>1, <2>2, TableKept
  <2> QED
    BY <2>1, <2>3 DEF LookupInv, HasFd, InCall, Requests, OnlySktThreadFaults
<1>8. CASE ConnectStatus
  BY <1>8, <1>b, <1>c, <1>d, <1>f, FieldWritten DEF ConnectStatus, Using, InCall
<1>9. ASSUME NEW n \in Bytes, NEW ret \in Bytes, xy_socket_send(n, ret) PROVE Goal
  <2>1. app.pc = "send" /\ app.fd \in Fd /\ UNCHANGED <<list, fault, tcpip>>
        /\ (app' = Idle \/ (app'.pc = "sent" /\ app'.fd = app.fd /\ app'.idx = app.idx))
    BY <1>9, <1>d DEF xy_socket_send, InCall, Requests, LwipCall
  <2>2. SamePhases
    BY <1>9, <2>1 DEF xy_socket_send, TypeOK, Socks, SamePhases
  <2>3. TableInv'
    BY <1>b, <2>1, <2>2, TableKept DEF Idle
  <2> QED
    BY <2>1, <2>3 DEF LookupInv, HasFd, InCall, Requests, OnlySktThreadFaults, Idle
<1>10. CASE SendSize
  <2>1. list[app.idx].send_size + Accounted \in Int
    BY <1>10, <1>a, <1>d, AppFields DEF SendSize, Accounted, TypeOK, Entries, InCall
  <2> QED
    BY <1>10, <1>c, <1>d, <1>f, <2>1, FieldWritten DEF SendSize, Using, InCall
<1>11. ASSUME NEW closed \in BOOLEAN, xy_socket_close(closed) PROVE Goal
  <2>1. app.pc = "close" /\ app.fd \in Fd /\ app \in [pc : Requests, fd : Fd, idx : Idx] /\ tcpip.pc = "idle"
        /\ UNCHANGED <<list, fault, tcpip>>
    BY <1>11, <1>a, <1>d, AppFields DEF xy_socket_close, LwipCall, Requests, InCall
  <2>2. CASE ~closed
    BY <1>11, <1>b, <1>c, <1>f, <2>1, <2>2 DEF xy_socket_close, InCall, Requests
  <2>3. CASE closed
    <3>1. app'.pc = "unlist" /\ app'.fd = app.fd /\ app'.idx = app.idx /\ sock' = [sock EXCEPT ![app.fd] = FreeSock]
      BY <1>11, <2>1, <2>3 DEF xy_socket_close
    <3> QED
      BY <2>1, <3>1 DEF FreeSock, Moving, TypeOK, OnlySktThreadFaults, LookupInv, TableInv, HasFd, InCall, Requests
  <2> QED
    BY <2>2, <2>3
<1>12. CASE FreeEntry
  <2>1. app.pc = "unlist" /\ app.fd \in Fd /\ app.idx \in Idx /\ HasFd(app.idx, app.fd) /\ app' = Idle
        /\ list' = [list EXCEPT ![app.idx] = NULL] /\ UNCHANGED <<sock, tcpip, fault>>
    BY <1>12, <1>d DEF FreeEntry, Using, LookupInv
  <2>2. \A i \in Idx, fd \in Fd : HasFd(i, fd)' <=> (HasFd(i, fd) /\ i # app.idx)
    BY <2>1 DEF HasFd, TypeOK
  <2>3. \A fd \in Fd : HasFd(app.idx, fd) => fd = app.fd
    BY <2>1 DEF HasFd
  <2>4. TableInv'
    BY <2>1, <2>2, <2>3 DEF TableInv, Moving, Idle
  <2>5. LookupInv'
    BY <2>1, <1>e DEF LookupInv, HasFd, Idle, InCall, Requests, TypeOK
  <2> QED
    BY <2>1, <2>4, <2>5 DEF OnlySktThreadFaults
<1>13. ASSUME NEW fd \in Fd, NEW id \in EventIds, NEW size \in Bytes,
              xy_async_socket_api_event(fd, id, size)
       PROVE  Goal
  <2>1. SamePhases /\ sock[fd].phase # "free"
    <3>1. size \in Int /\ sock[fd].unacked \in Int
      BY MaxSentAssumption DEF Bytes, TypeOK, Socks
    <3>2. CASE id \in {"LWIP_EVENT_RECV", "LWIP_EVENT_FIN"}
      BY <1>13, <1>c, <3>2 DEF xy_async_socket_api_event, Raised
    <3>3. CASE id = "LWIP_EVENT_CONNECTED"
      BY <1>13, <3>3, PhaseWritten DEF xy_async_socket_api_event, Raised, Phases
    <3>4. CASE id = "LWIP_EVENT_ERR"
      BY <1>13, <3>4, PhaseWritten DEF xy_async_socket_api_event, Raised, Phases
    <3>5. CASE id = "LWIP_EVENT_SENT"
      BY <1>13, <3>1, <3>5, PhaseWritten DEF xy_async_socket_api_event, Raised
    <3> QED
      BY <3>2, <3>3, <3>4, <3>5 DEF EventIds
  <2>2. UNCHANGED <<list, app, fault>> /\ (tcpip' = Idle \/ (tcpip'.pc = "event" /\ tcpip'.fd = fd /\ HasFd(tcpip'.idx, fd)))
    BY <1>13, FirstValid DEF xy_async_socket_api_event
  <2>3. TableInv'
    BY <1>b, <2>1, <2>2, TableKeptBesides
  <2> QED
    BY <2>1, <2>2, <2>3 DEF LookupInv, TableInv, HasFd, OnlySktThreadFaults, Idle
<1>14. CASE HandleEvent
  <2>1. tcpip.pc = "event" /\ tcpip.id \in EventIds /\ tcpip.size \in Int /\ list[tcpip.idx] # NULL /\ tcpip.idx \in Idx
    BY <1>14, <1>a, <1>e, TcpipFields DEF HandleEvent
  <2>2. list[tcpip.idx].acked_size + tcpip.size \in Int
    BY <2>1 DEF TypeOK, Entries
  <2>3. SameTable
    BY <1>14, <1>b, <2>1, <2>2, FieldWritten DEF HandleEvent, Using, EventIds
  <2>4. UNCHANGED <<sock, app, fault>> /\ (tcpip'.pc = "idle" \/ (tcpip'.fd = tcpip.fd /\ tcpip'.pc = "post"))
    <3>1. UNCHANGED <<sock, app, fault>> /\ tcpip' \in {Idle, [pc |-> "post", fd |-> tcpip.fd]}
      BY <1>14, <2>1 DEF HandleEvent, Using, EventIds
    <3> QED
      BY <3>1 DEF Idle
  <2>5. tcpip'.pc # "event" /\ tcpip'.pc # "readcb"
    BY <2>4
  <2> QED
    BY <1>g, <2>1, <2>3, <2>4, <2>5
<1>15. CASE xy_post_event_to_app
  <2>1. UNCHANGED <<list, sock, app, fault>> /\ tcpip.pc = "post"
    BY <1>15 DEF xy_post_event_to_app
  <2>2. \/ tcpip'.pc = "idle"
        \/ tcpip'.pc = "readcb" /\ tcpip'.fd = tcpip.fd /\ HasFd(tcpip'.idx, tcpip'.fd)
    BY <1>15, FirstValid DEF xy_post_event_to_app, Idle
  <2>3. tcpip'.pc # "event"
    BY <2>2
  <2> QED
    BY <1>b, <1>g, <2>1, <2>2, <2>3 DEF HasFd
<1>16. CASE ReadCallback
  <2>1. UNCHANGED <<list, sock, app, fault>> /\ tcpip.pc = "readcb"
    BY <1>16, <1>e DEF ReadCallback, Using
  <2>2. tcpip' \in {Idle, [pc |-> "put", fd |-> tcpip.fd]}
    BY <1>16, <1>e DEF ReadCallback, Using
  <2>3. tcpip'.pc \in {"idle", "put"} /\ (tcpip'.pc = "put" => tcpip'.fd = tcpip.fd)
    BY <2>2 DEF Idle
  <2>4. tcpip'.pc # "event" /\ tcpip'.pc # "readcb"
    BY <2>3
  <2> QED
    BY <1>b, <1>g, <2>1, <2>3, <2>4
<1>17. CASE send_msg_2_skt_thd
  <2>1. UNCHANGED <<list, sock, app, fault>> /\ tcpip'.pc = "idle"
    BY <1>17 DEF send_msg_2_skt_thd, Idle
  <2>2. tcpip'.pc # "event" /\ tcpip'.pc # "readcb"
    BY <2>1
  <2> QED
    BY <1>b, <1>g, <2>1, <2>2
<1>18. CASE skt_proc_thread \/ FindForCallback
  <2>1. UNCHANGED <<list, sock, app, tcpip, fault>>
    BY <1>18 DEF skt_proc_thread, FindForCallback
  <2> QED
    BY <2>1 DEF LookupInv, TableInv, HasFd, Moving, OnlySktThreadFaults
<1>19. CASE UseForCallback
  <2>1. UNCHANGED <<list, sock, app, tcpip>> /\ fault' \in {"none", "skt"}
    BY <1>19 DEF UseForCallback, Section
  <2> QED
    BY <2>1 DEF LookupInv, TableInv, HasFd, Moving, OnlySktThreadFaults
<1>20. CASE UNCHANGED vars
  BY <1>20 DEF vars, LookupInv, TableInv, HasFd, Moving, OnlySktThreadFaults
<1> QED
  BY <1>1, <1>2, <1>3, <1>4, <1>5, <1>6, <1>7, <1>8, <1>9, <1>10, <1>11, <1>12, <1>13, <1>14, <1>15, <1>16,
     <1>17, <1>18, <1>19, <1>20 DEF Next, AppCalls, AppGoesOn, TcpipGoesOn, SktThread

\* The tables are right when the system starts.
LEMMA TableInit == Init => LookupInv /\ TableInv /\ OnlySktThreadFaults
  BY DEF Init, LookupInv, TableInv, OnlySktThreadFaults, HasFd, Moving, Idle, FreeSock, InCall, Requests

\* ... and stay right in every step of the three threads.
LEMMA TableAlways == Spec => [](TypeOK /\ LookupInv /\ TableInv /\ OnlySktThreadFaults)
<1>1. TypeOK /\ TypeOK' /\ LookupInv /\ TableInv /\ OnlySktThreadFaults /\ [Next]_vars
        => (LookupInv /\ TableInv /\ OnlySktThreadFaults)'
  BY TableStep
<1> QED
  BY <1>1, TableInit, AsyncTypeCorrect, PTL DEF Spec

\* Between two calls of the application every socket of lwIP has one entry and every entry an
\* open socket, whichever of socket(), the search for a place and close() failed before.
THEOREM AsyncTableMatches == Spec => []TableMatchesSockets
<1>1. TypeOK /\ TableInv => TableMatchesSockets
  <2> SUFFICES ASSUME TypeOK, TableInv PROVE TableMatchesSockets
    OBVIOUS
  <2>1. ASSUME app.pc = "idle", NEW fd \in Fd PROVE (sock[fd].phase # "free") <=> (Valid(fd) # {})
    BY <2>1 DEF TableInv, Moving, Valid
  <2>2. ASSUME NEW i \in Idx, NEW j \in Idx, list[i] # NULL, HasFd(j, list[i].skt_fd) PROVE i = j
    <3>1. list[i].skt_fd \in Fd
      BY <2>2 DEF TypeOK, Entries
    <3> QED
      BY <2>2, <3>1 DEF TableInv, HasFd
  <2> QED
    BY <2>1, <2>2 DEF TableMatchesSockets
<1> QED
  BY <1>1, TableAlways, PTL

\* lwIP's event handler and the calls of the application never use an entry that is gone,
\* although they look it up in one section and use it in a later one.
THEOREM AsyncOnlySktThreadFaults == Spec => []OnlySktThreadFaults
  BY TableAlways, PTL

-----------------------------------------------------------------------------
\* What entry i says of its socket's bytes, and what lwIP does.
SameBytes(i) ==
    /\ list'[i].acked_size = list[i].acked_size
    /\ list'[i].send_size = list[i].send_size
    /\ sock'[list[i].skt_fd].unacked = sock[list[i].skt_fd].unacked
    /\ sock'[list[i].skt_fd].protocol = sock[list[i].skt_fd].protocol
    /\ Announced(i)' = Announced(i)
    /\ Uncounted(i)' = Uncounted(i)

\* An entry stays settled in a step that is not about its bytes.
LEMMA SettledKept ==
  ASSUME NEW i \in Idx, list[i] # NULL, SameTable, SameBytes(i), Settled(i)
  PROVE  Settled(i)'
  BY DEF SameTable, SameBytes, Settled

\* A step of which no entry's sizes and no socket's bytes are a part keeps SizeInv.
LEMMA SizeKept ==
  ASSUME TypeOK, SizeInv, SameTable, SamePhases,
         \A i \in Idx : list[i] # NULL => SameBytes(i),
         \A fd \in Fd : sock'[fd].unacked = sock[fd].unacked /\ sock'[fd].protocol = sock[fd].protocol,
         app' # app => app.pc # "unlist" /\ app'.pc \notin {"empty", "fill"}
  PROVE  SizeInv'
<1>1. ASSUME NEW i \in Idx, list'[i] # NULL, ~Closed(i)' PROVE Settled(i)'
  <2>1. list[i] # NULL /\ ~Closed(i)
    BY <1>1 DEF SameTable, Closed
  <2> QED
    BY <2>1, SettledKept DEF SizeInv
<1>2. app'.pc \in {"empty", "fill"} => sock'[app'.fd].unacked = 0 /\ sock'[app'.fd].protocol = app'.protocol
  <2>1. app.pc \in {"empty", "fill"} => app.fd \in Fd
    BY AppFields DEF TypeOK
  <2> QED
    BY <2>1 DEF SizeInv
<1> QED
  BY <1>1, <1>2 DEF SizeInv, SamePhases

\* Only SENT events and the end of a send move bytes between the two sides.
LEMMA NothingMoves ==
  ASSUME NEW i \in Idx
  PROVE  /\ tcpip.pc # "event" => Announced(i) = 0
         /\ tcpip.pc = "event" /\ tcpip.id # "LWIP_EVENT_SENT" => Announced(i) = 0
         /\ app.pc # "sent" => Uncounted(i) = 0
         /\ tcpip'.pc # "event" => Announced(i)' = 0
         /\ tcpip'.pc = "event" /\ tcpip'.id # "LWIP_EVENT_SENT" => Announced(i)' = 0
         /\ app'.pc # "sent" => Uncounted(i)' = 0
         /\ UNCHANGED tcpip => Announced(i)' = Announced(i)
         /\ UNCHANGED app => Uncounted(i)' = Uncounted(i)
  BY DEF Announced, Uncounted

\* Every step leaves each entry settled with lwIP.
LEMMA SizeStep ==
  ASSUME TypeOK, TypeOK', LookupInv, TableInv, TableInv', SizeInv, [Next]_vars
  PROVE  SizeInv'
<1>a. AppOK /\ TcpipOK
  BY DEF TypeOK
<1>b. UNCHANGED list => SameTable
  BY DEF SameTable
<1>c. UNCHANGED sock => SamePhases
  BY DEF SamePhases
<1>d. app.pc \in InCall \cup {"unlist"} => app.idx \in Idx /\ app.fd \in Fd /\ HasFd(app.idx, app.fd) /\ list[app.idx] # NULL
  BY <1>a, AppFields DEF LookupInv, HasFd
<1>e. tcpip.pc \in {"event", "readcb"} => tcpip.idx \in Idx /\ tcpip.fd \in Fd /\ HasFd(tcpip.idx, tcpip.fd) /\ list[tcpip.idx] # NULL
  BY <1>a, TcpipFields DEF LookupInv, HasFd
<1>t. \A i \in Idx : list[i] # NULL => /\ list[i] \in Entries /\ list[i].skt_fd \in Fd
                                       /\ list[i].acked_size \in Int /\ list[i].send_size \in Int
  BY DEF TypeOK, Entries
<1>u. \A fd \in Fd : sock[fd].unacked \in Int
  BY DEF TypeOK, Socks
<1>v. \A i, j \in Idx : list[i] # NULL /\ list[j] # NULL /\ list[i].skt_fd = list[j].skt_fd => i = j
  BY <1>t DEF TableInv, HasFd
<1>w. \A i \in Idx : Announced(i) \in Int /\ Uncounted(i) \in Int
  BY <1>a, TcpipFields, AppFields DEF Announced, Uncounted
\* A step of the application or of lwIP that only writes another field, or nothing.
<1>f. ASSUME SameTable, UNCHANGED <<sock, tcpip>>, app.pc \notin {"sent", "unlist"}, app'.pc \notin {"sent", "empty", "fill"},
             \A i \in Idx : list[i] # NULL => /\ list'[i].acked_size = list[i].acked_size
                                              /\ list'[i].send_size = list[i].send_size
      PROVE  SizeInv'
  <2>1. \A i \in Idx : list[i] # NULL => SameBytes(i)
    BY <1>f, NothingMoves DEF SameBytes
  <2> QED
    BY <1>c, <1>f, <2>1, SizeKept
<1>g. ASSUME SameTable, UNCHANGED <<sock, app>>, tcpip'.pc = "event" => FALSE,
             tcpip.pc = "event" => tcpip.id # "LWIP_EVENT_SENT",
             \A i \in Idx : list[i] # NULL => /\ list'[i].acked_size = list[i].acked_size
                                              /\ list'[i].send_size = list[i].send_size
      PROVE  SizeInv'
  <2>1. \A i \in Idx : list[i] # NULL => SameBytes(i)
    BY <1>g, NothingMoves DEF SameBytes
  <2> QED
    BY <1>c, <1>g, <2>1, SizeKept
<1>1. ASSUME NEW o \in Opens, xy_socket_create(o[1], o[2]) PROVE SizeInv'
  <2>1. o[1] \in Fd /\ sock[o[1]].phase = "free" /\ sock[o[1]].unacked = 0
    BY <1>1, OpensAssumption DEF xy_socket_create, SizeInv
  <2>2. sock' = [sock EXCEPT ![o[1]].protocol = o[2], ![o[1]].phase = "open"] /\ UNCHANGED <<list, tcpip>>
        /\ app.pc = "idle" /\ app' = [pc |-> "empty", fd |-> o[1], protocol |-> o[2]]
    BY <1>1 DEF xy_socket_create, LwipCall
  <2>3. sock'[o[1]].unacked = 0 /\ sock'[o[1]].protocol = o[2] /\ \A fd \in Fd \ {o[1]} : sock'[fd] = sock[fd]
    BY <2>1, <2>2 DEF TypeOK, Socks
  <2>4. \A fd \in Fd : sock'[fd].phase = "free" => sock'[fd].unacked = 0
    BY <2>3 DEF SizeInv
  <2>5. ASSUME NEW i \in Idx, list'[i] # NULL PROVE Settled(i)'
    <3>1. list[i] # NULL /\ list[i].skt_fd \in Fd /\ list[i].skt_fd # o[1] /\ Settled(i)
      BY <1>t, <2>1, <2>2, <2>5 DEF TableInv, HasFd, Moving, SizeInv, Closed
    <3>2. SameBytes(i)
      BY <2>2, <2>3, <3>1, NothingMoves DEF SameBytes
    <3> QED
      BY <1>b, <2>2, <3>1, <3>2, SettledKept
  <2> QED
    BY <2>2, <2>3, <2>4, <2>5 DEF SizeInv
<1>2. ASSUME NEW fd \in Fd, NEW r \in Requests, find_valid_socket_idx_by_fd(r, fd) PROVE SizeInv'
  BY <1>2, <1>b, <1>f DEF find_valid_socket_idx_by_fd, Requests
<1>3. CASE find_empty_socket_idx
  <2>1. app.pc = "empty" /\ app.fd \in Fd /\ UNCHANGED <<list, tcpip>>
    BY <1>3, <1>a, AppFields DEF find_empty_socket_idx
  <2>2. ASSUME NEW i \in Idx, list'[i] # NULL, \A fd \in Fd \ {app.fd} : sock'[fd] = sock[fd], app'.pc # "sent"
        PROVE  Settled(i)'
    <3>1. list[i] # NULL /\ list[i].skt_fd \in Fd /\ list[i].skt_fd # app.fd /\ Settled(i)
      BY <1>t, <2>1, <2>2 DEF TableInv, HasFd, SizeInv, Closed
    <3>2. SameBytes(i)
      BY <2>1, <2>2, <3>1, NothingMoves DEF SameBytes
    <3> QED
      BY <1>b, <2>1, <3>1, <3>2, SettledKept
  <2>3. CASE Empty = {}
    <3>1. sock' = [sock EXCEPT ![app.fd] = FreeSock] /\ app'.pc = "idle"
      BY <1>3, <2>3 DEF find_empty_socket_idx, Idle
    <3>2. sock'[app.fd].unacked = 0 /\ \A fd \in Fd \ {app.fd} : sock'[fd] = sock[fd]
      BY <2>1, <3>1 DEF TypeOK, FreeSock
    <3> QED
      BY <2>2, <3>1, <3>2 DEF SizeInv
  <2>4. CASE Empty # {}
    <3>1. app'.pc = "fill" /\ app'.fd = app.fd /\ app'.protocol = app.protocol /\ UNCHANGED sock
      BY <1>3, <2>4 DEF find_empty_socket_idx
    <3> QED
      BY <2>1, <2>2, <3>1 DEF SizeInv
  <2> QED
    BY <2>3, <2>4
<1>4. CASE FillEntry
  <2> DEFINE e == [skt_fd |-> app.fd, protocol |-> app.protocol, status |-> "CREATED",
                   event_callback |-> NULL, send_size |-> 0, acked_size |-> 0]
  <2>1. app.pc = "fill" /\ app.fd \in Fd /\ app.idx \in Idx /\ list[app.idx] = NULL
    BY <1>4, <1>a, AppFields DEF FillEntry, LookupInv
  <2>2. list' = [list EXCEPT ![app.idx] = e] /\ app'.pc = "idle" /\ UNCHANGED <<sock, tcpip>>
    BY <1>4 DEF FillEntry, Idle
  <2>3. list'[app.idx] = e /\ \A i \in Idx \ {app.idx} : list'[i] = list[i]
    BY <2>1, <2>2 DEF TypeOK
  <2>4. e.skt_fd = app.fd /\ e.protocol = app.protocol /\ e.acked_size = 0 /\ e.send_size = 0
    OBVIOUS
  <2> HIDE DEF e
  <2>5. ASSUME NEW i \in Idx, i = app.idx PROVE Settled(i)'
    <3>1. Announced(i)' = 0 /\ Uncounted(i)' = 0
      <4>1. tcpip.pc = "event" => tcpip.idx # i
        BY <1>e, <2>1, <2>5
      <4> QED
        BY <2>2, <4>1 DEF Announced, Uncounted
    <3>2. sock'[app.fd].unacked = 0 /\ sock'[app.fd].protocol = app.protocol
      BY <2>1, <2>2 DEF SizeInv
    <3> QED
      BY <2>3, <2>4, <2>5, <3>1, <3>2 DEF Settled
  <2>6. ASSUME NEW i \in Idx, i # app.idx, list'[i] # NULL PROVE Settled(i)'
    <3>1. list[i] # NULL /\ list'[i] = list[i] /\ Settled(i)
      BY <2>1, <2>3, <2>6 DEF SizeInv, Closed
    <3>2. Announced(i)' = Announced(i) /\ Uncounted(i)' = Uncounted(i)
      BY <2>1, <2>2, NothingMoves
    <3> QED
      BY <2>2, <3>1, <3>2 DEF Settled
  <2> QED
    BY <2>2, <2>5, <2>6 DEF SizeInv
<1>5. ASSUME NEW cb \in {NULL, "callback"}, xy_socket_event_register(cb) PROVE SizeInv'
  <2>1. app.pc = "register" /\ app.idx \in Idx /\ list[app.idx] # NULL
    BY <1>5, <1>d DEF xy_socket_event_register, InCall, Requests
  <2>2. list' = [list EXCEPT ![app.idx].event_callback = cb] /\ app'.pc = "idle" /\ UNCHANGED <<sock, tcpip>>
    BY <1>5, <2>1 DEF xy_socket_event_register, Using, Idle
  <2>3. \A i \in Idx : list[i] # NULL => list'[i].acked_size = list[i].acked_size /\ list'[i].send_size = list[i].send_size
    BY <1>t, <2>1, <2>2 DEF TypeOK, Entries
  <2>4. SameTable
    BY <2>1, <2>2, FieldWritten
  <2> QED
    BY <1>f, <2>1, <2>2, <2>3, <2>4
<1>6. CASE xy_socket_get
  BY <1>6, <1>b, <1>d, <1>f DEF xy_socket_get, Using, InCall, Requests, Idle
<1>7. ASSUME NEW ret \in {"ok", "EINPROGRESS", "error"}, xy_socket_connect(ret) PROVE SizeInv'
  <2>1. app.pc = "connect" /\ app.fd \in Fd /\ app'.pc = "status" /\ UNCHANGED <<list, tcpip>>
    BY <1>7, <1>d DEF xy_socket_connect, InCall, Requests, LwipCall
  <2>3. SamePhases /\ \A fd \in Fd : sock'[fd].unacked = sock[fd].unacked /\ sock'[fd].protocol = sock[fd].protocol
    BY <1>7, <2>1, ConnectPhases
  <2>4. \A i \in Idx : list[i] # NULL => SameBytes(i)
    BY <1>t, <2>1, <2>3, NothingMoves DEF SameBytes
  <2> QED
    BY <1>b, <2>1, <2>3, <2>4, SizeKept
<1>8. CASE ConnectStatus
  <2>1. app.pc = "status" /\ app.idx \in Idx /\ list[app.idx] # NULL
    BY <1>8, <1>d DEF ConnectStatus, InCall
  <2>2. app'.pc = "idle" /\ UNCHANGED <<sock, tcpip>>
    BY <1>8, <2>1 DEF ConnectStatus, Using, Idle
  <2>3. UNCHANGED list \/ \E st \in {"CONNECTED", "CONNECTING"} : list' = [list EXCEPT ![app.idx].status = st]
    BY <1>8, <2>1 DEF ConnectStatus, Using
  <2>4. \A i \in Idx : list[i] # NULL => list'[i].acked_size = list[i].acked_size /\ list'[i].send_size = list[i].send_size
    <3>1. CASE UNCHANGED list
      BY <3>1
    <3>2. ASSUME NEW st \in {"CONNECTED", "CONNECTING"}, list' = [list EXCEPT ![app.idx].status = st],
                 NEW i \in Idx, list[i] # NULL
          PROVE  list'[i].acked_size = list[i].acked_size /\ list'[i].send_size = list[i].send_size
      BY <1>t, <2>1, <3>2 DEF TypeOK, Entries
    <3> QED
      BY <2>3, <3>1, <3>2
  <2>5. SameTable
    BY <1>b, <2>1, <2>3, FieldWritten
  <2> QED
    BY <1>f, <2>1, <2>2, <2>4, <2>5
<1>9. ASSUME NEW n \in Bytes, NEW ret \in Bytes, xy_socket_send(n, ret) PROVE SizeInv'
  <2> DEFINE pr == sock[app.fd].protocol
             un == sock[app.fd].unacked
             un2 == IF pr = "tcp" THEN un + ret ELSE un
  <2>0. ret \in Int /\ ret >= 0
    BY MaxSentAssumption DEF Bytes
  <2>1. app.pc = "send" /\ app.fd \in Fd /\ app.idx \in Idx /\ list[app.idx] # NULL /\ list[app.idx].skt_fd = app.fd
        /\ UNCHANGED <<list, tcpip>> /\ tcpip.pc = "idle"
    BY <1>9, <1>d DEF xy_socket_send, InCall, Requests, LwipCall, HasFd
  <2>2. sock' = [sock EXCEPT ![app.fd].unacked = un2]
    BY <1>9, <2>1 DEF xy_socket_send, Protocol, TypeOK
  <2>3. un2 \in Int /\ un \in Int
    BY <1>u, <2>0, <2>1
  <2>4. sock'[app.fd].unacked = un2 /\ sock'[app.fd].protocol = pr /\ sock'[app.fd].phase = sock[app.fd].phase
        /\ \A fd \in Fd \ {app.fd} : sock'[fd] = sock[fd]
    BY <2>1, <2>2, <2>3 DEF TypeOK, Socks
  <2>5. /\ ret = 0 => app'.pc = "idle"
        /\ ret # 0 => app'.pc = "sent" /\ app'.idx = app.idx /\ app'.ret = ret
    <3>1. CASE ret = 0
      BY <1>9, <3>1 DEF xy_socket_send, Idle
    <3>2. CASE ret # 0
      BY <1>9, <3>2 DEF xy_socket_send
    <3> QED
      BY <3>1, <3>2
  <2>6. sock[app.fd].phase # "free"
    BY <1>d, <2>1 DEF TableInv, Moving, InCall, Requests
  <2>7. \A fd \in Fd : sock'[fd].phase = "free" => sock'[fd].unacked = 0
    BY <2>4, <2>6 DEF SizeInv
  <2>8. ASSUME NEW i \in Idx, i = app.idx PROVE Settled(i)'
    <3>1. Settled(i) /\ Announced(i) = 0 /\ Announced(i)' = 0 /\ Uncounted(i) = 0
      BY <2>1, <2>8, NothingMoves DEF SizeInv, Closed
    <3>2. Uncounted(i)' = ret
      BY <2>5, <2>8 DEF Uncounted
    <3>3. list[i].protocol = pr /\ list[i].acked_size + 0 + un = IF pr = "tcp" THEN list[i].send_size + 0 ELSE 0
      BY <2>1, <2>8, <3>1 DEF Settled
    <3>4. list[i].acked_size + 0 + un2 = IF pr = "tcp" THEN list[i].send_size + ret ELSE 0
      BY <1>t, <2>0, <2>1, <2>3, <2>8, <3>3
    <3> QED
      BY <2>1, <2>4, <2>8, <3>1, <3>2, <3>3, <3>4 DEF Settled
  <2>9. ASSUME NEW i \in Idx, i # app.idx, list'[i] # NULL PROVE Settled(i)'
    <3>1. list[i] # NULL /\ list[i].skt_fd \in Fd \ {app.fd} /\ Settled(i)
      BY <1>t, <1>v, <2>1, <2>9 DEF SizeInv, Closed
    <3>2. Uncounted(i) = 0 /\ Uncounted(i)' = 0
      BY <2>1, <2>5, <2>9 DEF Uncounted
    <3>3. SameBytes(i)
      BY <2>1, <2>4, <3>1, <3>2, NothingMoves DEF SameBytes
    <3> QED
      BY <1>b, <2>1, <3>1, <3>3, SettledKept
  <2>10. app'.pc \notin {"empty", "fill"}
    BY <2>5
  <2> QED
    BY <2>7, <2>8, <2>9, <2>10 DEF SizeInv
<1>10. CASE SendSize
  <2>1. app.pc = "sent" /\ app.idx \in Idx /\ list[app.idx] # NULL /\ app.ret \in Int
    BY <1>10, <1>a, <1>d, AppFields DEF SendSize, InCall
  <2>2. list' = [list EXCEPT ![app.idx].send_size = @ + app.ret] /\ app'.pc = "idle" /\ UNCHANGED <<sock, tcpip>>
    BY <1>10, <2>1 DEF SendSize, Using, Accounted, Idle
  <2>3. \A i \in Idx \ {app.idx} : list'[i] = list[i]
    BY <2>1, <2>2 DEF TypeOK
  <2>4. list'[app.idx].acked_size = list[app.idx].acked_size /\ list'[app.idx].send_size = list[app.idx].send_size + app.ret
        /\ list'[app.idx].skt_fd = list[app.idx].skt_fd /\ list'[app.idx].protocol = list[app.idx].protocol
    BY <1>t, <2>1, <2>2 DEF TypeOK, Entries
  <2>5. ASSUME NEW i \in Idx, list[i] # NULL PROVE Settled(i)'
    <3>1. Settled(i) /\ Announced(i)' = Announced(i) /\ Uncounted(i)' = 0
      BY <2>1, <2>2, <2>5, NothingMoves DEF SizeInv, Closed
    <3>2. CASE i = app.idx
      <4>1. Uncounted(i) = app.ret
        BY <2>1, <3>2 DEF Uncounted
      <4>2. list[i].send_size + app.ret = (list[i].send_size + app.ret) + 0
        BY <1>t, <2>1, <2>5
      <4> QED
        BY <2>2, <2>4, <3>1, <3>2, <4>1, <4>2 DEF Settled
    <3>3. CASE i # app.idx
      <4>1. Uncounted(i) = 0
        BY <3>3 DEF Uncounted
      <4> QED
        BY <2>2, <2>3, <3>1, <3>3, <4>1 DEF Settled
    <3> QED
      BY <3>2, <3>3
  <2>6. \A i \in Idx : list'[i] # NULL => list[i] # NULL
    BY <2>1, <2>3
  <2> QED
    BY <2>2, <2>5, <2>6 DEF SizeInv
<1>11. ASSUME NEW closed \in BOOLEAN, xy_socket_close(closed) PROVE SizeInv'
  <2>1. app.pc = "close" /\ app.fd \in Fd /\ app \in [pc : Requests, fd : Fd, idx : Idx] /\ list[app.idx].skt_fd = app.fd
        /\ app.idx \in Idx /\ list[app.idx] # NULL /\ UNCHANGED <<list, tcpip>>
    BY <1>11, <1>a, <1>d, AppFields DEF xy_socket_close, LwipCall, Requests, InCall, HasFd
  <2>2. CASE ~closed
    BY <1>11, <1>b, <1>f, <2>1, <2>2 DEF xy_socket_close, Idle
  <2>3. CASE closed
    <3>1. app'.pc = "unlist" /\ app'.idx = app.idx /\ sock' = [sock EXCEPT ![app.fd] = FreeSock]
      BY <1>11, <2>1, <2>3 DEF xy_socket_close
    <3>2. sock'[app.fd].unacked = 0 /\ \A fd \in Fd \ {app.fd} : sock'[fd] = sock[fd]
      BY <2>1, <3>1 DEF TypeOK, FreeSock
    <3>3. ASSUME NEW i \in Idx, list'[i] # NULL, ~Closed(i)' PROVE Settled(i)'
      <4>1. list[i] # NULL /\ list[i].skt_fd \in Fd \ {app.fd} /\ Settled(i)
        BY <1>t, <1>v, <2>1, <3>1, <3>3 DEF SizeInv, Closed
      <4>2. SameBytes(i)
        BY <2>1, <3>1, <3>2, <4>1, NothingMoves DEF SameBytes
      <4> QED
        BY <1>b, <2>1, <4>1, <4>2, SettledKept
    <3> QED
      BY <3>1, <3>2, <3>3 DEF SizeInv
  <2> QED
    BY <2>2, <2>3
<1>12. CASE FreeEntry
  <2>1. app.pc = "unlist" /\ app.idx \in Idx /\ app'.pc = "idle"
        /\ list' = [list EXCEPT ![app.idx] = NULL] /\ UNCHANGED <<sock, tcpip>>
    BY <1>12, <1>d DEF FreeEntry, Using, Idle
  <2>2. list'[app.idx] = NULL /\ \A i \in Idx \ {app.idx} : list'[i] = list[i]
    BY <2>1 DEF TypeOK
  <2>3. ASSUME NEW i \in Idx, list'[i] # NULL PROVE Settled(i)'
    <3>1. i # app.idx /\ list[i] # NULL /\ list'[i] = list[i] /\ Settled(i)
      BY <2>1, <2>2, <2>3 DEF SizeInv, Closed
    <3>2. Announced(i)' = Announced(i) /\ Uncounted(i)' = Uncounted(i)
      BY <2>1, NothingMoves
    <3> QED
      BY <2>1, <3>1, <3>2 DEF Settled
  <2> QED
    BY <2>1, <2>3 DEF SizeInv
<1>13. ASSUME NEW fd \in Fd, NEW id \in EventIds, NEW size \in Bytes,
              xy_async_socket_api_event(fd, id, size)
       PROVE  SizeInv'
  <2>1. UNCHANGED <<list, app>> /\ tcpip.pc = "idle" /\ Raised(fd, id, size) /\ size \in Int
    BY <1>13, MaxSentAssumption DEF xy_async_socket_api_event, Bytes
  <2>2. \/ tcpip' = Idle /\ Valid(fd) = {}
        \/ tcpip'.pc = "event" /\ tcpip'.id = id /\ tcpip'.size = size /\ tcpip'.idx \in Idx /\ HasFd(tcpip'.idx, fd)
    BY <1>13, FirstValid DEF xy_async_socket_api_event
  <2>3. CASE id # "LWIP_EVENT_SENT"
    <3>1. UNCHANGED sock \/ \E p \in Phases \ {"free"} : sock[fd].phase # "free" /\ sock' = [sock EXCEPT ![fd].phase = p]
      <4>1. CASE id \in {"LWIP_EVENT_RECV", "LWIP_EVENT_FIN"}
        BY <2>1, <4>1 DEF Raised
      <4>2. CASE id = "LWIP_EVENT_CONNECTED"
        BY <2>1, <4>2 DEF Raised, Phases
      <4>3. CASE id = "LWIP_EVENT_ERR"
        BY <2>1, <4>3 DEF Raised, Phases
      <4> QED
        BY <2>3, <4>1, <4>2, <4>3 DEF EventIds
    <3>2. SamePhases
      BY <1>c, <3>1, PhaseWritten
    <3>3. \A f \in Fd : sock'[f].unacked = sock[f].unacked /\ sock'[f].protocol = sock[f].protocol
      <4>1. CASE UNCHANGED sock
        BY <4>1
      <4>2. ASSUME NEW p \in Phases, sock' = [sock EXCEPT ![fd].phase = p], NEW f \in Fd
            PROVE  sock'[f].unacked = sock[f].unacked /\ sock'[f].protocol = sock[f].protocol
        BY <4>2 DEF TypeOK, Socks
      <4> QED
        BY <3>1, <4>1, <4>2
    <3>4. \A i \in Idx : Announced(i) = 0 /\ Announced(i)' = 0 /\ Uncounted(i)' = Uncounted(i)
      BY <2>1, <2>2, <2>3 DEF Announced, Uncounted, Idle
    <3>5. \A i \in Idx : list[i] # NULL => SameBytes(i)
      BY <1>t, <2>1, <3>3, <3>4 DEF SameBytes
    <3> QED
      BY <1>b, <2>1, <3>2, <3>3, <3>5, SizeKept
  <2>4. CASE id = "LWIP_EVENT_SENT"
    <3> DEFINE un == sock[fd].unacked
    <3>1. sock[fd].phase = "connected" /\ size \in 1 .. un /\ sock' = [sock EXCEPT ![fd].unacked = un - size]
      BY <2>1, <2>4 DEF Raised, TypeOK
    <3>2. un \in Int /\ un # 0
      BY <1>u, <3>1
    <3>3. sock'[fd].unacked = un - size /\ sock'[fd].protocol = sock[fd].protocol /\ sock'[fd].phase = "connected"
          /\ \A f \in Fd \ {fd} : sock'[f] = sock[f]
      BY <2>1, <3>1, <3>2 DEF TypeOK, Socks
    <3>4. app.pc \in {"empty", "fill"} => app.fd \in Fd \ {fd}
      BY <1>a, <3>2, AppFields DEF SizeInv
    <3>5. ASSUME NEW i \in Idx, list[i] # NULL, list[i].skt_fd = fd, ~Closed(i) PROVE Settled(i)'
      <4>1. Settled(i) /\ Announced(i) = 0 /\ Uncounted(i)' = Uncounted(i)
        BY <2>1, <3>5, NothingMoves DEF SizeInv
      <4>2. tcpip'.pc = "event" /\ tcpip'.id = id /\ tcpip'.size = size /\ tcpip'.idx = i
        BY <1>v, <2>2, <3>5 DEF Valid, HasFd
      <4>3. Announced(i)' = size
        BY <2>4, <4>2 DEF Announced
      <4>4. list[i].acked_size + 0 + un = list[i].acked_size + size + (un - size)
        BY <1>t, <2>1, <3>2, <3>5
      <4> QED
        BY <2>1, <3>3, <3>5, <4>1, <4>3, <4>4 DEF Settled
    <3>6. ASSUME NEW i \in Idx, list[i] # NULL, list[i].skt_fd # fd, ~Closed(i) PROVE Settled(i)'
      <4>1. Settled(i) /\ list[i].skt_fd \in Fd \ {fd}
        BY <1>t, <3>6 DEF SizeInv
      <4>2. Announced(i) = 0 /\ Announced(i)' = 0 /\ Uncounted(i)' = Uncounted(i)
        BY <2>1, <2>2, <3>6 DEF Announced, Uncounted, HasFd, Idle
      <4>3. SameBytes(i)
        BY <2>1, <3>3, <4>1, <4>2 DEF SameBytes
      <4> QED
        BY <1>b, <2>1, <3>6, <4>1, <4>3, SettledKept
    <3>7. \A f \in Fd : sock'[f].phase = "free" => sock'[f].unacked = 0
      BY <3>3 DEF SizeInv
    <3>8. app.pc \in {"empty", "fill"} => sock'[app.fd].unacked = 0 /\ sock'[app.fd].protocol = app.protocol
      BY <3>3, <3>4 DEF SizeInv
    <3>9. \A i \in Idx : Closed(i)' <=> Closed(i)
      BY <2>1 DEF Closed
    <3> QED
      BY <2>1, <3>5, <3>6, <3>7, <3>8, <3>9 DEF SizeInv
  <2> QED
    BY <2>3, <2>4
<1>14. CASE HandleEvent
  <2>1. tcpip.pc = "event" /\ tcpip.id \in EventIds /\ tcpip.size \in Int /\ list[tcpip.idx] # NULL /\ tcpip.idx \in Idx
    BY <1>14, <1>a, <1>e, TcpipFields DEF HandleEvent
  <2>2. UNCHANGED <<sock, app>> /\ tcpip' \in {Idle, [pc |-> "post", fd |-> tcpip.fd]}
    BY <1>14, <2>1 DEF HandleEvent, Using, EventIds
  <2>3. tcpip'.pc = "event" => FALSE
    BY <2>2 DEF Idle
  <2>4. CASE tcpip.id # "LWIP_EVENT_SENT"
    <3>1. UNCHANGED list \/ \E st \in {"CLOSING", "CONNECTED"} : list' = [list EXCEPT ![tcpip.idx].status = st]
      BY <1>14, <2>1, <2>4 DEF HandleEvent, Using, EventIds
    <3>2. \A i \in Idx : list[i] # NULL => list'[i].acked_size = list[i].acked_size /\ list'[i].send_size = list[i].send_size
      <4>1. CASE UNCHANGED list
        BY <4>1
      <4>2. ASSUME NEW st \in {"CLOSING", "CONNECTED"}, list' = [list EXCEPT ![tcpip.idx].status = st],
                   NEW i \in Idx, list[i] # NULL
            PROVE  list'[i].acked_size = list[i].acked_size /\ list'[i].send_size = list[i].send_size
        BY <1>t, <2>1, <4>2 DEF TypeOK, Entries
      <4> QED
        BY <3>1, <4>1, <4>2
    <3>3. SameTable
      BY <1>b, <2>1, <3>1, FieldWritten
    <3> QED
      BY <1>g, <2>2, <2>3, <2>4, <3>2, <3>3
  <2>5. CASE tcpip.id = "LWIP_EVENT_SENT"
    <3>1. list' = [list EXCEPT ![tcpip.idx].acked_size = @ + tcpip.size]
      BY <1>14, <2>1, <2>5 DEF HandleEvent, Using
    <3>2. \A i \in Idx \ {tcpip.idx} : list'[i] = list[i]
      BY <2>1, <3>1 DEF TypeOK
    <3>3. list'[tcpip.idx].acked_size = list[tcpip.idx].acked_size + tcpip.size /\ list'[tcpip.idx].send_size = list[tcpip.idx].send_size
          /\ list'[tcpip.idx].skt_fd = list[tcpip.idx].skt_fd /\ list'[tcpip.idx].protocol = list[tcpip.idx].protocol
      BY <1>t, <2>1, <3>1 DEF TypeOK, Entries
    <3>4. ASSUME NEW i \in Idx, list[i] # NULL, ~Closed(i) PROVE Settled(i)'
      <4>1. Settled(i) /\ Announced(i)' = 0 /\ Uncounted(i)' = Uncounted(i)
        BY <2>2, <2>3, <3>4, NothingMoves DEF SizeInv
      <4>2. CASE i = tcpip.idx
        <5>1. Announced(i) = tcpip.size
          BY <2>1, <2>5, <4>2 DEF Announced
        <5>2. list[i].acked_size + tcpip.size = (list[i].acked_size + tcpip.size) + 0
          BY <1>t, <2>1, <3>4
        <5> QED
          BY <2>2, <3>3, <4>1, <4>2, <5>1, <5>2 DEF Settled
      <4>3. CASE i # tcpip.idx
        <5>1. Announced(i) = 0
          BY <4>3 DEF Announced
        <5> QED
          BY <2>2, <3>2, <4>1, <4>3, <5>1 DEF Settled
      <4> QED
        BY <4>2, <4>3
    <3>5. \A i \in Idx : (list'[i] # NULL => list[i] # NULL) /\ (Closed(i)' <=> Closed(i))
      BY <2>1, <2>2, <3>2 DEF Closed
    <3> QED
      BY <2>2, <3>4, <3>5 DEF SizeInv
  <2> QED
    BY <2>4, <2>5
<1>15. CASE xy_post_event_to_app \/ ReadCallback \/ send_msg_2_skt_thd
  <2>1. UNCHANGED <<list, sock, app>> /\ tcpip.pc # "event"
    BY <1>15, <1>e DEF xy_post_event_to_app, ReadCallback, send_msg_2_skt_thd, Using
  <2>2. tcpip'.pc = "event" => FALSE
    BY <1>15, <1>e DEF xy_post_event_to_app, ReadCallback, send_msg_2_skt_thd, Using, Idle
  <2> QED
    BY <1>b, <1>g, <2>1, <2>2
<1>16. CASE SktThread \/ UNCHANGED vars
  <2>1. UNCHANGED <<list, sock, app, tcpip>>
    BY <1>16 DEF SktThread, skt_proc_thread, FindForCallback, UseForCallback, vars
  <2> QED
    BY <2>1 DEF SizeInv, Settled, Closed, Announced, Uncounted
<1> QED
  BY <1>1, <1>2, <1>3, <1>4, <1>5, <1>6, <1>7, <1>8, <1>9, <1>10, <1>11, <1>12, <1>13, <1>14, <1>15, <1>16
     DEF Next, AppCalls, AppGoesOn, TcpipGoesOn

\* What the application reads from xy_socket_get_sent_size and xy_socket_get_acked_size agrees
\* with lwIP: the difference is what the network has not acknowledged or an event announces.
THEOREM AsyncSizesAddUp == Spec => []SizesAddUp
<1>1. Init => SizeInv
  BY DEF Init, SizeInv, FreeSock, Idle
<1>2. TypeOK /\ TypeOK' /\ LookupInv /\ TableInv /\ TableInv' /\ SizeInv /\ [Next]_vars => SizeInv'
  BY SizeStep
<1>3. SizeInv => SizesAddUp
  BY DEF SizeInv, SizesAddUp, Settled, Closed
<1> QED
  BY <1>1, <1>2, <1>3, TableAlways, PTL DEF Spec

=============================================================================
