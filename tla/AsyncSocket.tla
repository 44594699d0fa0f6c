---------------------------- MODULE AsyncSocket ----------------------------
(***************************************************************************)
(* The asynchronous sockets of xy_async_socket.c: the table of sockets the *)
(* application opened, the events lwIP raises for them, and the task that  *)
(* hands the events to the application's callbacks.                        *)
(*                                                                         *)
(* Three threads run: the application, lwIP's own thread (tcpip) and the   *)
(* thread skt_thd.  Each action is one section under xy_socket_mutux, or   *)
(* one call of lwIP.  Every section but the one of send_msg_2_skt_thd      *)
(* waits for nothing, so the mutex is seen held only there.  A call of     *)
(* lwIP that changes a connection excludes lwIP's event handlers (they run *)
(* under the core lock, or in the one tcpip thread).                       *)
(***************************************************************************)
EXTENDS Integers, Sequences, Functions

CONSTANTS
    Fd,         \* lwIP's socket numbers
    Opens,      \* bound: the numbers and protocols of the sockets that are opened
    MaxSocket,  \* MAX_SOCKET
    QueueLen,   \* the places of skt_thd_msg_q
    MaxSent,    \* bound: bytes sent on the sockets that are open
    NULL        \* no entry, no callback

ASSUME OpensAssumption == Opens \subseteq Fd \X {"tcp", "udp"}
ASSUME MaxSocketAssumption == MaxSocket \in Nat \ {0}
ASSUME QueueLenAssumption == QueueLen \in Nat \ {0}
ASSUME MaxSentAssumption == MaxSent \in Nat

VARIABLES
    list,    \* xy_socket_list
    lock,    \* who holds xy_socket_mutux across a step, or "free"
    msgq,    \* skt_thd_msg_q: the sockets the queued events are for
    sock,    \* lwIP's sockets: the phase of the connection, and the bytes not acknowledged
    app,     \* the application's thread
    tcpip,   \* lwIP's thread
    skt,     \* skt_proc_thread
    fault    \* the thread that used a pointer to nothing, or "none"

vars == <<list, lock, msgq, sock, app, tcpip, skt, fault>>

Idx == 1 .. MaxSocket
Bytes == 0 .. MaxSent

Entries == [skt_fd : Fd, protocol : {"tcp", "udp"},
            status : {"CREATED", "CONNECTING", "CONNECTED", "CLOSING"},
            event_callback : {NULL, "callback"},
            send_size : Int, acked_size : Int]

ASSUME NullAssumption == NULL \notin Entries

Socks == [protocol : {"tcp", "udp"},
          phase : {"free", "open", "connecting", "connected", "reset"},
          unacked : Int]

EventIds == {"LWIP_EVENT_SENT", "LWIP_EVENT_RECV", "LWIP_EVENT_FIN",
             "LWIP_EVENT_CONNECTED", "LWIP_EVENT_ERR"}

Idle == [pc |-> "idle"]
FreeSock == [protocol |-> "tcp", phase |-> "free", unacked |-> 0]

Requests == {"register", "get", "connect", "send", "close"}

\* What each thread remembers at the places where it waits for a section or for lwIP.
AppOK ==
    \/ app = Idle
    \/ app \in [pc : {"empty"}, fd : Fd, protocol : {"tcp", "udp"}]
    \/ app \in [pc : {"fill"}, fd : Fd, protocol : {"tcp", "udp"}, idx : Idx]
    \/ app \in [pc : Requests \cup {"unlist"}, fd : Fd, idx : Idx]
    \/ app \in [pc : {"status"}, fd : Fd, idx : Idx, ret : {"ok", "EINPROGRESS", "error"}]
    \/ app \in [pc : {"sent"}, fd : Fd, idx : Idx, ret : Int, data_len : Int]

TcpipOK ==
    \/ tcpip = Idle
    \/ tcpip \in [pc : {"event"}, id : EventIds, fd : Fd, idx : Idx, size : Int]
    \/ tcpip \in [pc : {"readcb"}, fd : Fd, idx : Idx]
    \/ tcpip \in [pc : {"post", "put"}, fd : Fd]

SktOK ==
    \/ skt = Idle
    \/ skt \in [pc : {"find"}, fd : Fd]
    \/ skt \in [pc : {"use"}, fd : Fd, idx : Idx]

TypeOK ==
    /\ list \in [Idx -> Entries \cup {NULL}]
    /\ lock \in {"free", "tcpip"}
    /\ msgq \in Seq(Fd) /\ Len(msgq) <= QueueLen
    /\ sock \in [Fd -> Socks]
    /\ AppOK
    /\ TcpipOK
    /\ SktOK
    /\ fault \in {"none", "app", "tcpip", "skt"}

Init ==
    /\ list = [i \in Idx |-> NULL]
    /\ lock = "free"
    /\ msgq = << >>
    /\ sock = [f \in Fd |-> FreeSock]
    /\ app = Idle
    /\ tcpip = Idle
    /\ skt = Idle
    /\ fault = "none"

-----------------------------------------------------------------------------
First(S) == CHOOSE i \in S : \A j \in S : i <= j

Empty == {i \in Idx : list[i] = NULL}

HasFd(i, fd) == list[i] # NULL /\ list[i].skt_fd = fd

Valid(fd) == {i \in Idx : HasFd(i, fd)}

\* The mutex is free, and it is free again when the section ends.
Section == fault = "none" /\ lock = "free" /\ UNCHANGED lock

\* A call of lwIP: none of its handlers is running.
LwipCall == fault = "none" /\ tcpip.pc = "idle" /\ UNCHANGED tcpip

\* Thread t uses entry i of the table: a hard fault when there is none.
Using(t, i, Use) ==
    IF list[i] = NULL
    THEN fault' = t /\ UNCHANGED <<list, msgq, sock, app, tcpip, skt>>
    ELSE Use /\ UNCHANGED fault

-----------------------------------------------------------------------------
(***************************************************************************)
(* The application: xy_socket_create.                                      *)
(***************************************************************************)
xy_socket_create(fd, protocol) ==
    /\ app.pc = "idle"
    /\ LwipCall
    /\ sock[fd].phase = "free"
    /\ sock' = [sock EXCEPT ![fd].protocol = protocol, ![fd].phase = "open"]
    /\ app' = [pc |-> "empty", fd |-> fd, protocol |-> protocol]
    /\ UNCHANGED <<list, lock, msgq, skt, fault>>

find_empty_socket_idx ==
    /\ app.pc = "empty"
    /\ Section
    /\ IF Empty = {}
       THEN /\ sock' = [sock EXCEPT ![app.fd] = FreeSock]
            /\ app' = Idle
       ELSE /\ app' = [pc |-> "fill", fd |-> app.fd, protocol |-> app.protocol, idx |-> First(Empty)]
            /\ UNCHANGED sock
    /\ UNCHANGED <<list, msgq, tcpip, skt, fault>>

FillEntry ==
    /\ app.pc = "fill"
    /\ Section
    /\ list' = [list EXCEPT ![app.idx] =
         [skt_fd |-> app.fd, protocol |-> app.protocol, status |-> "CREATED",
          event_callback |-> NULL, send_size |-> 0, acked_size |-> 0]]
    /\ app' = Idle
    /\ UNCHANGED <<msgq, sock, tcpip, skt, fault>>

(***************************************************************************)
(* Every other call starts with find_valid_socket_idx_by_fd; one for a     *)
(* socket that is not in the table returns SOCK_ERROR and changes nothing, *)
(* nor do xy_socket_recv and xy_socket_recvfrom, which then only ask lwIP. *)
(***************************************************************************)
find_valid_socket_idx_by_fd(request, fd) ==
    /\ app.pc = "idle"
    /\ Section
    /\ Valid(fd) # {}
    /\ app' = [pc |-> request, fd |-> fd, idx |-> First(Valid(fd))]
    /\ UNCHANGED <<list, msgq, sock, tcpip, skt, fault>>

xy_socket_event_register(pcallback) ==
    /\ app.pc = "register"
    /\ Section
    /\ Using("app", app.idx,
         /\ list' = [list EXCEPT ![app.idx].event_callback = pcallback]
         /\ app' = Idle
         /\ UNCHANGED <<msgq, sock, tcpip, skt>>)

\* xy_socket_bind and the three xy_socket_get calls read the entry.
xy_socket_get ==
    /\ app.pc = "get"
    /\ Section
    /\ Using("app", app.idx, app' = Idle /\ UNCHANGED <<list, msgq, sock, tcpip, skt>>)

\* connect() of a non-blocking socket: TCP goes on after the call returned.
Protocol == sock[app.fd].protocol

xy_socket_connect(ret) ==
    /\ app.pc = "connect"
    /\ LwipCall
    /\ CASE ret = "ok" -> Protocol = "udp" /\ sock[app.fd].phase \in {"open", "connected"}
         [] ret = "EINPROGRESS" -> Protocol = "tcp" /\ sock[app.fd].phase = "open"
         [] ret = "error" -> TRUE
    /\ sock' = [sock EXCEPT ![app.fd].phase =
                  CASE ret = "ok" -> "connected"
                    [] ret = "EINPROGRESS" -> "connecting"
                    [] ret = "error" -> @]
    /\ app' = [pc |-> "status", fd |-> app.fd, idx |-> app.idx, ret |-> ret]
    /\ UNCHANGED <<list, lock, msgq, skt, fault>>

ConnectStatus ==
    /\ app.pc = "status"
    /\ Section
    /\ IF app.ret = "error"
       THEN app' = Idle /\ UNCHANGED <<list, msgq, sock, tcpip, skt, fault>>
       ELSE Using("app", app.idx,
              /\ list' = [list EXCEPT ![app.idx].status =
                             IF app.ret = "ok" THEN "CONNECTED" ELSE "CONNECTING"]
              /\ app' = Idle
              /\ UNCHANGED <<msgq, sock, tcpip, skt>>)

SentInAll == SumFunction([i \in Idx |-> IF list[i] = NULL THEN 0 ELSE list[i].send_size])

(***************************************************************************)
(* xy_socket_send and xy_socket_sendto: lwIP takes ret of data_len bytes,  *)
(* or refuses the call (ret = 0 stands for 0 and for -1).                  *)
(***************************************************************************)
xy_socket_send(data_len, ret) ==
    /\ app.pc = "send"
    /\ LwipCall
    /\ ret <= data_len
    /\ SentInAll + data_len <= MaxSent
    /\ ret > 0 => \/ Protocol = "tcp" /\ sock[app.fd].phase = "connected"
                  \/ Protocol = "udp"
    /\ sock' = [sock EXCEPT ![app.fd].unacked = IF Protocol = "tcp" THEN @ + ret ELSE @]
    /\ app' = IF ret = 0 THEN Idle
              ELSE [pc |-> "sent", fd |-> app.fd, idx |-> app.idx,
                    ret |-> ret, data_len |-> data_len]
    /\ UNCHANGED <<list, lock, msgq, skt, fault>>

AccountAsked == app.data_len
Accounted == app.ret

SendSize ==
    /\ app.pc = "sent"
    /\ Section
    /\ Using("app", app.idx,
         /\ list' = [list EXCEPT ![app.idx].send_size = @ + Accounted]
         /\ app' = Idle
         /\ UNCHANGED <<msgq, sock, tcpip, skt>>)

\* close() may fail, and leaves the socket as it was; the entry is freed only after it succeeded.
CloseFreedFirst(closed) ==
    /\ app.pc = "close"
    /\ Section
    /\ list' = [list EXCEPT ![app.idx] = NULL]
    /\ sock' = IF closed THEN [sock EXCEPT ![app.fd] = FreeSock] ELSE sock
    /\ app' = Idle
    /\ UNCHANGED <<msgq, tcpip, skt, fault>>

CloseUnchecked(closed) ==
    /\ app.pc = "close"
    /\ LwipCall
    /\ sock' = IF closed THEN [sock EXCEPT ![app.fd] = FreeSock] ELSE sock
    /\ app' = [app EXCEPT !.pc = "unlist"]
    /\ UNCHANGED <<list, lock, msgq, skt, fault>>

xy_socket_close(closed) ==
    /\ app.pc = "close"
    /\ LwipCall
    /\ sock' = IF closed THEN [sock EXCEPT ![app.fd] = FreeSock] ELSE sock
    /\ app' = IF closed THEN [app EXCEPT !.pc = "unlist"] ELSE Idle
    /\ UNCHANGED <<list, lock, msgq, skt, fault>>

FreeEntry ==
    /\ app.pc = "unlist"
    /\ Section
    /\ Using("app", app.idx,
         /\ list' = [list EXCEPT ![app.idx] = NULL]
         /\ app' = Idle
         /\ UNCHANGED <<msgq, sock, tcpip, skt>>)

-----------------------------------------------------------------------------
(***************************************************************************)
(* lwIP's thread.  What it does to its own connection, then                *)
(* xy_async_socket_api_event.                                              *)
(***************************************************************************)
IsTcp(fd) == sock[fd].protocol = "tcp"

\* Data comes in on a connected TCP socket, and on any UDP socket.
Raised(fd, id, size) ==
    CASE id = "LWIP_EVENT_CONNECTED" ->
           sock[fd].phase = "connecting" /\ sock' = [sock EXCEPT ![fd].phase = "connected"]
      [] id = "LWIP_EVENT_SENT" ->
           /\ sock[fd].phase = "connected" /\ size \in 1 .. sock[fd].unacked
           /\ sock' = [sock EXCEPT ![fd].unacked = @ - size]
      [] id = "LWIP_EVENT_RECV" ->
           /\ sock[fd].phase \in IF IsTcp(fd) THEN {"connected"} ELSE {"open", "connected"}
           /\ UNCHANGED sock
      [] id = "LWIP_EVENT_FIN" -> sock[fd].phase = "connected" /\ IsTcp(fd) /\ UNCHANGED sock
      [] id = "LWIP_EVENT_ERR" ->
           /\ sock[fd].phase \in {"connecting", "connected"} /\ IsTcp(fd)
           /\ sock' = [sock EXCEPT ![fd].phase = "reset"]

\* An event for a socket that is not in the table goes no further.
xy_async_socket_api_event(fd, id, size) ==
    /\ tcpip.pc = "idle"
    /\ Section
    /\ id # "LWIP_EVENT_SENT" => size = 0
    /\ Raised(fd, id, size)
    /\ tcpip' = IF Valid(fd) = {} THEN Idle
                ELSE [pc |-> "event", id |-> id, fd |-> fd, idx |-> First(Valid(fd)), size |-> size]
    /\ UNCHANGED <<list, msgq, app, skt, fault>>

\* RECV posts only when FIONREAD still finds bytes, which the application may have read by now.
HandleEvent ==
    /\ tcpip.pc = "event"
    /\ Section
    /\ CASE tcpip.id = "LWIP_EVENT_SENT" ->
              Using("tcpip", tcpip.idx,
                /\ list' = [list EXCEPT ![tcpip.idx].acked_size = @ + tcpip.size]
                /\ tcpip' = [pc |-> "post", fd |-> tcpip.fd]
                /\ UNCHANGED <<msgq, sock, app, skt>>)
         [] tcpip.id \in {"LWIP_EVENT_FIN", "LWIP_EVENT_CONNECTED"} ->
              Using("tcpip", tcpip.idx,
                /\ list' = [list EXCEPT ![tcpip.idx].status =
                               IF tcpip.id = "LWIP_EVENT_FIN" THEN "CLOSING" ELSE "CONNECTED"]
                /\ tcpip' = [pc |-> "post", fd |-> tcpip.fd]
                /\ UNCHANGED <<msgq, sock, app, skt>>)
         [] tcpip.id = "LWIP_EVENT_RECV" ->
              /\ tcpip' \in {[pc |-> "post", fd |-> tcpip.fd], Idle}
              /\ UNCHANGED <<list, msgq, sock, app, skt, fault>>
         [] tcpip.id = "LWIP_EVENT_ERR" ->
              /\ tcpip' = [pc |-> "post", fd |-> tcpip.fd]
              /\ UNCHANGED <<list, msgq, sock, app, skt, fault>>

\* xy_post_event_to_app looks the socket up again, and then reads its callback.
xy_post_event_to_app ==
    /\ tcpip.pc = "post"
    /\ Section
    /\ tcpip' = IF Valid(tcpip.fd) = {} THEN Idle
                ELSE [pc |-> "readcb", fd |-> tcpip.fd, idx |-> First(Valid(tcpip.fd))]
    /\ UNCHANGED <<list, msgq, sock, app, skt, fault>>

\* With a callback it goes on to send_msg_2_skt_thd, which takes the mutex again and waits
\* for a place in the queue with it held.
ReadCallback ==
    /\ tcpip.pc = "readcb"
    /\ fault = "none"
    /\ lock = "free"
    /\ Using("tcpip", tcpip.idx,
         IF list[tcpip.idx].event_callback = NULL
         THEN tcpip' = Idle /\ UNCHANGED <<list, msgq, sock, app, skt>>
         ELSE tcpip' = [pc |-> "put", fd |-> tcpip.fd] /\ UNCHANGED <<list, msgq, sock, app, skt>>)
    /\ lock' = IF tcpip'.pc = "put" THEN "tcpip" ELSE "free"

LockKept == lock
LockReleased == "free"

RoomOffByOne == Len(msgq) <= QueueLen
Room == Len(msgq) < QueueLen

send_msg_2_skt_thd ==
    /\ tcpip.pc = "put"
    /\ fault = "none"
    /\ Room
    /\ msgq' = Append(msgq, tcpip.fd)
    /\ lock' = LockReleased
    /\ tcpip' = Idle
    /\ UNCHANGED <<list, sock, app, skt, fault>>

-----------------------------------------------------------------------------
(***************************************************************************)
(* skt_proc_thread.  The application's callback is external: it does not   *)
(* change the table.                                                       *)
(***************************************************************************)
skt_proc_thread ==
    /\ skt.pc = "idle"
    /\ fault = "none"
    /\ msgq # << >>
    /\ skt' = [pc |-> "find", fd |-> Head(msgq)]
    /\ msgq' = Tail(msgq)
    /\ UNCHANGED <<list, lock, sock, app, tcpip, fault>>

FindForCallback ==
    /\ skt.pc = "find"
    /\ Section
    /\ skt' = IF Valid(skt.fd) = {} THEN Idle
              ELSE [pc |-> "use", fd |-> skt.fd, idx |-> First(Valid(skt.fd))]
    /\ UNCHANGED <<list, msgq, sock, app, tcpip, fault>>

\* cb_func is called without a test: a callback that is not there is a fault too.
UseForCallback ==
    /\ skt.pc = "use"
    /\ Section
    /\ IF list[skt.idx] = NULL \/ list[skt.idx].event_callback = NULL
       THEN fault' = "skt" /\ UNCHANGED skt
       ELSE skt' = Idle /\ UNCHANGED fault
    /\ UNCHANGED <<list, msgq, sock, app, tcpip>>

-----------------------------------------------------------------------------
AppCalls ==
    \/ \E o \in Opens : xy_socket_create(o[1], o[2])
    \/ \E fd \in Fd, r \in Requests : find_valid_socket_idx_by_fd(r, fd)

\* What an application that is inside a call does next.
AppGoesOn ==
    \/ find_empty_socket_idx
    \/ FillEntry
    \/ \E cb \in {NULL, "callback"} : xy_socket_event_register(cb)
    \/ xy_socket_get
    \/ \E ret \in {"ok", "EINPROGRESS", "error"} : xy_socket_connect(ret)
    \/ ConnectStatus
    \/ \E n, ret \in Bytes : xy_socket_send(n, ret)
    \/ SendSize
    \/ \E closed \in BOOLEAN : xy_socket_close(closed)
    \/ FreeEntry

\* What lwIP's thread does of itself once an event was raised.
TcpipGoesOn ==
    \/ HandleEvent
    \/ xy_post_event_to_app
    \/ ReadCallback
    \/ send_msg_2_skt_thd

SktThread ==
    \/ skt_proc_thread
    \/ FindForCallback
    \/ UseForCallback

Next ==
    \/ AppCalls
    \/ AppGoesOn
    \/ \E fd \in Fd, id \in EventIds, size \in Bytes : xy_async_socket_api_event(fd, id, size)
    \/ TcpipGoesOn
    \/ SktThread

\* A thread that can run for ever goes on; one that waits for the mutex or for lwIP gets it
\* when it is released again and again.  The application need not call anything, the
\* network need not answer.
Fairness == SF_vars(AppGoesOn) /\ SF_vars(TcpipGoesOn) /\ SF_vars(SktThread)

Spec == Init /\ [][Next]_vars /\ Fairness

-----------------------------------------------------------------------------
\* When no call is under way, every socket lwIP has open for the application has exactly
\* one entry, and every entry is of an open socket: no failure of socket(), close() or of
\* the search for a place leaves one without the other.
TableMatchesSockets ==
    /\ app.pc = "idle" => \A fd \in Fd : (sock[fd].phase # "free") <=> (Valid(fd) # {})
    /\ \A i, j \in Idx : list[i] # NULL /\ HasFd(j, list[i].skt_fd) => i = j

\* lwIP's handler and the application look an entry up in one section and use it in a
\* later one: they always find it there, because close() waits for the handler before
\* xy_socket_close frees the entry.  Only skt_thd can be caught without one.
OnlySktThreadFaults == fault \in {"none", "skt"}

Announced(i) == IF tcpip.pc = "event" /\ tcpip.id = "LWIP_EVENT_SENT" /\ tcpip.idx = i
                THEN tcpip.size ELSE 0
Uncounted(i) == IF app.pc = "sent" /\ app.idx = i THEN app.ret ELSE 0

\* xy_socket_get_sent_size and xy_socket_get_acked_size never disagree with lwIP: what was
\* sent is acknowledged, announced by an event under way, or still with the network.
SizesAddUp ==
    \A i \in Idx : list[i] # NULL /\ app.pc # "unlist" =>
        LET e == list[i]
        IN  e.acked_size + Announced(i) + sock[e.skt_fd].unacked
              = IF e.protocol = "tcp" THEN e.send_size + Uncounted(i) ELSE 0

\* lwIP's thread holds the mutex and waits for a place in the queue, and the thread that
\* would make one waits for the mutex.
Wedged == tcpip.pc = "put" /\ Len(msgq) = QueueLen /\ skt.pc \in {"find", "use"}

\* Every call of the application returns, unless skt_thd faulted or its queue was full
\* when an event came: nothing else can stop the three threads.
CallsReturn == (app.pc # "idle") ~> (app.pc = "idle" \/ Wedged \/ fault # "none")

=============================================================================
