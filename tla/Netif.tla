------------------------------- MODULE Netif -------------------------------
(***************************************************************************)
(* The network interface of the device and the tasks around it: the proxy  *)
(* task of xy_proxy.c that brings the interface up and down, the table of  *)
(* ps_netif_api.c, the callbacks of netif_mgmt.c, the thread that receives *)
(* downlink packets, and the ping tool, which registers callbacks and      *)
(* takes the packets over while it runs.                                   *)
(*                                                                         *)
(* A section under a mutex that waits for nothing is one step.  Three      *)
(* mutexes are seen held: g_netif_mgmt_mutex while the callbacks run (the  *)
(* proxy is at "walk"), and xy_proxy_mutex and g_cloud_resume_mutex while  *)
(* their holder waits for a place in the proxy's queue.                    *)
(***************************************************************************)
EXTENDS Integers, Sequences, FiniteSets, SequencesExt

CONSTANTS
    Cids,        \* the contexts the protocol stack activates
    CidMax,      \* PS_PDP_CID_MAX
    ProxyLen,    \* the places of xy_proxy_msg_q
    PingLen,     \* the places of ping_packet_q
    PingNums,    \* bound: the values of ping_num
    Flagged,     \* bound: whether the CDP session was saved to be resumed
    NULL

\* The protocol stack has no more contexts than the table has places.
ASSUME CidAssumption == Cids \subseteq Nat /\ IsFiniteSet(Cids) /\ Cardinality(Cids) <= CidMax
ASSUME NullAssumption == NULL \notin Nat \cup {"new", "up", "down"}
ASSUME CidMaxAssumption == CidMax \in Nat \ {0}
ASSUME LenAssumption == ProxyLen \in Nat \ {0} /\ PingLen \in Nat \ {0}
ASSUME PingNumAssumption == PingNums \subseteq Nat
ASSUME FlaggedAssumption == Flagged \subseteq BOOLEAN

VARIABLES
    pdp,      \* the contexts the protocol stack has announced as active
    ps,       \* what the protocol stack's thread is sending to the proxy
    proxyq,   \* xy_proxy_msg_q
    pm, cm,   \* who holds xy_proxy_mutex and g_cloud_resume_mutex across a step
    cdp,      \* the CDP session is to be resumed, and its lifetime is over
    proxy,    \* xy_proxy_ctl
    ps_if,    \* the table of interfaces
    dflt,     \* netif_default, as a place of the table
    missed,   \* history: a deactivation has met a vacant entry instead of its own
    list,     \* netif_mgmt_event_callback_list
    alive,    \* ping's callbacks that are allocated
    rx,       \* the thread that calls send_packet_to_user
    packets,  \* ping_packet_q: the number of its packets, or NULL
    now_in_ping, g_ping_stop, g_OOS_flag, out_OOS_sem,
    ping,     \* the ping task; at_ping_thread_id is NULL at "none"
    fault     \* what went wrong, or "none"

ifvars == <<pdp, ps, proxyq, pm, cm, cdp, ps_if, dflt, missed>>
pingvars == <<packets, now_in_ping, g_ping_stop, g_OOS_flag, out_OOS_sem>>
vars == <<ifvars, pingvars, proxy, list, alive, rx, ping, fault>>

Ifs == 1 .. CidMax
Msgs == [id : {"PDP_ACT", "PDP_DEACT"}, cid : Cids] \cup {[id |-> "AT"], [id |-> "CDP"]}
Idle == [pc |-> "idle"]
PingCallbacks == {"ping_up", "ping_down"}
Callbacks == {"dm_up", "dm_down"} \cup PingCallbacks

\* An entry of ps_if: the context, and the netif with its flags.  A vacant one has context 0,
\* which is a context like the others.
Entries == [cid : Cids \cup {0}, ps_eth : {NULL, "new", "up", "down"}]
NoEntry == [cid |-> 0, ps_eth |-> NULL]

PingPcs == {"none", "start", "add_down", "parse", "init", "ready", "loop", "oos", "sem", "send",
            "recv", "next", "del_up", "del_down", "drain", "end"}

ProxyOK ==
    \/ proxy \in [pc : {"idle", "at", "lock", "put"}]
    \/ proxy \in [pc : {"act", "down", "deact"}, i : Ifs]
    \/ proxy \in [pc : {"walk"}, i : Ifs, event : {"UP", "DOWN"}, cur : Callbacks]

RxOK ==
    \/ rx \in [pc : {"idle", "toping", "putping", "stale"}]
    \/ rx \in [pc : {"resume", "lock", "put", "input"}, i : Ifs]

FlagsOK == {cdp, missed, now_in_ping, g_ping_stop, g_OOS_flag} \subseteq BOOLEAN

TypeOK ==
    /\ pdp \subseteq Cids
    /\ ps = Idle \/ ps \in [pc : {"send"}, msg : Msgs]
    /\ proxyq \in Seq(Msgs) /\ Len(proxyq) <= ProxyLen
    /\ pm \in {"free", "ps", "rx", "proxy"} /\ cm \in {"free", "rx", "proxy"}
    /\ ProxyOK
    /\ ps_if \in [Ifs -> Entries]
    /\ dflt \in Ifs \cup {NULL}
    /\ list \in Seq(Callbacks)
    /\ alive \subseteq PingCallbacks
    /\ RxOK
    /\ packets \in (0 .. PingLen) \cup {NULL}
    /\ FlagsOK
    /\ out_OOS_sem \in 0 .. 1
    /\ ping \in [pc : PingPcs, num : Nat]
    /\ fault \in {"none", "callback", "assert", "netif", "queue", "null"}

Init ==
    /\ pdp = {}
    /\ ps = Idle
    /\ proxyq = << >>
    /\ pm = "free" /\ cm = "free"
    /\ cdp \in Flagged
    /\ proxy = Idle
    /\ ps_if = [i \in Ifs |-> NoEntry]
    /\ dflt = NULL
    /\ missed = FALSE
    /\ list \in {<< >>, <<"dm_up", "dm_down">>}
    /\ alive = {}
    /\ rx = Idle
    /\ packets = NULL
    /\ now_in_ping = FALSE /\ g_ping_stop = FALSE /\ g_OOS_flag = FALSE
    /\ out_OOS_sem = 0
    /\ ping = [pc |-> "none", num |-> 0]
    /\ fault = "none"

Runs == fault = "none"
Fail(what) == fault' = what
Fine == fault' = "none"

First(S) == CHOOSE i \in S : \A j \in S : i <= j

-----------------------------------------------------------------------------
(***************************************************************************)
(* send_msg_2_proxy: the mutex, then a place in the queue.                 *)
(***************************************************************************)
TakeProxyMutex(who) == pm = "free" /\ pm' = who

RoomOffByOne == Len(proxyq) <= ProxyLen
Room == Len(proxyq) < ProxyLen

send_msg_2_proxy(who, msg) ==
    /\ pm = who
    /\ Room
    /\ proxyq' = Append(proxyq, msg)
    /\ pm' = "free"

\* The protocol stack announces a context, or its end; AT requests come the same way, those
\* that may resume a session as long as there is one.
PsEvent(msg) ==
    /\ Runs
    /\ ps = Idle
    /\ CASE msg.id = "PDP_ACT" -> msg.cid \notin pdp /\ pdp' = pdp \cup {msg.cid}
         [] msg.id = "PDP_DEACT" -> msg.cid \in pdp /\ pdp' = pdp \ {msg.cid}
         [] msg.id = "AT" -> cdp /\ UNCHANGED pdp
         [] msg.id = "CDP" -> FALSE
    /\ TakeProxyMutex("ps")
    /\ ps' = [pc |-> "send", msg |-> msg]
    /\ UNCHANGED <<proxyq, cm, cdp, ps_if, dflt, missed, pingvars, proxy, list, alive, rx, ping, fault>>

PsSend ==
    /\ Runs
    /\ ps.pc = "send"
    /\ send_msg_2_proxy("ps", ps.msg)
    /\ ps' = Idle
    /\ UNCHANGED <<pdp, cm, cdp, ps_if, dflt, missed, pingvars, proxy, list, alive, rx, ping, fault>>

-----------------------------------------------------------------------------
(***************************************************************************)
(* The table of interfaces.                                                *)
(***************************************************************************)
Holding(cid) == {i \in Ifs : ps_if[i].cid = cid}
Vacant == {i \in Ifs : ps_if[i].ps_eth = NULL}

\* The first entry with the context, be it vacant or not.
find_netif_by_cid(cid) == First(Holding(cid))
FoundVacant(cid) == Holding(cid) # {} /\ ps_if[find_netif_by_cid(cid)].ps_eth = NULL

Inserts(cid) ==
    /\ \A i \in Ifs : ~(ps_if[i].cid = cid /\ ps_if[i].ps_eth # NULL)
    /\ Vacant # {}

\* ps_netif_activate: insert_one_netif with its two assertions.
insert_one_netif(cid) ==
    IF Inserts(cid)
    THEN /\ ps_if' = [ps_if EXCEPT ![First(Vacant)] = [cid |-> cid, ps_eth |-> "new"]]
         /\ proxy' = [pc |-> "act", i |-> First(Vacant)]
         /\ Fine
    ELSE Fail("assert") /\ UNCHANGED <<ps_if, proxy>>

EntryKept(entry) == [entry EXCEPT !.cid = 0]
EntryCleared(entry) == NoEntry

\* ps_netif_deactivate as far as the search, with its assertion.  netif_remove returns when it
\* is given no netif, and del_one_netif reads through the NULL of a vacant entry: that may stop
\* the device, and may find nothing to free.
Deactivate(cid) ==
    /\ UNCHANGED ps_if
    /\ IF Holding(cid) = {} THEN Fail("assert") /\ UNCHANGED <<proxy, missed>>
       ELSE \/ FoundVacant(cid) /\ fault' \in {"none", "null"} /\ missed' = TRUE /\ UNCHANGED proxy
            \/ /\ ~FoundVacant(cid)
               /\ proxy' = [pc |-> "down", i |-> find_netif_by_cid(cid)]
               /\ Fine
               /\ UNCHANGED missed

-----------------------------------------------------------------------------
(***************************************************************************)
(* xy_proxy_ctl.                                                           *)
(***************************************************************************)
xy_proxy_ctl ==
    /\ Runs
    /\ proxy.pc = "idle"
    /\ proxyq # << >>
    /\ proxyq' = Tail(proxyq)
    /\ LET msg == Head(proxyq)
       IN  CASE msg.id = "PDP_ACT" -> insert_one_netif(msg.cid) /\ UNCHANGED missed
             [] msg.id = "PDP_DEACT" -> Deactivate(msg.cid)
             [] msg.id = "AT" -> proxy' \in {Idle, [pc |-> "at"]} /\ UNCHANGED <<ps_if, missed, fault>>
             [] msg.id = "CDP" -> UNCHANGED <<proxy, ps_if, missed, fault>>
    /\ UNCHANGED <<pdp, ps, pm, cm, cdp, dflt, pingvars, list, alive, rx, ping>>

\* Where the walk over the callbacks starts and ends.
Walk(i, event) ==
    IF list # << >> THEN [pc |-> "walk", i |-> i, event |-> event, cur |-> Head(list)]
    ELSE IF event = "UP" THEN Idle ELSE [pc |-> "deact", i |-> i]

\* netif_add, netif_set_default, netif_set_link_up and netif_set_up, which calls
\* netif_mgmt_status_callback_proc.
ps_netif_activate ==
    /\ Runs
    /\ proxy.pc = "act"
    /\ ps_if' = [ps_if EXCEPT ![proxy.i].ps_eth = "up"]
    /\ dflt' = proxy.i
    /\ proxy' = Walk(proxy.i, "UP")
    /\ UNCHANGED <<pdp, ps, proxyq, pm, cm, cdp, missed, pingvars, list, alive, rx, ping, fault>>

\* netif_remove: netif_set_down, which calls the callbacks, ...
NetifDown ==
    /\ Runs
    /\ proxy.pc = "down"
    /\ ps_if' = [ps_if EXCEPT ![proxy.i].ps_eth = "down"]
    /\ proxy' = Walk(proxy.i, "DOWN")
    /\ UNCHANGED <<pdp, ps, proxyq, pm, cm, cdp, dflt, missed, pingvars, list, alive, rx, ping, fault>>

\* ... and then the end of it and del_one_netif.
ps_netif_deactivate ==
    /\ Runs
    /\ proxy.pc = "deact"
    /\ ps_if' = [ps_if EXCEPT ![proxy.i] = EntryCleared(@)]
    /\ dflt' = IF dflt = proxy.i THEN NULL ELSE dflt
    /\ proxy' = Idle
    /\ UNCHANGED <<pdp, ps, proxyq, pm, cm, cdp, missed, pingvars, list, alive, rx, ping, fault>>

\* ping_netif_event_callback; DM's own callback is an action of module Dm.
Called(callback, event) ==
    /\ g_ping_stop' = CASE callback = "ping_up" /\ event = "UP" -> FALSE
                        [] callback = "ping_down" /\ event = "DOWN" -> TRUE
                        [] OTHER -> g_ping_stop
    /\ out_OOS_sem' = IF callback = "ping_down" /\ event = "DOWN" THEN 1 ELSE out_OOS_sem
    /\ UNCHANGED <<packets, now_in_ping, g_OOS_flag>>

\* One turn of the walk: the node must still be listed, its callback still allocated.
netif_mgmt_status_callback_proc ==
    /\ Runs
    /\ proxy.pc = "walk"
    /\ IF proxy.cur \notin Range(list) \/ proxy.cur \in PingCallbacks \ alive
       THEN Fail("callback") /\ UNCHANGED <<proxy, pingvars>>
       ELSE /\ Called(proxy.cur, proxy.event)
            /\ Fine
            /\ LET at == CHOOSE k \in 1 .. Len(list) : list[k] = proxy.cur
               IN  proxy' = IF at < Len(list) THEN [proxy EXCEPT !.cur = list[at + 1]]
                            ELSE IF proxy.event = "UP" THEN Idle
                            ELSE [pc |-> "deact", i |-> proxy.i]
    /\ UNCHANGED <<ifvars, list, alive, rx, ping>>

\* An AT request that resumes the CDP session calls resume_net_app (external); others end at once.
AtRequest ==
    /\ Runs
    /\ proxy.pc = "at"
    /\ cm = "free"
    /\ IF cdp THEN cm' = "proxy" /\ proxy' = [pc |-> "lock"]
       ELSE proxy' = Idle /\ UNCHANGED cm
    /\ UNCHANGED <<pdp, ps, proxyq, pm, cdp, ps_if, dflt, missed, pingvars, list, alive, rx, ping, fault>>

AtLock ==
    /\ Runs
    /\ proxy.pc = "lock"
    /\ TakeProxyMutex("proxy")
    /\ proxy' = [pc |-> "put"]
    /\ UNCHANGED <<pdp, ps, proxyq, cm, cdp, ps_if, dflt, missed, pingvars, list, alive, rx, ping, fault>>

AtSend ==
    /\ Runs
    /\ proxy.pc = "put"
    /\ send_msg_2_proxy("proxy", [id |-> "CDP"])
    /\ cdp' = FALSE
    /\ cm' = "free"
    /\ proxy' = Idle
    /\ UNCHANGED <<pdp, ps, ps_if, dflt, missed, pingvars, list, alive, rx, ping, fault>>

-----------------------------------------------------------------------------
(***************************************************************************)
(* The receiving thread: send_packet_to_user.                              *)
(***************************************************************************)
\* A packet without an interface is dropped.  netif_is_link_up reads the flags through the NULL
\* of a vacant entry: that may stop the device, drop the packet, or let it pass.
send_packet_to_user(cid) ==
    /\ Runs
    /\ rx.pc = "idle"
    /\ \/ now_in_ping /\ rx' = [pc |-> "toping"] /\ UNCHANGED fault
       \/ /\ ~now_in_ping
          /\ Holding(cid) # {}
          /\ ps_if[find_netif_by_cid(cid)].ps_eth # "new"
          /\ rx' = [pc |-> "resume", i |-> find_netif_by_cid(cid)]
          /\ UNCHANGED fault
       \/ ~now_in_ping /\ FoundVacant(cid) /\ Fail("null") /\ UNCHANGED rx
    /\ UNCHANGED <<ifvars, pingvars, proxy, list, alive, ping>>

\* send_packet_to_ping tests the queue, and then waits for a place in it; DeleteQueue makes
\* the handle it holds a stale one.
send_packet_to_ping ==
    /\ Runs
    /\ rx.pc = "toping"
    /\ rx' = IF packets = NULL THEN Idle ELSE [pc |-> "putping"]
    /\ UNCHANGED <<ifvars, pingvars, proxy, list, alive, ping, fault>>

PutPing ==
    /\ Runs
    /\ \/ /\ rx.pc = "putping"
          /\ packets < PingLen
          /\ packets' = packets + 1
          /\ rx' = Idle
          /\ UNCHANGED fault
       \/ rx.pc = "stale" /\ Fail("queue") /\ UNCHANGED <<rx, packets>>
    /\ UNCHANGED <<ifvars, now_in_ping, g_ping_stop, g_OOS_flag, out_OOS_sem, proxy, list, alive, ping>>

\* send_ps_packet_to_tcpip after the search: resume_net_app_by_dl_pkt, for a packet of the
\* CDP session or for another one.
resume_net_app_by_dl_pkt(ofCdp) ==
    /\ Runs
    /\ rx.pc = "resume"
    /\ cm = "free"
    /\ IF cdp /\ ofCdp THEN cm' = "rx" /\ rx' = [rx EXCEPT !.pc = "lock"]
       ELSE rx' = [rx EXCEPT !.pc = "input"] /\ UNCHANGED cm
    /\ UNCHANGED <<pdp, ps, proxyq, pm, cdp, ps_if, dflt, missed, pingvars, proxy, list, alive, ping, fault>>

RxLock ==
    /\ Runs
    /\ rx.pc = "lock"
    /\ TakeProxyMutex("rx")
    /\ rx' = [rx EXCEPT !.pc = "put"]
    /\ UNCHANGED <<pdp, ps, proxyq, cm, cdp, ps_if, dflt, missed, pingvars, proxy, list, alive, ping, fault>>

MutexKept == cm
MutexReleased == "free"

RxSend ==
    /\ Runs
    /\ rx.pc = "put"
    /\ send_msg_2_proxy("rx", [id |-> "CDP"])
    /\ cdp' = FALSE
    /\ cm' = MutexReleased
    /\ rx' = [rx EXCEPT !.pc = "input"]
    /\ UNCHANGED <<pdp, ps, ps_if, dflt, missed, pingvars, proxy, list, alive, ping, fault>>

\* ps_temp->ps_eth->input: the entry may have been cleared since.
send_ps_packet_to_tcpip ==
    /\ Runs
    /\ rx.pc = "input"
    /\ IF ps_if[rx.i].ps_eth = NULL THEN Fail("netif") /\ UNCHANGED rx
       ELSE rx' = Idle /\ Fine
    /\ UNCHANGED <<ifvars, pingvars, proxy, list, alive, ping>>

-----------------------------------------------------------------------------
(***************************************************************************)
(* The ping task, and its callbacks in the list of netif_mgmt.c.           *)
(***************************************************************************)
PingStep(from, to) == Runs /\ ping.pc = from /\ ping' = [ping EXCEPT !.pc = to]

MgmtMutexFree == proxy.pc # "walk"

netif_mgmt_add_event_callback(callback) ==
    /\ MgmtMutexFree
    /\ list' = Append(list, callback)
    /\ alive' = alive \cup {callback}

\* The list without the first node of a callback.
Nodes(callback) == {k \in 1 .. Len(list) : list[k] = callback}
Without(callback) == IF Nodes(callback) = {} THEN list ELSE RemoveAt(list, First(Nodes(callback)))

\* The node goes under the mutex, and only then is what it points to freed.
DelUnlocked(callback) ==
    /\ list' = Without(callback)
    /\ alive' = alive \ {callback}

netif_mgmt_del_event_callback(callback) ==
    /\ MgmtMutexFree
    /\ list' = Without(callback)
    /\ alive' = alive \ {callback}

start_ping(num) ==
    /\ Runs
    /\ ping.pc = "none"
    /\ dflt # NULL
    /\ ps_if[dflt].ps_eth = "up"
    /\ ~g_OOS_flag
    /\ ping' = [pc |-> "start", num |-> num]
    /\ UNCHANGED <<ifvars, pingvars, proxy, list, alive, rx, fault>>

AddUp ==
    /\ PingStep("start", "add_down")
    /\ netif_mgmt_add_event_callback("ping_up")
    /\ UNCHANGED <<ifvars, pingvars, proxy, rx, fault>>

AddDown ==
    /\ PingStep("add_down", "parse")
    /\ netif_mgmt_add_event_callback("ping_down")
    /\ UNCHANGED <<ifvars, pingvars, proxy, rx, fault>>

\* A host that is no address ends the ping: the callbacks go, and no queue was made.
ParseHost ==
    /\ \E to \in {"init", "del_up"} : PingStep("parse", to)
    /\ UNCHANGED <<ifvars, pingvars, proxy, list, alive, rx, fault>>

NoNetif == \A i \in Ifs : ps_if[i].ps_eth = NULL

\* init_ping_ipv4: the flag is reset and the queue is made.
init_ping_ipv4 ==
    /\ PingStep("init", "ready")
    /\ g_ping_stop' = FALSE
    /\ packets' = 0
    /\ UNCHANGED <<ifvars, now_in_ping, g_OOS_flag, out_OOS_sem, proxy, list, alive, rx, fault>>

\* getlocalip, and from then on the packets are ping's.
TakePackets ==
    /\ PingStep("ready", IF NoNetif THEN "del_up" ELSE "loop")
    /\ now_in_ping' = ~NoNetif
    /\ UNCHANGED <<ifvars, packets, g_ping_stop, g_OOS_flag, out_OOS_sem, proxy, list, alive, rx, fault>>

\* while (!g_ping_stop && ping_num--)
PingLoop ==
    /\ Runs
    /\ ping.pc = "loop"
    /\ ping' = IF g_ping_stop \/ ping.num = 0 THEN [ping EXCEPT !.pc = "del_up"]
               ELSE [pc |-> "oos", num |-> ping.num - 1]
    /\ UNCHANGED <<ifvars, pingvars, proxy, list, alive, rx, fault>>

TestOos ==
    /\ PingStep("oos", IF g_OOS_flag THEN "sem" ELSE "send")
    /\ UNCHANGED <<ifvars, pingvars, proxy, list, alive, rx, fault>>

WaitOos ==
    /\ out_OOS_sem = 1
    /\ PingStep("sem", IF g_ping_stop THEN "del_up" ELSE "send")
    /\ out_OOS_sem' = 0
    /\ UNCHANGED <<ifvars, packets, now_in_ping, g_ping_stop, g_OOS_flag, proxy, list, alive, rx, fault>>

SendPing ==
    /\ PingStep("send", IF NoNetif THEN "del_up" ELSE "recv")
    /\ UNCHANGED <<ifvars, pingvars, proxy, list, alive, rx, fault>>

\* recv_from_ps_directly: a packet that is the answer, one that is not, or the end of the wait.
RecvKeptOn == PingStep("recv", "recv") /\ packets = 0
RecvTimeout == PingStep("recv", "next") /\ packets = 0

RecvPing ==
    /\ \/ NoNetif /\ PingStep("recv", "next") /\ UNCHANGED packets
       \/ /\ \E to \in (IF g_ping_stop \/ NoNetif THEN {"recv"} ELSE {"recv", "next"}) : PingStep("recv", to)
          /\ packets > 0
          /\ packets' = packets - 1
       \/ RecvTimeout /\ UNCHANGED packets
    /\ UNCHANGED <<ifvars, now_in_ping, g_ping_stop, g_OOS_flag, out_OOS_sem, proxy, list, alive, rx, fault>>

NextPing ==
    /\ PingStep("next", IF ping.num = 0 THEN "del_up" ELSE "loop")
    /\ UNCHANGED <<ifvars, pingvars, proxy, list, alive, rx, fault>>

\* The label out.  A ping with a bad host has no queue to drain.
DelUp ==
    /\ PingStep("del_up", "del_down")
    /\ netif_mgmt_del_event_callback("ping_up")
    /\ UNCHANGED <<ifvars, pingvars, proxy, rx, fault>>

DelDown ==
    /\ PingStep("del_down", IF packets = NULL THEN "end" ELSE "drain")
    /\ netif_mgmt_del_event_callback("ping_down")
    /\ UNCHANGED <<ifvars, pingvars, proxy, rx, fault>>

Drain ==
    /\ PingStep("drain", "drain")
    /\ packets > 0
    /\ packets' = packets - 1
    /\ UNCHANGED <<ifvars, now_in_ping, g_ping_stop, g_OOS_flag, out_OOS_sem, proxy, list, alive, rx, fault>>

DeleteQueue ==
    /\ PingStep("drain", "end")
    /\ packets = 0
    /\ packets' = NULL
    /\ rx' = IF rx.pc = "putping" THEN [pc |-> "stale"] ELSE rx
    /\ UNCHANGED <<ifvars, now_in_ping, g_ping_stop, g_OOS_flag, out_OOS_sem, proxy, list, alive, fault>>

InPingKept == now_in_ping
InPingReset == FALSE

\* now_in_ping is reset, and the thread ends.
EndPing ==
    /\ Runs
    /\ ping.pc = "end"
    /\ ping' = [pc |-> "none", num |-> 0]
    /\ now_in_ping' = InPingReset
    /\ UNCHANGED <<ifvars, packets, g_ping_stop, g_OOS_flag, out_OOS_sem, proxy, list, alive, rx, fault>>

stop_ping ==
    /\ Runs
    /\ ping.pc # "none"
    /\ g_ping_stop' = TRUE
    /\ out_OOS_sem' = IF g_OOS_flag THEN 1 ELSE out_OOS_sem
    /\ UNCHANGED <<ifvars, packets, now_in_ping, g_OOS_flag, proxy, list, alive, rx, ping, fault>>

\* Out of service, and back (external).  Nobody but ping looks at the flag here.
Oos ==
    /\ Runs
    /\ PingNums # {}
    /\ g_OOS_flag' = ~g_OOS_flag
    /\ out_OOS_sem' = IF g_OOS_flag THEN 1 ELSE out_OOS_sem
    /\ UNCHANGED <<ifvars, packets, now_in_ping, g_ping_stop, proxy, list, alive, rx, ping, fault>>

-----------------------------------------------------------------------------
ProxyTask ==
    \/ xy_proxy_ctl
    \/ ps_netif_activate
    \/ NetifDown
    \/ ps_netif_deactivate
    \/ netif_mgmt_status_callback_proc
    \/ AtRequest
    \/ AtLock
    \/ AtSend

\* What the receiving thread does with a packet it has.
RxTask ==
    \/ send_packet_to_ping
    \/ PutPing
    \/ \E ofCdp \in BOOLEAN : resume_net_app_by_dl_pkt(ofCdp)
    \/ RxLock
    \/ RxSend
    \/ send_ps_packet_to_tcpip

PingTask ==
    \/ AddUp
    \/ AddDown
    \/ ParseHost
    \/ init_ping_ipv4
    \/ TakePackets
    \/ PingLoop
    \/ TestOos
    \/ WaitOos
    \/ SendPing
    \/ RecvPing
    \/ NextPing
    \/ DelUp
    \/ DelDown
    \/ Drain
    \/ DeleteQueue
    \/ EndPing

Next ==
    \/ \E msg \in Msgs : PsEvent(msg)
    \/ PsSend
    \/ ProxyTask
    \/ \E cid \in Cids : send_packet_to_user(cid)
    \/ RxTask
    \/ \E num \in PingNums : start_ping(num)
    \/ PingTask
    \/ stop_ping
    \/ Oos

\* Tasks go on when they can; one that waits for a mutex gets it when it is free again and again.
Fairness == WF_vars(PsSend) /\ SF_vars(ProxyTask) /\ SF_vars(RxTask) /\ SF_vars(PingTask)

Spec == Init /\ [][Next]_vars /\ Fairness

-----------------------------------------------------------------------------
\* The walk over the callbacks never meets a node that was removed or a callback that was
\* freed, although the ping task removes and frees its own at any moment.
CallbacksAlive == fault # "callback"

Pending == {k \in 1 .. Len(proxyq) : proxyq[k].id \in {"PDP_ACT", "PDP_DEACT"}}

\* The entries that have an interface of the context.
Listed(cid) == {i \in Holding(cid) : ps_if[i].ps_eth # NULL}

\* As long as no deactivation has met a vacant entry: none of the assertions of
\* ps_netif_api.c fails, and once the proxy has worked off what the protocol stack
\* announced the table holds exactly the active contexts, each once and with its interface up.
TableFollowsPdp ==
    ~missed =>
        /\ fault # "assert"
        /\ Pending = {} /\ ps = Idle /\ proxy.pc \in {"idle", "at", "lock", "put"} =>
             \A cid \in Cids : /\ cid \in pdp <=> Listed(cid) # {}
                               /\ \A i, j \in Listed(cid) : i = j /\ ps_if[i].ps_eth = "up"

\* A deactivation finds the entry of its own context.  It holds when the protocol stack does
\* not use context 0, and fails when it does: see the README.
NeverMissed == ~missed

\* While no ping runs its callbacks are not in the list, its queue is gone, and the
\* packets go to lwIP again, however the ping ended.
PingTidies ==
    ping.pc = "none" =>
        /\ ~now_in_ping
        /\ packets = NULL
        /\ Range(list) \cap PingCallbacks = {}
        /\ alive = {}

\* The proxy waits for a place in its own queue, or for a mutex whose holder does.
Wedged ==
    /\ Len(proxyq) = ProxyLen
    /\ \/ proxy.pc = "put"
       \/ proxy.pc = "lock" /\ pm # "free"
       \/ proxy.pc = "at" /\ cm = "rx" /\ rx.pc \in {"lock", "put"}

\* Every sender gets its message into the queue, unless the proxy itself is stuck behind
\* the full queue: the three mutexes alone block nobody for ever.
SendersReturn == (pm # "free") ~> (pm = "free" \/ Wedged \/ fault # "none")

\* A ping comes to its end unless packets keep coming in or it waits for the network to
\* come back; a walk over the callbacks or a removed interface cannot hold it up.
PingEnds == []<>(ping.pc \in {"none", "sem"} \/ rx.pc # "idle" \/ fault # "none")

=============================================================================
