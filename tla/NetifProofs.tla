----------------------------- MODULE NetifProofs -----------------------------
(***************************************************************************)
(* What holds of the interface table, of the walk over the callbacks and   *)
(* of the ping tool for any number of contexts, any lengths of the queues  *)
(* and any number of pings.                                                *)
(***************************************************************************)
EXTENDS Netif, TLAPS, FiniteSetTheorems, SequenceTheorems, WellFoundedInduction

\* Where the ping task has its queue, where it has none, and where the packets may be its own.
WithQueue == {"ready", "loop", "oos", "sem", "send", "recv", "next", "drain"}
WithoutQueue == {"none", "start", "add_down", "parse", "init", "end"}
BeforeTaking == {"none", "start", "add_down", "parse", "init", "ready"}

PacketsInv ==
    /\ ping.pc \in WithQueue => packets # NULL
    /\ ping.pc \in WithoutQueue => packets = NULL
    /\ rx.pc = "putping" => packets # NULL
    /\ ping.pc \in BeforeTaking => ~now_in_ping

\* A callback of ping is listed from its Add step to its Del step, and allocated as long.
UpListed == {"add_down", "parse", "init"} \cup (WithQueue \ {"drain"}) \cup {"del_up"}
DownListed == (UpListed \ {"add_down"}) \cup {"del_down"}

ListInv ==
    /\ "ping_up" \in alive <=> ping.pc \in UpListed
    /\ "ping_down" \in alive <=> ping.pc \in DownListed
    /\ Range(list) \cap PingCallbacks \subseteq alive
    /\ \A j, k \in 1 .. Len(list) : list[j] = list[k] => j = k

\* The walk stands at a callback of the list.
WalkInv == proxy.pc = "walk" => proxy.cur \in Range(list)

\* Who holds the proxy's mutex.
MutexInv == ps.pc = "send" <=> pm = "ps"

\* The place the proxy is about to clear.
Removing(i) ==
    /\ proxy.pc \in {"down", "deact"} \/ (proxy.pc = "walk" /\ proxy.event = "DOWN")
    /\ proxy.i = i

\* The contexts that have a place of the table, and keep it.
Live(i) == ps_if[i].ps_eth # NULL
Held == {cid \in Cids : \E i \in Ifs : ps_if[i].cid = cid /\ Live(i) /\ ~Removing(i)}

PlacesInv ==
    /\ \A i \in Ifs : IF Live(i) THEN ps_if[i].cid \in Cids ELSE ps_if[i].cid = 0
    /\ \A i, j \in Ifs : ps_if[i].cid = ps_if[j].cid /\ Live(i) /\ Live(j) => i = j
    /\ \A i \in Ifs : ps_if[i].ps_eth = "new" => proxy.pc = "act" /\ proxy.i = i
    /\ \A i \in Ifs : ps_if[i].ps_eth = "down" => Removing(i)
    /\ \A i \in Ifs : Removing(i) \/ (proxy.pc = "act" /\ proxy.i = i) => Live(i)

\* What is on its way to the proxy: the queue, and the message the stack is sending.
Underway == IF ps.pc = "send" THEN Append(proxyq, ps.msg) ELSE proxyq

\* What a message makes of the set of contexts.
Effect(A, msg, B) ==
    CASE msg.id = "PDP_ACT" -> msg.cid \notin A /\ B = A \cup {msg.cid}
      [] msg.id = "PDP_DEACT" -> msg.cid \in A /\ B = A \ {msg.cid}
      [] OTHER -> B = A

\* The messages of q lead from the contexts A to the contexts B.
Path(q, A, B) ==
    \E st \in [0 .. Len(q) -> SUBSET Cids] :
        /\ st[0] = A
        /\ st[Len(q)] = B
        /\ \A k \in 1 .. Len(q) : Effect(st[k - 1], q[k], st[k])

\* What is on its way makes of the contexts of the table those of the protocol stack.
QueueInv == Path(Underway, Held, pdp)

NoAssert == fault # "assert"

\* The table is right until a deactivation has met a vacant entry, which only context 0 can.
TableInv ==
    /\ ~missed => PlacesInv /\ QueueInv /\ NoAssert
    /\ missed => 0 \in Cids

IInv ==
    /\ TypeOK /\ PacketsInv /\ ListInv /\ WalkInv /\ CallbacksAlive
    /\ MutexInv /\ TableInv

-----------------------------------------------------------------------------
\* Every set of numbers has a least element.
LEMMA LeastNumber ==
  ASSUME NEW T, T \subseteq Nat, T # {}
  PROVE  \E x \in T : \A y \in T : x <= y
  <1> DEFINE R == OpToRel(<, Nat)
  <1>1. \A x, y \in Nat : y < x => <<y, x>> \in R
    BY DEF OpToRel
  <1>2. IsWellFoundedOn(R, Nat)
    BY NatLessThanWellFounded
  <1> HIDE DEF R
  <1>3. PICK x \in T : \A y \in T : <<y, x>> \notin R
    BY <1>2, WFMin
  <1>4. \A y \in T : ~(y < x)
    BY <1>1, <1>3
  <1> QED
    BY <1>4

\* The searches of ps_netif_api.c return a place they were looking for, if there is one.
LEMMA FirstFound ==
  ASSUME NEW S, S \subseteq Nat, S # {}
  PROVE  First(S) \in S
  <1>1. \E i \in S : \A j \in S : i <= j
    BY LeastNumber
  <1> QED
    BY <1>1 DEF First

\* find_netif_by_cid and insert_one_netif return places of the table.
LEMMA PlacesFound ==
  /\ \A cid : Holding(cid) # {} => find_netif_by_cid(cid) \in Holding(cid)
  /\ Vacant # {} => First(Vacant) \in Vacant
  <1>1. \A cid : Holding(cid) \subseteq Nat
    BY CidMaxAssumption DEF Holding, Ifs
  <1>2. Vacant \subseteq Nat
    BY CidMaxAssumption DEF Vacant, Ifs
  <1> QED
    BY <1>1, <1>2, FirstFound DEF find_netif_by_cid

\* What the proxy remembers, by place.
LEMMA ProxyFields ==
  ASSUME ProxyOK
  PROVE  /\ proxy.pc \in {"act", "down", "deact", "walk"} => proxy.i \in Ifs
         /\ proxy.pc = "walk" => /\ proxy \in [pc : {"walk"}, i : Ifs, event : {"UP", "DOWN"}, cur : Callbacks]
                                 /\ proxy.event \in {"UP", "DOWN"} /\ proxy.cur \in Callbacks
  BY DEF ProxyOK

\* What the receiving thread remembers, by place.
LEMMA RxFields ==
  ASSUME RxOK
  PROVE  rx.pc \in {"resume", "lock", "put", "input"} =>
            rx \in [pc : {"resume", "lock", "put", "input"}, i : Ifs]
  BY DEF RxOK

\* The walk over the callbacks starts at the first of the list, or ends at once.
LEMMA WalkStarts ==
  ASSUME list \in Seq(Callbacks), NEW i \in Ifs, NEW event \in {"UP", "DOWN"}
  PROVE  \/ Walk(i, event) = [pc |-> "idle"] /\ event = "UP"
         \/ Walk(i, event) = [pc |-> "deact", i |-> i] /\ event = "DOWN"
         \/ /\ Walk(i, event) = [pc |-> "walk", i |-> i, event |-> event, cur |-> Head(list)]
            /\ list # << >>
            /\ Head(list) \in Callbacks
            /\ Head(list) \in Range(list)
  <1>1. CASE list = << >>
    BY <1>1 DEF Walk, Idle
  <1>2. CASE list # << >>
    <2>1. Len(list) \in Nat /\ Len(list) # 0 /\ Head(list) = list[1]
      BY <1>2
    <2>2. 1 \in DOMAIN list /\ list[1] \in Callbacks
      BY <2>1
    <2>3. list[1] \in Range(list)
      BY <2>2 DEF Range
    <2> QED
      BY <1>2, <2>1, <2>2, <2>3 DEF Walk
  <1> QED
    BY <1>1, <1>2

\* One turn of the walk goes to the next callback of the list, or ends the walk.
WalkOn ==
    \/ proxy' = [pc |-> "idle"] /\ proxy.event = "UP"
    \/ proxy' = [pc |-> "deact", i |-> proxy.i] /\ proxy.event = "DOWN"
    \/ \E k \in DOMAIN list : proxy' = [proxy EXCEPT !.cur = list[k]]

\* netif_mgmt_status_callback_proc goes on to a listed callback, ends, or has met a bad node.
LEMMA WalkGoesOn ==
  ASSUME ProxyOK, list \in Seq(Callbacks), netif_mgmt_status_callback_proc
  PROVE  WalkOn \/ (proxy' = proxy /\ (proxy.cur \notin Range(list) \/ proxy.cur \in PingCallbacks \ alive))
  <1> DEFINE at == CHOOSE k \in 1 .. Len(list) : list[k] = proxy.cur
  <1>1. CASE proxy.cur \notin Range(list) \/ proxy.cur \in PingCallbacks \ alive
    BY <1>1 DEF netif_mgmt_status_callback_proc
  <1>2. CASE ~(proxy.cur \notin Range(list) \/ proxy.cur \in PingCallbacks \ alive)
    <2>1. \E k \in 1 .. Len(list) : list[k] = proxy.cur
      BY <1>2 DEF Range
    <2>2. at \in 1 .. Len(list)
      BY <2>1
    <2>3. at < Len(list) => at + 1 \in DOMAIN list
      BY <2>2
    <2>4. proxy.event \in {"UP", "DOWN"}
      BY ProxyFields DEF netif_mgmt_status_callback_proc
    <2>5. proxy' = IF at < Len(list) THEN [proxy EXCEPT !.cur = list[at + 1]]
                   ELSE IF proxy.event = "UP" THEN Idle
                   ELSE [pc |-> "deact", i |-> proxy.i]
      BY <1>2 DEF netif_mgmt_status_callback_proc
    <2> HIDE DEF at
    <2> QED
      BY <2>3, <2>4, <2>5 DEF WalkOn, Idle
  <1> QED
    BY <1>1, <1>2

-----------------------------------------------------------------------------
\* A sequence without its i-th element.
LEMMA Unlinked ==
  ASSUME NEW S, NEW s \in Seq(S), NEW i \in 1 .. Len(s)
  PROVE  /\ RemoveAt(s, i) \in Seq(S)
         /\ Len(RemoveAt(s, i)) = Len(s) - 1
         /\ \A k \in 1 .. (Len(s) - 1) : RemoveAt(s, i)[k] = IF k < i THEN s[k] ELSE s[k + 1]
  <1> DEFINE a == SubSeq(s, 1, i - 1)
             b == SubSeq(s, i + 1, Len(s))
  <1>1. a \in Seq(S) /\ Len(a) = i - 1 /\ \A k \in 1 .. (i - 1) : a[k] = s[k]
    OBVIOUS
  <1>2. b \in Seq(S) /\ Len(b) = Len(s) - i /\ \A k \in 1 .. (Len(s) - i) : b[k] = s[i + k]
    OBVIOUS
  <1>3. RemoveAt(s, i) = a \o b
    BY DEF RemoveAt
  <1> HIDE DEF a, b
  <1>4. a \o b \in Seq(S) /\ Len(a \o b) = Len(s) - 1
    <2>1. a \o b \in Seq(S) /\ Len(a \o b) = Len(a) + Len(b)
      BY <1>1, <1>2, ConcatProperties
    <2> QED
      BY <1>1, <1>2, <2>1
  <1>5. \A k \in 1 .. (Len(s) - 1) : (a \o b)[k] = IF k <= Len(a) THEN a[k] ELSE b[k - Len(a)]
    <2>1. \A k \in 1 .. (Len(a) + Len(b)) : (a \o b)[k] = IF k <= Len(a) THEN a[k] ELSE b[k - Len(a)]
      BY <1>1, <1>2, ConcatProperties
    <2>2. Len(a) + Len(b) = Len(s) - 1
      BY <1>1, <1>2
    <2> QED
      BY <2>1, <2>2
  <1>6. ASSUME NEW k \in 1 .. (Len(s) - 1)
        PROVE  (a \o b)[k] = IF k < i THEN s[k] ELSE s[k + 1]
    <2>1. CASE k < i
      BY <1>1, <1>5, <2>1
    <2>2. CASE ~(k < i)
      <3>1. (a \o b)[k] = b[k - (i - 1)]
        <4>1. Len(a) = i - 1 /\ ~(k <= i - 1)
          BY <1>1, <2>2
        <4> QED
          BY <1>5, <4>1
      <3>2. k - (i - 1) \in 1 .. (Len(s) - i) /\ i + (k - (i - 1)) = k + 1
        BY <2>2
      <3> QED
        BY <1>2, <2>2, <3>1, <3>2
    <2> QED
      BY <2>1, <2>2
  <1> QED
    BY <1>3, <1>4, <1>6

\* netif_mgmt_del_event_callback unlinks one node and leaves the others as they were.
LEMMA NodeUnlinked ==
  ASSUME list \in Seq(Callbacks), NEW c
  PROVE  /\ Without(c) \in Seq(Callbacks)
         /\ \/ Without(c) = list /\ c \notin Range(list)
            \/ \E i \in 1 .. Len(list) : list[i] = c /\ Without(c) = RemoveAt(list, i)
  <1>1. CASE Nodes(c) = {}
    BY <1>1 DEF Nodes, Without, Range
  <1>2. CASE Nodes(c) # {}
    <2>1. Nodes(c) \subseteq Nat
      BY DEF Nodes
    <2>2. First(Nodes(c)) \in Nodes(c)
      BY <1>2, <2>1, FirstFound
    <2>3. First(Nodes(c)) \in 1 .. Len(list) /\ list[First(Nodes(c))] = c
      BY <2>2 DEF Nodes
    <2>4. Without(c) = RemoveAt(list, First(Nodes(c)))
      BY <1>2 DEF Without
    <2>5. RemoveAt(list, First(Nodes(c))) \in Seq(Callbacks)
      BY <2>3, Unlinked
    <2> QED
      BY <2>3, <2>4, <2>5
  <1> QED
    BY <1>1, <1>2

-----------------------------------------------------------------------------
\* The flags stay Boolean.
LEMMA FlagsStep ==
  ASSUME FlagsOK, missed' \in {missed, TRUE}, [Next]_vars
  PROVE  FlagsOK'
  <1> USE DEF Next, vars, ifvars, pingvars, ProxyTask, RxTask, PingTask, PsEvent, PsSend, xy_proxy_ctl,
           ps_netif_activate, NetifDown, ps_netif_deactivate, netif_mgmt_status_callback_proc, Called,
           AtRequest, AtLock, AtSend, send_packet_to_user, send_packet_to_ping, PutPing,
           resume_net_app_by_dl_pkt, RxLock, RxSend, send_ps_packet_to_tcpip, start_ping, AddUp,
           AddDown, ParseHost, init_ping_ipv4, TakePackets, PingLoop, TestOos, WaitOos, SendPing,
           RecvPing, NextPing, DelUp, DelDown, Drain, DeleteQueue, EndPing, stop_ping, Oos
  <1>1. cdp' \in {cdp, FALSE}
    OBVIOUS
  <1>2. now_in_ping' \in {now_in_ping, FALSE, ~NoNetif}
    BY DEF InPingReset
  <1>3. g_ping_stop' \in {g_ping_stop, FALSE, TRUE}
    OBVIOUS
  <1>4. g_OOS_flag' \in {g_OOS_flag, ~g_OOS_flag}
    OBVIOUS
  <1> QED
    BY <1>1, <1>2, <1>3, <1>4, Zenon DEF FlagsOK

\* What xy_proxy_ctl does with each message.
LEMMA ProxyHandles ==
  ASSUME TypeOK, xy_proxy_ctl
  PROVE  /\ Head(proxyq) \in Msgs
         /\ \/ /\ Head(proxyq).id = "PDP_ACT" /\ Head(proxyq).cid \in Cids
               /\ insert_one_netif(Head(proxyq).cid) /\ missed' = missed
            \/ /\ Head(proxyq).id = "PDP_DEACT" /\ Head(proxyq).cid \in Cids
               /\ Deactivate(Head(proxyq).cid)
            \/ /\ Head(proxyq).id \in {"AT", "CDP"}
               /\ UNCHANGED <<ps_if, missed, fault>>
               /\ proxy' \in {proxy, Idle, [pc |-> "at"]}
  <1>1. Head(proxyq) \in Msgs
    BY DEF TypeOK, xy_proxy_ctl
  <1>2. CASE Head(proxyq).id = "PDP_ACT"
    <2>1. Head(proxyq).cid \in Cids
      BY <1>1, <1>2 DEF Msgs
    <2>2. insert_one_netif(Head(proxyq).cid) /\ missed' = missed
      BY <1>2 DEF xy_proxy_ctl
    <2> QED
      BY <1>1, <1>2, <2>1, <2>2
  <1>3. CASE Head(proxyq).id = "PDP_DEACT"
    <2>1. Head(proxyq).cid \in Cids
      BY <1>1, <1>3 DEF Msgs
    <2>2. Deactivate(Head(proxyq).cid)
      BY <1>3 DEF xy_proxy_ctl
    <2> QED
      BY <1>1, <1>3, <2>1, <2>2
  <1>4. CASE Head(proxyq).id \in {"AT", "CDP"}
    <2>1. UNCHANGED <<ps_if, missed, fault>> /\ proxy' \in {proxy, Idle, [pc |-> "at"]}
      BY <1>4 DEF xy_proxy_ctl
    <2> QED
      BY <1>1, <1>4, <2>1
  <1> QED
    BY <1>1, <1>2, <1>3, <1>4 DEF Msgs

\* Only a deactivation that meets a vacant entry writes missed.
LEMMA MissedKept ==
  ASSUME TypeOK, [Next]_vars
  PROVE  missed' \in {missed, TRUE}
  <1>1. CASE xy_proxy_ctl
    <2>1. missed' = missed \/ Deactivate(Head(proxyq).cid)
      BY <1>1, ProxyHandles
    <2> QED
      BY <2>1 DEF Deactivate
  <1>2. CASE ~xy_proxy_ctl
    BY <1>2 DEF Next, vars, ifvars, ProxyTask, RxTask, PingTask, PsEvent, PsSend,
           ps_netif_activate, NetifDown, ps_netif_deactivate, netif_mgmt_status_callback_proc,
           AtRequest, AtLock, AtSend, send_packet_to_user, send_packet_to_ping, PutPing,
           resume_net_app_by_dl_pkt, RxLock, RxSend, send_ps_packet_to_tcpip, start_ping, AddUp,
           AddDown, ParseHost, init_ping_ipv4, TakePackets, PingLoop, TestOos, WaitOos, SendPing,
           RecvPing, NextPing, DelUp, DelDown, Drain, DeleteQueue, EndPing, stop_ping, Oos
  <1> QED
    BY <1>1, <1>2

\* Every variable keeps its type, a thread that puts or takes a packet finding the queue there.
LEMMA TypeStep ==
  ASSUME TypeOK, PacketsInv, [Next]_vars
  PROVE  TypeOK'
  <1> USE DEF TypeOK, Runs, Fail, Fine
  <1>1. FlagsOK'
    BY FlagsStep, MissedKept
  <1>2. CASE UNCHANGED vars
    BY <1>2 DEF vars, ifvars, pingvars, ProxyOK, RxOK, FlagsOK
  <1>3. CASE \E msg \in Msgs : PsEvent(msg)
    <2>1. PICK msg \in Msgs : PsEvent(msg)
      BY <1>3
    <2>2. pdp' \subseteq Cids
      <3>1. CASE msg.id = "PDP_ACT"
        BY <2>1, <3>1 DEF PsEvent, Msgs
      <3>2. CASE msg.id = "PDP_DEACT"
        BY <2>1, <3>2 DEF PsEvent
      <3>3. CASE msg.id = "AT"
        BY <2>1, <3>3 DEF PsEvent
      <3>4. CASE msg.id = "CDP"
        BY <2>1, <3>4 DEF PsEvent
      <3> QED
        BY <3>1, <3>2, <3>3, <3>4 DEF Msgs
    <2>3. ps' \in [pc : {"send"}, msg : Msgs]
      BY <2>1 DEF PsEvent
    <2> QED
      BY <1>1, <2>1, <2>2, <2>3 DEF PsEvent, TakeProxyMutex, pingvars, ProxyOK, RxOK
  <1>4. CASE PsSend
    <2>1. ps.msg \in Msgs
      BY <1>4 DEF PsSend, Idle
    <2>2. proxyq' \in Seq(Msgs) /\ Len(proxyq') <= ProxyLen
      BY <1>4, <2>1, LenAssumption DEF PsSend, send_msg_2_proxy, Room
    <2> QED
      BY <1>1, <1>4, <2>2 DEF PsSend, send_msg_2_proxy, pingvars, ProxyOK, RxOK
  <1>5. CASE xy_proxy_ctl
    <2>1. Head(proxyq) \in Msgs /\ proxyq' \in Seq(Msgs) /\ Len(proxyq') <= ProxyLen
      BY <1>5, LenAssumption DEF xy_proxy_ctl
    <2>2. ps_if' \in [Ifs -> Entries] /\ ProxyOK' /\ fault' \in {"none", "assert", "null"}
      <3>1. CASE Head(proxyq).id = "PDP_ACT"
        <4>1. Head(proxyq).cid \in Cids
          BY <2>1, <3>1 DEF Msgs
        <4>2. insert_one_netif(Head(proxyq).cid)
          BY <1>5, <3>1 DEF xy_proxy_ctl
        <4>3. Vacant # {} => First(Vacant) \in Ifs
          BY PlacesFound DEF Vacant
        <4>4. CASE Inserts(Head(proxyq).cid)
          <5> DEFINE e == [cid |-> Head(proxyq).cid, ps_eth |-> "new"]
          <5>1. First(Vacant) \in Ifs /\ e \in Entries
            BY <4>1, <4>3, <4>4 DEF Inserts, Entries
          <5>2. ps_if' = [ps_if EXCEPT ![First(Vacant)] = e]
            BY <4>2, <4>4 DEF insert_one_netif
          <5>3. proxy' = [pc |-> "act", i |-> First(Vacant)] /\ fault' = "none"
            BY <4>2, <4>4 DEF insert_one_netif
          <5> HIDE DEF e
          <5> QED
            BY <5>1, <5>2, <5>3 DEF ProxyOK
        <4>5. CASE ~Inserts(Head(proxyq).cid)
          BY <4>2, <4>5 DEF insert_one_netif, ProxyOK
        <4> QED
          BY <4>4, <4>5
      <3>2. CASE Head(proxyq).id = "PDP_DEACT"
        <4>1. Holding(Head(proxyq).cid) # {} => find_netif_by_cid(Head(proxyq).cid) \in Ifs
          BY PlacesFound DEF Holding
        <4>2. Deactivate(Head(proxyq).cid)
          BY <1>5, <3>2 DEF xy_proxy_ctl
        <4>3. /\ ps_if' = ps_if
              /\ \/ proxy' = proxy /\ fault' \in {"none", "assert", "null"}
                 \/ /\ Holding(Head(proxyq).cid) # {} /\ fault' = "none"
                    /\ proxy' = [pc |-> "down", i |-> find_netif_by_cid(Head(proxyq).cid)]
          BY <4>2 DEF Deactivate
        <4> QED
          BY <4>1, <4>2, <4>3 DEF ProxyOK
      <3>3. CASE Head(proxyq).id \in {"AT", "CDP"}
        <4>1. UNCHANGED <<ps_if, fault>> /\ proxy' \in {proxy, Idle, [pc |-> "at"]}
          BY <1>5, <3>3 DEF xy_proxy_ctl
        <4> QED
          BY <1>5, <4>1 DEF xy_proxy_ctl, ProxyOK, Idle
      <3> QED
        BY <2>1, <3>1, <3>2, <3>3 DEF Msgs
    <2> QED
      BY <1>1, <1>5, <2>1, <2>2 DEF xy_proxy_ctl, pingvars, RxOK
  <1>6. CASE ps_netif_activate \/ NetifDown
    <2>1. proxy.i \in Ifs
      BY <1>6, ProxyFields DEF ps_netif_activate, NetifDown
    <2>2. ps_if' \in [Ifs -> Entries]
      <3>1. \A v \in {"up", "down"} : [ps_if EXCEPT ![proxy.i].ps_eth = v] \in [Ifs -> Entries]
        BY <2>1 DEF Entries
      <3> QED
        BY <1>6, <3>1 DEF ps_netif_activate, NetifDown
    <2>3. ProxyOK'
      BY <1>6, <2>1, WalkStarts DEF ps_netif_activate, NetifDown, ProxyOK
    <2> QED
      BY <1>1, <1>6, <2>1, <2>2, <2>3 DEF ps_netif_activate, NetifDown, pingvars, RxOK
  <1>7. CASE ps_netif_deactivate
    BY <1>1, <1>7, ProxyFields DEF ps_netif_deactivate, EntryCleared, NoEntry, Entries, Idle, pingvars, ProxyOK, RxOK
  <1>8. CASE netif_mgmt_status_callback_proc
    <2>1. ProxyOK'
      <3>1. \A k \in DOMAIN list : list[k] \in Callbacks
        OBVIOUS
      <3> QED
        BY <1>8, <3>1, WalkGoesOn, ProxyFields DEF WalkOn, ProxyOK, netif_mgmt_status_callback_proc
    <2> QED
      <3>1. packets' = packets /\ out_OOS_sem' \in 0 .. 1 /\ fault' \in {"none", "callback"}
        <4>1. out_OOS_sem' \in {out_OOS_sem, 1} /\ packets' = packets
          BY <1>8, Zenon DEF netif_mgmt_status_callback_proc, Called, pingvars
        <4> QED
          BY <1>8, <4>1 DEF netif_mgmt_status_callback_proc
      <3> QED
        BY <1>1, <1>8, <2>1, <3>1 DEF netif_mgmt_status_callback_proc, ifvars, RxOK
  <1>9. CASE AtRequest \/ AtLock
    BY <1>1, <1>9 DEF AtRequest, AtLock, TakeProxyMutex, Idle, pingvars, ProxyOK, RxOK
  <1>10. CASE AtSend
    <2>1. proxyq' \in Seq(Msgs) /\ Len(proxyq') <= ProxyLen
      BY <1>10, LenAssumption DEF AtSend, send_msg_2_proxy, Room, Msgs
    <2> QED
      BY <1>1, <1>10, <2>1 DEF AtSend, send_msg_2_proxy, Idle, pingvars, ProxyOK, RxOK
  <1>11. CASE \E cid \in Cids : send_packet_to_user(cid)
    <2>1. \A cid \in Cids : Holding(cid) # {} => find_netif_by_cid(cid) \in Ifs
      BY PlacesFound DEF Holding
    <2> QED
      BY <1>1, <1>11, <2>1 DEF send_packet_to_user, ifvars, pingvars, ProxyOK, RxOK
  <1>12. CASE send_packet_to_ping \/ PutPing
    <2>1. packets' \in (0 .. PingLen) \cup {NULL}
      BY <1>12, LenAssumption DEF send_packet_to_ping, PutPing, pingvars, PacketsInv
    <2> QED
      BY <1>1, <1>12, <2>1 DEF send_packet_to_ping, PutPing, Idle, ifvars, pingvars, ProxyOK, RxOK
  <1>13. CASE (\E ofCdp \in BOOLEAN : resume_net_app_by_dl_pkt(ofCdp)) \/ RxLock
    BY <1>1, <1>13, RxFields DEF resume_net_app_by_dl_pkt, RxLock, TakeProxyMutex, pingvars, ProxyOK, RxOK
  <1>14. CASE RxSend
    <2>1. proxyq' \in Seq(Msgs) /\ Len(proxyq') <= ProxyLen
      BY <1>14, LenAssumption DEF RxSend, send_msg_2_proxy, Room, Msgs
    <2> QED
      BY <1>1, <1>14, <2>1, RxFields DEF RxSend, send_msg_2_proxy, MutexReleased, pingvars, ProxyOK, RxOK
  <1>15. CASE send_ps_packet_to_tcpip
    BY <1>1, <1>15 DEF send_ps_packet_to_tcpip, Idle, ifvars, pingvars, ProxyOK, RxOK
  <1>16. CASE \E num \in PingNums : start_ping(num)
    BY <1>1, <1>16, PingNumAssumption DEF start_ping, PingPcs, ifvars, pingvars, ProxyOK, RxOK
  <1>17. CASE AddUp \/ AddDown \/ DelUp \/ DelDown
    <2>1. PICK c \in PingCallbacks : netif_mgmt_add_event_callback(c) \/ netif_mgmt_del_event_callback(c)
      BY <1>17, Zenon DEF AddUp, AddDown, DelUp, DelDown, PingCallbacks
    <2>2. alive' \subseteq PingCallbacks
      BY <2>1 DEF netif_mgmt_add_event_callback, netif_mgmt_del_event_callback
    <2>3. Append(list, c) \in Seq(Callbacks) /\ Without(c) \in Seq(Callbacks)
      BY NodeUnlinked DEF Callbacks
    <2>4. list' \in Seq(Callbacks)
      BY <2>1, <2>3 DEF netif_mgmt_add_event_callback, netif_mgmt_del_event_callback
    <2> QED
      BY <1>1, <1>17, <2>2, <2>4 DEF AddUp, AddDown, DelUp, DelDown, PingStep, PingPcs, ifvars, pingvars, ProxyOK, RxOK
  <1>18. CASE ParseHost \/ init_ping_ipv4 \/ TakePackets \/ PingLoop \/ TestOos
    BY <1>1, <1>18, LenAssumption DEF ParseHost, init_ping_ipv4, TakePackets, PingLoop, TestOos, PingStep, PingPcs,
          ifvars, pingvars, ProxyOK, RxOK
  <1>19. CASE WaitOos \/ SendPing \/ NextPing \/ EndPing \/ stop_ping \/ Oos
    BY <1>1, <1>19 DEF WaitOos, SendPing, NextPing, EndPing, stop_ping, Oos, PingStep, PingPcs,
          ifvars, pingvars, ProxyOK, RxOK
  <1>20. CASE RecvPing \/ Drain
    <2>1. packets' \in (0 .. PingLen) \cup {NULL}
      BY <1>20, LenAssumption DEF RecvPing, Drain, RecvTimeout, PingStep, PacketsInv, WithQueue
    <2> QED
      BY <1>1, <1>20, <2>1 DEF RecvPing, Drain, RecvTimeout, PingStep, PingPcs, ifvars, ProxyOK, RxOK
  <1>21. CASE DeleteQueue
    BY <1>1, <1>21 DEF DeleteQueue, PingStep, PingPcs, ifvars, ProxyOK, RxOK
  <1> QED
    BY <1>2, <1>3, <1>4, <1>5, <1>6, <1>7, <1>8, <1>9, <1>10, <1>11, <1>12, <1>13, <1>14, <1>15, <1>16,
       <1>17, <1>18, <1>19, <1>20, <1>21 DEF Next, ProxyTask, RxTask, PingTask

-----------------------------------------------------------------------------
\* The steps that leave the ping task's own state, and what the receiving thread does with
\* its packets, alone.
LEMMA OthersSparePing ==
  ASSUME \/ \E msg \in Msgs : PsEvent(msg)
         \/ PsSend
         \/ ProxyTask
  PROVE  UNCHANGED <<packets, now_in_ping, ping, rx, list, alive>>
  BY DEF PsEvent, PsSend, ProxyTask, xy_proxy_ctl, ps_netif_activate, NetifDown, ps_netif_deactivate,
         netif_mgmt_status_callback_proc, Called, AtRequest, AtLock, AtSend, pingvars

\* The ping task has its queue between init_ping_ipv4 and the end of the draining, a thread that
\* waits for a place in it finds it there, and the packets are not ping's before TakePackets.
LEMMA PacketsStep ==
  ASSUME TypeOK, PacketsInv, [Next]_vars
  PROVE  PacketsInv'
  <1> USE DEF TypeOK, PacketsInv
  <1>1. CASE UNCHANGED vars
    BY <1>1 DEF vars, pingvars
  <1>2. CASE (\E msg \in Msgs : PsEvent(msg)) \/ PsSend \/ ProxyTask
    <2>1. UNCHANGED <<packets, now_in_ping, ping, rx>>
      BY <1>2, OthersSparePing
    <2> QED
      BY <2>1
  <1>3. CASE \E cid \in Cids : send_packet_to_user(cid)
    BY <1>3 DEF send_packet_to_user, pingvars
  <1>4. CASE RxTask
    <2>1. CASE send_packet_to_ping
      BY <2>1 DEF send_packet_to_ping, Idle, pingvars
    <2>2. CASE PutPing
      <3>1. packets' = packets \/ packets' \in Nat
        BY <2>2, LenAssumption DEF PutPing
      <3>2. packets' = NULL => packets = NULL
        BY <3>1, NullAssumption
      <3>3. packets = NULL => packets' = NULL
        BY <2>2 DEF PutPing
      <3>4. rx' \in {rx, Idle} /\ UNCHANGED <<ping, now_in_ping>>
        BY <2>2 DEF PutPing
      <3> QED
        BY <3>2, <3>3, <3>4 DEF Idle
    <2>3. CASE (\E ofCdp \in BOOLEAN : resume_net_app_by_dl_pkt(ofCdp)) \/ RxLock \/ RxSend \/ send_ps_packet_to_tcpip
      <3>1. rx' # rx => rx'.pc # "putping"
        BY <2>3, RxFields DEF resume_net_app_by_dl_pkt, RxLock, RxSend, send_ps_packet_to_tcpip, Idle
      <3>2. UNCHANGED <<packets, ping, now_in_ping>>
        BY <2>3 DEF resume_net_app_by_dl_pkt, RxLock, RxSend, send_ps_packet_to_tcpip, pingvars
      <3> QED
        BY <3>1, <3>2
    <2> QED
      BY <1>4, <2>1, <2>2, <2>3 DEF RxTask
  <1>5. CASE \E num \in PingNums : start_ping(num)
    BY <1>5 DEF start_ping, pingvars, WithQueue, WithoutQueue, BeforeTaking
  <1>6. CASE AddUp \/ AddDown \/ ParseHost \/ PingLoop \/ TestOos \/ SendPing \/ NextPing \/ DelUp \/ DelDown
    BY <1>6 DEF AddUp, AddDown, ParseHost, PingLoop, TestOos, SendPing, NextPing, DelUp, DelDown,
                PingStep, pingvars, WithQueue, WithoutQueue, BeforeTaking
  <1>7. CASE init_ping_ipv4
    BY <1>7, NullAssumption DEF init_ping_ipv4, PingStep, WithQueue, WithoutQueue, BeforeTaking
  <1>8. CASE TakePackets \/ WaitOos
    BY <1>8 DEF TakePackets, WaitOos, PingStep, WithQueue, WithoutQueue, BeforeTaking
  <1>9. CASE RecvPing \/ Drain
    <2>1. packets' = packets \/ packets' \in Nat
      BY <1>9, LenAssumption DEF RecvPing, Drain, RecvTimeout, PingStep, WithQueue
    <2>2. packets # NULL /\ packets' # NULL
      BY <1>9, <2>1, NullAssumption DEF RecvPing, Drain, RecvTimeout, PingStep, WithQueue
    <2>3. ping'.pc \in {"recv", "next", "drain"} /\ rx' = rx
      BY <1>9 DEF RecvPing, Drain, RecvTimeout, PingStep
    <2> QED
      BY <2>2, <2>3 DEF WithQueue, WithoutQueue, BeforeTaking
  <1>10. CASE DeleteQueue
    BY <1>10 DEF DeleteQueue, PingStep, WithQueue, WithoutQueue, BeforeTaking
  <1>11. CASE EndPing
    BY <1>11 DEF EndPing, InPingReset, WithQueue, WithoutQueue, BeforeTaking
  <1>12. CASE stop_ping \/ Oos
    BY <1>12 DEF stop_ping, Oos
  <1> QED
    BY <1>1, <1>2, <1>3, <1>4, <1>5, <1>6, <1>7, <1>8, <1>9, <1>10, <1>11, <1>12 DEF Next, PingTask

\* ping registers its callbacks one after the other and removes them one after the other: each is
\* allocated and listed from its own Add step to its own Del step, and no callback is listed twice.
LEMMA ListStep ==
  ASSUME TypeOK, ListInv, [Next]_vars
  PROVE  ListInv'
  <1> USE DEF TypeOK
  <1>1. CASE UNCHANGED <<list, alive, ping>>
    BY <1>1 DEF ListInv
  <1>2. CASE UNCHANGED <<list, alive>> /\ (ping'.pc \in UpListed <=> ping.pc \in UpListed)
                                        /\ (ping'.pc \in DownListed <=> ping.pc \in DownListed)
    BY <1>2 DEF ListInv
  <1>3. CASE \E num \in PingNums : start_ping(num)
    <2>1. UNCHANGED <<list, alive>> /\ ping.pc = "none" /\ ping'.pc = "start"
      BY <1>3 DEF start_ping
    <2> QED
      BY <1>2, <2>1 DEF UpListed, DownListed, WithQueue
  <1>4. CASE ParseHost \/ init_ping_ipv4 \/ TakePackets \/ PingLoop \/ TestOos \/ WaitOos \/ SendPing \/ RecvPing \/ NextPing
    <2> DEFINE Mid == {"parse", "init"} \cup (WithQueue \ {"drain"}) \cup {"del_up"}
    <2>1. UNCHANGED <<list, alive>>
      BY <1>4 DEF ParseHost, init_ping_ipv4, TakePackets, PingLoop, TestOos, WaitOos, SendPing, RecvPing, NextPing
    <2>2. ping.pc \in Mid /\ ping'.pc \in Mid
      BY <1>4 DEF ParseHost, init_ping_ipv4, TakePackets, PingLoop, TestOos, WaitOos, SendPing, RecvPing, NextPing,
                  RecvTimeout, PingStep, WithQueue
    <2> QED
      BY <1>2, <2>1, <2>2 DEF UpListed, DownListed, WithQueue
  <1>5. CASE Drain \/ DeleteQueue \/ EndPing
    <2> DEFINE Out == {"drain", "end", "none"}
    <2>1. UNCHANGED <<list, alive>> /\ ping.pc \in Out /\ ping'.pc \in Out
      BY <1>5 DEF Drain, DeleteQueue, EndPing, PingStep
    <2> QED
      BY <1>2, <2>1 DEF UpListed, DownListed, WithQueue
  <1>6. ASSUME NEW c \in PingCallbacks, c \notin alive, netif_mgmt_add_event_callback(c)
        PROVE  /\ Range(list') \cap PingCallbacks \subseteq alive'
               /\ \A j, k \in 1 .. Len(list') : list'[j] = list'[k] => j = k
               /\ alive' = alive \cup {c}
    <2>1. list' = Append(list, c) /\ alive' = alive \cup {c}
      BY <1>6 DEF netif_mgmt_add_event_callback
    <2>2. Len(list') = Len(list) + 1 /\ list'[Len(list) + 1] = c /\ DOMAIN list' = 1 .. (Len(list) + 1)
      BY <2>1
    <2>3. \A k \in 1 .. Len(list) : list'[k] = list[k]
      BY <2>1
    <2>4. \A k \in 1 .. Len(list) : list[k] # c
      BY <1>6 DEF ListInv, Range
    <2>5. \A k \in 1 .. (Len(list) + 1) : k \in 1 .. Len(list) \/ k = Len(list) + 1
      OBVIOUS
    <2>6. \A j, k \in 1 .. Len(list') : list'[j] = list'[k] => j = k
      BY <2>2, <2>3, <2>4, <2>5 DEF ListInv
    <2>7. ASSUME NEW x \in Range(list') PROVE x \in Range(list) \cup {c}
      <3>1. PICK k \in DOMAIN list' : x = list'[k]
        BY <2>7 DEF Range
      <3> QED
        BY <2>2, <2>3, <2>5, <3>1 DEF Range
    <2> QED
      BY <2>1, <2>6, <2>7 DEF ListInv
  <1>7. ASSUME NEW c \in PingCallbacks, netif_mgmt_del_event_callback(c)
        PROVE  /\ Range(list') \cap PingCallbacks \subseteq alive'
               /\ \A j, k \in 1 .. Len(list') : list'[j] = list'[k] => j = k
               /\ alive' = alive \ {c}
    <2>1. list' = Without(c) /\ alive' = alive \ {c}
      BY <1>7 DEF netif_mgmt_del_event_callback
    <2>2. CASE list' = list /\ c \notin Range(list)
      BY <2>1, <2>2 DEF ListInv
    <2>3. CASE \E i \in 1 .. Len(list) : list[i] = c /\ list' = RemoveAt(list, i)
      <3>1. PICK i \in 1 .. Len(list) : list[i] = c /\ list' = RemoveAt(list, i)
        BY <2>3
      <3> DEFINE at(k) == IF k < i THEN k ELSE k + 1
      <3>2. list' \in Seq(Callbacks) /\ Len(list') = Len(list) - 1
        BY <3>1, Unlinked
      <3>3. \A k \in 1 .. (Len(list) - 1) : list'[k] = list[at(k)]
        <4>1. \A k \in 1 .. (Len(list) - 1) : RemoveAt(list, i)[k] = IF k < i THEN list[k] ELSE list[k + 1]
          <5>1. list \in Seq(Callbacks)
            OBVIOUS
          <5> HIDE DEF TypeOK
          <5> QED
            BY <5>1, Unlinked, Zenon
        <4> QED
          BY <3>1, <4>1
      <3>4. \A k \in 1 .. (Len(list) - 1) : at(k) \in 1 .. Len(list) /\ at(k) # i
        OBVIOUS
      <3>5. \A j, k \in 1 .. (Len(list) - 1) : at(j) = at(k) => j = k
        OBVIOUS
      <3>6. DOMAIN list' = 1 .. (Len(list) - 1)
        BY <3>2
      <3> HIDE DEF at
      <3>7. \A j, k \in 1 .. Len(list') : list'[j] = list'[k] => j = k
        <4> SUFFICES ASSUME NEW j \in 1 .. (Len(list) - 1), NEW k \in 1 .. (Len(list) - 1), list'[j] = list'[k]
                     PROVE  j = k
          BY <3>2
        <4>1. at(j) \in 1 .. Len(list) /\ at(k) \in 1 .. Len(list) /\ list[at(j)] = list[at(k)]
          BY <3>3, <3>4
        <4>2. at(j) = at(k)
          BY <4>1 DEF ListInv
        <4> QED
          BY <3>5, <4>2
      <3>8. ASSUME NEW x \in Range(list') PROVE x \in Range(list) \ {c}
        <4>1. PICK k \in 1 .. (Len(list) - 1) : x = list'[k]
          BY <3>6, <3>8 DEF Range
        <4>2. x = list[at(k)] /\ at(k) \in 1 .. Len(list) /\ at(k) # i
          BY <3>3, <3>4, <4>1
        <4>3. x # c
          BY <3>1, <4>2 DEF ListInv
        <4> QED
          BY <4>2, <4>3 DEF Range
      <3> QED
        BY <2>1, <3>7, <3>8 DEF ListInv
    <2> QED
      BY <2>1, <2>2, <2>3, NodeUnlinked
  <1>8. CASE AddUp
    <2>1. ping.pc = "start" /\ ping'.pc = "add_down" /\ netif_mgmt_add_event_callback("ping_up")
      BY <1>8 DEF AddUp, PingStep
    <2>2. "ping_up" \notin alive /\ "ping_down" \notin alive
      BY <2>1 DEF ListInv, UpListed, DownListed, WithQueue
    <2> QED
      BY <1>6, <2>1, <2>2 DEF ListInv, PingCallbacks, UpListed, DownListed, WithQueue
  <1>9. CASE AddDown
    <2>1. ping.pc = "add_down" /\ ping'.pc = "parse" /\ netif_mgmt_add_event_callback("ping_down")
      BY <1>9 DEF AddDown, PingStep
    <2>2. "ping_up" \in alive /\ "ping_down" \notin alive
      BY <2>1 DEF ListInv, UpListed, DownListed, WithQueue
    <2> QED
      BY <1>6, <2>1, <2>2 DEF ListInv, PingCallbacks, UpListed, DownListed, WithQueue
  <1>10. CASE DelUp
    <2>1. ping.pc = "del_up" /\ ping'.pc = "del_down" /\ netif_mgmt_del_event_callback("ping_up")
      BY <1>10 DEF DelUp, PingStep
    <2>2. "ping_down" \in alive
      BY <2>1 DEF ListInv, UpListed, DownListed, WithQueue
    <2> QED
      BY <1>7, <2>1, <2>2 DEF ListInv, PingCallbacks, UpListed, DownListed, WithQueue
  <1>11. CASE DelDown
    <2>1. ping.pc = "del_down" /\ ping'.pc \in {"end", "drain"} /\ netif_mgmt_del_event_callback("ping_down")
      BY <1>11 DEF DelDown, PingStep
    <2>2. "ping_up" \notin alive
      BY <2>1 DEF ListInv, UpListed, WithQueue
    <2> QED
      BY <1>7, <2>1, <2>2 DEF ListInv, PingCallbacks, UpListed, DownListed, WithQueue
  <1>12. CASE (\E msg \in Msgs : PsEvent(msg)) \/ PsSend \/ ProxyTask
    BY <1>1, <1>12, OthersSparePing
  <1>13. CASE UNCHANGED vars \/ (\E cid \in Cids : send_packet_to_user(cid)) \/ stop_ping \/ Oos
    BY <1>1, <1>13 DEF vars, send_packet_to_user, stop_ping, Oos
  <1>14. CASE RxTask
    BY <1>1, <1>14 DEF RxTask, send_packet_to_ping, PutPing, resume_net_app_by_dl_pkt, RxLock, RxSend, send_ps_packet_to_tcpip
  <1> QED
    BY <1>3, <1>4, <1>5, <1>8, <1>9, <1>10, <1>11, <1>12, <1>13, <1>14 DEF Next, PingTask

\* The list does not change under the proxy's walk, and the walk stays on it.
LEMMA WalkStep ==
  ASSUME TypeOK, WalkInv, [Next]_vars
  PROVE  WalkInv'
  <1> USE DEF TypeOK
  <1>1. CASE UNCHANGED <<proxy, list>>
    BY <1>1 DEF WalkInv
  <1>2. CASE xy_proxy_ctl
    <2>1. proxy.pc = "idle" /\ list' = list
      BY <1>2 DEF xy_proxy_ctl
    <2>2. proxy'.pc # "walk"
      <3>1. CASE insert_one_netif(Head(proxyq).cid)
        BY <2>1, <3>1 DEF insert_one_netif
      <3>2. CASE Deactivate(Head(proxyq).cid)
        BY <2>1, <3>2 DEF Deactivate
      <3>3. CASE proxy' \in {proxy, Idle, [pc |-> "at"]}
        BY <2>1, <3>3 DEF Idle
      <3> QED
        BY <1>2, <3>1, <3>2, <3>3, ProxyHandles
    <2> QED
      BY <2>2 DEF WalkInv
  <1>3. CASE ps_netif_activate \/ NetifDown
    <2>1. proxy.i \in Ifs /\ list' = list
      BY <1>3, ProxyFields DEF ps_netif_activate, NetifDown
    <2>2. proxy' \in {Walk(proxy.i, "UP"), Walk(proxy.i, "DOWN")}
      BY <1>3 DEF ps_netif_activate, NetifDown
    <2> QED
      BY <2>1, <2>2, WalkStarts DEF WalkInv
  <1>4. CASE netif_mgmt_status_callback_proc
    <2>1. list' = list
      BY <1>4 DEF netif_mgmt_status_callback_proc
    <2>2. \A k \in DOMAIN list : list[k] \in Range(list)
      BY DEF Range
    <2>3. proxy.pc = "walk"
      BY <1>4 DEF netif_mgmt_status_callback_proc
    <2>4. CASE WalkOn
      BY <2>1, <2>2, <2>3, <2>4, ProxyFields DEF WalkOn, WalkInv
    <2>5. CASE proxy' = proxy
      BY <1>1, <2>1, <2>5
    <2> QED
      BY <1>4, <2>4, <2>5, WalkGoesOn
  <1>5. CASE ps_netif_deactivate \/ AtRequest \/ AtLock \/ AtSend
    BY <1>5 DEF ps_netif_deactivate, AtRequest, AtLock, AtSend, Idle, WalkInv
  <1>6. CASE AddUp \/ AddDown \/ DelUp \/ DelDown
    BY <1>6 DEF AddUp, AddDown, DelUp, DelDown, netif_mgmt_add_event_callback, netif_mgmt_del_event_callback,
                MgmtMutexFree, WalkInv
  <1>7. CASE (\E msg \in Msgs : PsEvent(msg)) \/ PsSend
    BY <1>1, <1>7 DEF PsEvent, PsSend
  <1>8. CASE (\E cid \in Cids : send_packet_to_user(cid)) \/ RxTask
    BY <1>1, <1>8 DEF send_packet_to_user, RxTask, send_packet_to_ping, PutPing, resume_net_app_by_dl_pkt,
                      RxLock, RxSend, send_ps_packet_to_tcpip
  <1>9. CASE \/ \E num \in PingNums : start_ping(num)
             \/ ParseHost \/ init_ping_ipv4 \/ TakePackets \/ PingLoop \/ TestOos \/ WaitOos \/ SendPing
             \/ RecvPing \/ NextPing \/ Drain \/ DeleteQueue \/ EndPing \/ stop_ping \/ Oos
    BY <1>1, <1>9 DEF start_ping, ParseHost, init_ping_ipv4, TakePackets, PingLoop, TestOos, WaitOos, SendPing,
                      RecvPing, NextPing, Drain, DeleteQueue, EndPing, stop_ping, Oos
  <1>10. CASE UNCHANGED vars
    BY <1>1, <1>10 DEF vars
  <1> QED
    BY <1>2, <1>3, <1>4, <1>5, <1>6, <1>7, <1>8, <1>9, <1>10 DEF Next, ProxyTask, PingTask

\* A walk that is on the list, whose callbacks are allocated while they are listed, does not
\* fail at the test of netif_mgmt_status_callback_proc.
LEMMA AliveStep ==
  ASSUME TypeOK, ListInv, WalkInv, CallbacksAlive, [Next]_vars
  PROVE  CallbacksAlive'
  <1>1. CASE netif_mgmt_status_callback_proc
    <2>1. proxy.cur \in Range(list) /\ proxy.cur \notin PingCallbacks \ alive
      BY <1>1 DEF netif_mgmt_status_callback_proc, WalkInv, ListInv
    <2> QED
      BY <1>1, <2>1 DEF netif_mgmt_status_callback_proc, Fine, CallbacksAlive
  <1>2. CASE ~netif_mgmt_status_callback_proc
    <2>1. CASE xy_proxy_ctl
      BY <2>1, ProxyHandles DEF insert_one_netif, Deactivate, Fail, Fine, CallbacksAlive
    <2>2. CASE PutPing \/ send_ps_packet_to_tcpip \/ \E cid \in Cids : send_packet_to_user(cid)
      BY <2>2 DEF PutPing, send_ps_packet_to_tcpip, send_packet_to_user, Fail, Fine, CallbacksAlive
    <2>3. CASE UNCHANGED fault
      BY <2>3 DEF CallbacksAlive
    <2>4. CASE (\E msg \in Msgs : PsEvent(msg)) \/ PsSend \/ (ProxyTask /\ ~xy_proxy_ctl)
      BY <1>2, <2>3, <2>4 DEF PsEvent, PsSend, ProxyTask, ps_netif_activate, NetifDown, ps_netif_deactivate,
                              AtRequest, AtLock, AtSend
    <2>5. CASE \/ send_packet_to_ping \/ RxLock \/ RxSend
               \/ \E ofCdp \in BOOLEAN : resume_net_app_by_dl_pkt(ofCdp)
      BY <2>3, <2>5 DEF send_packet_to_ping, RxLock, RxSend, resume_net_app_by_dl_pkt
    <2>6. CASE (\E num \in PingNums : start_ping(num)) \/ PingTask \/ stop_ping \/ Oos \/ UNCHANGED vars
      BY <2>3, <2>6 DEF start_ping, PingTask, AddUp, AddDown, ParseHost, init_ping_ipv4, TakePackets, PingLoop,
           TestOos, WaitOos, SendPing, RecvPing, NextPing, DelUp, DelDown, Drain, DeleteQueue, EndPing, stop_ping, Oos, vars
    <2> QED
      BY <2>1, <2>2, <2>4, <2>5, <2>6 DEF Next, RxTask
  <1> QED
    BY <1>1, <1>2

\* The invariant of the list and of the packets holds at the start.
LEMMA PingInit ==
  ASSUME Init
  PROVE  TypeOK /\ PacketsInv /\ ListInv /\ WalkInv /\ CallbacksAlive
  <1> USE DEF Init
  <1>1. FlagsOK
    BY FlaggedAssumption DEF FlagsOK
  <1>2. ps_if \in [Ifs -> Entries]
    BY DEF NoEntry, Entries
  <1>3. list \in Seq(Callbacks) /\ Range(list) \cap PingCallbacks = {} /\ \A j, k \in 1 .. Len(list) : list[j] = list[k] => j = k
    <2>1. CASE list = << >>
      BY <2>1 DEF Range
    <2>2. CASE list = <<"dm_up", "dm_down">>
      BY <2>2 DEF Range, Callbacks, PingCallbacks
    <2> QED
      BY <2>1, <2>2
  <1>4. TypeOK
    BY <1>1, <1>2, <1>3, LenAssumption DEF TypeOK, ProxyOK, RxOK, Idle, PingPcs
  <1>5. ListInv
    BY <1>3 DEF ListInv, UpListed, DownListed, WithQueue
  <1> QED
    BY <1>4, <1>5 DEF PacketsInv, WalkInv, CallbacksAlive, Idle, WithQueue

-----------------------------------------------------------------------------
\* A message more at the end of the queue.
LEMMA PathExtended ==
  ASSUME NEW q \in Seq(Msgs), NEW m \in Msgs, NEW A, NEW B, NEW C \in SUBSET Cids,
         Path(q, A, B), Effect(B, m, C)
  PROVE  Path(Append(q, m), A, C)
  <1>1. PICK st \in [0 .. Len(q) -> SUBSET Cids] :
            /\ st[0] = A
            /\ st[Len(q)] = B
            /\ \A k \in 1 .. Len(q) : Effect(st[k - 1], q[k], st[k])
    BY DEF Path
  <1> DEFINE n == Len(q)
             r == Append(q, m)
             t == [k \in 0 .. (n + 1) |-> IF k <= n THEN st[k] ELSE C]
  <1>2. n \in Nat /\ Len(r) = n + 1 /\ r[n + 1] = m /\ \A k \in 1 .. n : r[k] = q[k]
    OBVIOUS
  <1>3. st \in [0 .. n -> SUBSET Cids]
    OBVIOUS
  <1>4. st[0] = A /\ st[n] = B /\ \A k \in 1 .. n : Effect(st[k - 1], q[k], st[k])
    BY <1>1
  <1> HIDE DEF n, r
  <1>5. t \in [0 .. (n + 1) -> SUBSET Cids]
    BY <1>2, <1>3
  <1>6. /\ \A k \in 0 .. n : t[k] = st[k]
        /\ t[n + 1] = C
    BY <1>2
  <1> HIDE DEF t
  <1>7. ASSUME NEW k \in 1 .. (n + 1) PROVE Effect(t[k - 1], r[k], t[k])
    <2>1. CASE k \in 1 .. n
      <3>1. t[k - 1] = st[k - 1] /\ t[k] = st[k] /\ r[k] = q[k]
        BY <1>2, <1>6, <2>1
      <3> QED
        BY <1>4, <2>1, <3>1
    <2>2. CASE k = n + 1
      <3>1. t[k - 1] = B /\ t[k] = C /\ r[k] = m
        BY <1>2, <1>4, <1>6, <2>2
      <3> QED
        BY <3>1
    <2> QED
      BY <1>2, <2>1, <2>2
  <1>8. t[0] = A /\ t[Len(r)] = C
    BY <1>2, <1>4, <1>6
  <1>9. Path(r, A, C)
    BY <1>2, <1>5, <1>7, <1>8 DEF Path
  <1> QED
    BY <1>9 DEF r

\* The first message taken from the queue.
LEMMA PathTaken ==
  ASSUME NEW q \in Seq(Msgs), q # << >>, NEW A, NEW C, Path(q, A, C)
  PROVE  \E B \in SUBSET Cids : Effect(A, Head(q), B) /\ Path(Tail(q), B, C)
  <1>1. PICK st \in [0 .. Len(q) -> SUBSET Cids] :
            /\ st[0] = A
            /\ st[Len(q)] = C
            /\ \A k \in 1 .. Len(q) : Effect(st[k - 1], q[k], st[k])
    BY DEF Path
  <1> DEFINE n == Len(q)
             r == Tail(q)
             t == [k \in 0 .. (n - 1) |-> st[k + 1]]
  <1>2. n \in Nat /\ n >= 1 /\ Len(r) = n - 1 /\ Head(q) = q[1] /\ \A k \in 1 .. (n - 1) : r[k] = q[k + 1]
    OBVIOUS
  <1>3. st \in [0 .. n -> SUBSET Cids]
    OBVIOUS
  <1>4. st[0] = A /\ st[n] = C /\ \A k \in 1 .. n : Effect(st[k - 1], q[k], st[k])
    BY <1>1
  <1> HIDE DEF n, r
  <1>5. t \in [0 .. (n - 1) -> SUBSET Cids]
    BY <1>2, <1>3
  <1>6. \A k \in 0 .. (n - 1) : t[k] = st[k + 1]
    OBVIOUS
  <1> HIDE DEF t
  <1>7. ASSUME NEW k \in 1 .. (n - 1) PROVE Effect(t[k - 1], r[k], t[k])
    <2>1. k + 1 \in 1 .. n /\ (k + 1) - 1 = k /\ k - 1 \in 0 .. (n - 1) /\ (k - 1) + 1 = k /\ k \in 0 .. (n - 1)
      BY <1>2
    <2>2. Effect(st[k], q[k + 1], st[k + 1])
      BY <1>4, <2>1
    <2>3. t[k - 1] = st[k] /\ t[k] = st[k + 1] /\ r[k] = q[k + 1]
      BY <1>2, <1>6, <2>1
    <2> QED
      BY <2>2, <2>3
  <1>8. t[0] = st[1] /\ t[Len(r)] = C /\ st[1] \in SUBSET Cids
    BY <1>2, <1>3, <1>4, <1>6
  <1>9. Path(r, st[1], C)
    BY <1>2, <1>5, <1>7, <1>8 DEF Path
  <1>10. Effect(A, Head(q), st[1])
    <2>1. 1 \in 1 .. n /\ 1 - 1 = 0
      BY <1>2
    <2> QED
      BY <1>2, <1>4, <2>1
  <1> QED
    BY <1>8, <1>9, <1>10 DEF r

\* Messages that are not about contexts lead nowhere.
LEMMA PathQuiet ==
  ASSUME NEW q \in Seq(Msgs), NEW A, NEW B, Path(q, A, B),
         \A k \in 1 .. Len(q) : q[k].id \notin {"PDP_ACT", "PDP_DEACT"}
  PROVE  A = B
  <1>1. PICK st \in [0 .. Len(q) -> SUBSET Cids] :
            /\ st[0] = A
            /\ st[Len(q)] = B
            /\ \A k \in 1 .. Len(q) : Effect(st[k - 1], q[k], st[k])
    BY DEF Path
  <1>2. \A k \in 1 .. Len(q) : st[k] = st[k - 1]
    BY <1>1 DEF Effect
  <1> DEFINE T == {k \in 0 .. Len(q) : st[k] # A}
  <1>3. Len(q) \in Nat
    OBVIOUS
  <1>4. SUFFICES ASSUME A # B PROVE FALSE
    OBVIOUS
  <1>5. T \subseteq Nat /\ T # {}
    BY <1>1, <1>3, <1>4
  <1>6. PICK k \in T : \A j \in T : k <= j
    BY <1>5, LeastNumber
  <1>7. k \in 1 .. Len(q)
    BY <1>1, <1>3, <1>6
  <1>8. k - 1 \in 0 .. Len(q) /\ k - 1 \notin T
    BY <1>3, <1>6, <1>7
  <1>9. st[k - 1] = A
    BY <1>8
  <1> QED
    BY <1>2, <1>6, <1>7, <1>9

-----------------------------------------------------------------------------
\* A table with a place for every context has one for a context that is not in it.
LEMMA VacantPlace ==
  ASSUME TypeOK, PlacesInv, NEW cid \in Cids, \A i \in Ifs : ~(ps_if[i].cid = cid /\ Live(i))
  PROVE  Vacant # {}
  <1> SUFFICES ASSUME Vacant = {} PROVE FALSE
    OBVIOUS
  <1> DEFINE f == [i \in Ifs |-> ps_if[i].cid]
             T == Cids \ {cid}
  <1>1. \A i \in Ifs : ps_if[i].cid \in Cids
    BY DEF Vacant, Live, PlacesInv
  <1>2. f \in [Ifs -> T]
    BY <1>1 DEF Vacant, Live
  <1>3. \A i, j \in Ifs : f[i] = f[j] => i = j
    BY DEF Vacant, Live, PlacesInv
  <1>4. f \in Injection(Ifs, T)
    BY <1>2, <1>3 DEF Injection, IsInjective
  <1>5. IsFiniteSet(T) /\ Cardinality(T) = Cardinality(Cids) - 1
    BY CidAssumption, FS_RemoveElement
  <1>6. Cardinality(Ifs) <= Cardinality(T)
    <2> HIDE DEF f, T
    <2> QED
      BY <1>4, <1>5, FS_Injection
  <1>7. Cardinality(Ifs) = CidMax
    BY FS_Interval, CidMaxAssumption DEF Ifs
  <1>8. Cardinality(Cids) \in Nat
    BY CidAssumption, FS_CardinalityType
  <1> QED
    BY <1>5, <1>6, <1>7, <1>8, CidAssumption, CidMaxAssumption

\* The steps of the other tasks do not touch the table, its proxy and the queue.
LEMMA OthersSpareTable ==
  ASSUME \/ \E cid \in Cids : send_packet_to_user(cid)
         \/ send_packet_to_ping \/ PutPing \/ send_ps_packet_to_tcpip
         \/ \E ofCdp \in BOOLEAN : resume_net_app_by_dl_pkt(ofCdp)
         \/ \E num \in PingNums : start_ping(num)
         \/ PingTask \/ stop_ping \/ Oos \/ UNCHANGED vars
  PROVE  UNCHANGED <<pdp, ps, proxyq, pm, ps_if, proxy, missed>> /\ (NoAssert => NoAssert')
  <1>1. CASE \/ \E cid \in Cids : send_packet_to_user(cid)
             \/ send_packet_to_ping \/ PutPing \/ send_ps_packet_to_tcpip
             \/ \E ofCdp \in BOOLEAN : resume_net_app_by_dl_pkt(ofCdp)
    BY <1>1 DEF send_packet_to_user, send_packet_to_ping, PutPing, send_ps_packet_to_tcpip,
                resume_net_app_by_dl_pkt, Fail, Fine, ifvars, NoAssert
  <1>2. CASE (\E num \in PingNums : start_ping(num)) \/ stop_ping \/ Oos \/ UNCHANGED vars
    BY <1>2 DEF start_ping, stop_ping, Oos, vars, ifvars, NoAssert
  <1>3. CASE PingTask
    BY <1>3 DEF PingTask, AddUp, AddDown, ParseHost, init_ping_ipv4, TakePackets, PingLoop, TestOos, WaitOos,
                SendPing, RecvPing, NextPing, DelUp, DelDown, Drain, DeleteQueue, EndPing, ifvars, NoAssert
  <1> QED
    BY <1>1, <1>2, <1>3

\* xy_proxy_mutex is the protocol stack's exactly while it sends.
LEMMA MutexStep ==
  ASSUME TypeOK, MutexInv, [Next]_vars
  PROVE  MutexInv'
  <1>1. CASE UNCHANGED <<ps, pm>>
    BY <1>1 DEF MutexInv
  <1>2. CASE (\E msg \in Msgs : PsEvent(msg)) \/ PsSend
    <2>1. (ps' = Idle /\ pm' = "free") \/ (ps'.pc = "send" /\ pm' = "ps")
      <3>1. CASE PsSend
        BY <3>1 DEF PsSend, send_msg_2_proxy
      <3>2. ASSUME NEW msg \in Msgs, PsEvent(msg) PROVE ps' = [pc |-> "send", msg |-> msg] /\ pm' = "ps"
        BY <3>2 DEF PsEvent, TakeProxyMutex
      <3> QED
        BY <1>2, <3>1, <3>2
    <2> QED
      BY <2>1 DEF MutexInv, Idle
  <1>3. CASE AtLock \/ AtSend \/ RxLock \/ RxSend
    <2>1. ps' = ps /\ pm # "ps" /\ pm' # "ps"
      BY <1>3 DEF AtLock, AtSend, RxLock, RxSend, TakeProxyMutex, send_msg_2_proxy
    <2> QED
      BY <2>1 DEF MutexInv
  <1>4. CASE xy_proxy_ctl \/ ps_netif_activate \/ NetifDown \/ ps_netif_deactivate \/ netif_mgmt_status_callback_proc \/ AtRequest
    BY <1>1, <1>4 DEF xy_proxy_ctl, ps_netif_activate, NetifDown, ps_netif_deactivate,
                      netif_mgmt_status_callback_proc, AtRequest, ifvars
  <1> QED
    BY <1>1, <1>2, <1>3, <1>4, OthersSpareTable DEF Next, ProxyTask, RxTask

\* The table keeps the same contexts when no place changes its context and none starts or
\* stops being removed, except a place that is removed and cleared.
LEMMA HeldKept ==
  ASSUME \A i \in Ifs, cid \in Cids :
            (ps_if'[i].cid = cid /\ Live(i)' /\ ~Removing(i)') <=> (ps_if[i].cid = cid /\ Live(i) /\ ~Removing(i))
  PROVE  Held' = Held
  BY DEF Held

\* The steps of the proxy that handle no message change no context that the table keeps.
Unmoved ==
    \/ ps_netif_activate \/ NetifDown \/ ps_netif_deactivate
    \/ netif_mgmt_status_callback_proc
    \/ AtRequest \/ AtLock \/ AtSend

\* The flags of one netif change and nothing else does.
LEMMA EthWritten ==
  ASSUME NEW f \in [Ifs -> Entries], NEW k \in Ifs, NEW v, NEW g, g = [f EXCEPT ![k].ps_eth = v]
  PROVE  \A i \in Ifs : g[i].cid = f[i].cid /\ g[i].ps_eth = IF i = k THEN v ELSE f[i].ps_eth
  <1> TAKE i \in Ifs
  <1>1. CASE i = k
    <2>1. g[i] = [f[i] EXCEPT !.ps_eth = v] /\ f[i] \in Entries
      BY <1>1
    <2> QED
      BY <1>1, <2>1 DEF Entries
  <1>2. CASE i # k
    BY <1>2
  <1> QED
    BY <1>1, <1>2

\* What ps_netif_activate, ps_netif_deactivate and the walks in between do to the table.
LEMMA UnmovedStep ==
  ASSUME TypeOK, PlacesInv, Unmoved
  PROVE  PlacesInv' /\ Held' = Held
  <1> USE DEF TypeOK
  <1>1. CASE ps_netif_activate
    <2>1. proxy.pc = "act" /\ proxy.i \in Ifs
      BY <1>1, ProxyFields DEF ps_netif_activate
    <2>2. \A i \in Ifs : ~Removing(i)
      BY <2>1 DEF Removing
    <2>3. ps_if' = [ps_if EXCEPT ![proxy.i].ps_eth = "up"]
      BY <1>1 DEF ps_netif_activate
    <2>4. \A i \in Ifs : /\ ps_if'[i].cid = ps_if[i].cid
                         /\ ps_if'[i].ps_eth = IF i = proxy.i THEN "up" ELSE ps_if[i].ps_eth
      BY <2>1, <2>3, EthWritten
    <2>5. proxy' = Walk(proxy.i, "UP")
      BY <1>1 DEF ps_netif_activate
    <2>6. proxy'.pc # "act" /\ \A i \in Ifs : ~Removing(i)'
      BY <2>1, <2>5, WalkStarts DEF Removing
    <2>7. PlacesInv'
      <3> USE DEF PlacesInv, Live
      <3>1. \A i \in Ifs : IF Live(i)' THEN ps_if'[i].cid \in Cids ELSE ps_if'[i].cid = 0
        BY <2>1, <2>2, <2>4, <2>6, NullAssumption
      <3>2. \A i, j \in Ifs : ps_if'[i].cid = ps_if'[j].cid /\ Live(i)' /\ Live(j)' => i = j
        BY <2>1, <2>2, <2>4, <2>6, NullAssumption
      <3>3. \A i \in Ifs : ps_if'[i].ps_eth # "new"
        BY <2>1, <2>2, <2>4, <2>6, NullAssumption
      <3>4. \A i \in Ifs : ps_if'[i].ps_eth = "down" => Removing(i)'
        BY <2>1, <2>2, <2>4, <2>6, NullAssumption
      <3>5. \A i \in Ifs : Removing(i)' => Live(i)'
        BY <2>1, <2>2, <2>4, <2>6, NullAssumption
      <3> QED
        BY <3>1, <3>2, <3>3, <3>4, <3>5, <2>6
    <2> QED
      BY <2>1, <2>2, <2>4, <2>6, <2>7, HeldKept, NullAssumption DEF PlacesInv, Live
  <1>2. CASE NetifDown
    <2>1. proxy.pc = "down" /\ proxy.i \in Ifs
      BY <1>2, ProxyFields DEF NetifDown
    <2>2. \A i \in Ifs : Removing(i) <=> i = proxy.i
      BY <2>1 DEF Removing
    <2>3. ps_if' = [ps_if EXCEPT ![proxy.i].ps_eth = "down"]
      BY <1>2 DEF NetifDown
    <2>4. \A i \in Ifs : /\ ps_if'[i].cid = ps_if[i].cid
                         /\ ps_if'[i].ps_eth = IF i = proxy.i THEN "down" ELSE ps_if[i].ps_eth
      BY <2>1, <2>3, EthWritten
    <2>5. proxy' = Walk(proxy.i, "DOWN")
      BY <1>2 DEF NetifDown
    <2>6. proxy'.pc # "act" /\ \A i \in Ifs : Removing(i)' <=> i = proxy.i
      BY <2>1, <2>5, WalkStarts DEF Removing
    <2>7. PlacesInv'
      <3> USE DEF PlacesInv, Live
      <3>1. \A i \in Ifs : IF Live(i)' THEN ps_if'[i].cid \in Cids ELSE ps_if'[i].cid = 0
        BY <2>1, <2>2, <2>4, <2>6, NullAssumption
      <3>2. \A i, j \in Ifs : ps_if'[i].cid = ps_if'[j].cid /\ Live(i)' /\ Live(j)' => i = j
        BY <2>1, <2>2, <2>4, <2>6, NullAssumption
      <3>3. \A i \in Ifs : ps_if'[i].ps_eth # "new"
        BY <2>1, <2>2, <2>4, <2>6, NullAssumption
      <3>4. \A i \in Ifs : ps_if'[i].ps_eth = "down" => Removing(i)'
        BY <2>1, <2>2, <2>4, <2>6, NullAssumption
      <3>5. \A i \in Ifs : Removing(i)' => Live(i)'
        BY <2>1, <2>2, <2>4, <2>6, NullAssumption
      <3> QED
        BY <3>1, <3>2, <3>3, <3>4, <3>5, <2>6
    <2> QED
      BY <2>1, <2>2, <2>4, <2>6, <2>7, HeldKept, NullAssumption DEF PlacesInv, Live
  <1>3. CASE ps_netif_deactivate
    <2>1. proxy.pc = "deact" /\ proxy.i \in Ifs
      BY <1>3, ProxyFields DEF ps_netif_deactivate
    <2>2. \A i \in Ifs : Removing(i) <=> i = proxy.i
      BY <2>1 DEF Removing
    <2>3. \A i \in Ifs : ps_if'[i] = IF i = proxy.i THEN NoEntry ELSE ps_if[i]
      BY <1>3 DEF ps_netif_deactivate, EntryCleared
    <2>4. proxy'.pc # "act" /\ \A i \in Ifs : ~Removing(i)'
      BY <1>3 DEF ps_netif_deactivate, Idle, Removing
    <2>5. PlacesInv'
      <3> USE DEF PlacesInv, Live, NoEntry
      <3>1. \A i \in Ifs : IF Live(i)' THEN ps_if'[i].cid \in Cids ELSE ps_if'[i].cid = 0
        BY <2>1, <2>2, <2>3, <2>4, NullAssumption
      <3>2. \A i, j \in Ifs : ps_if'[i].cid = ps_if'[j].cid /\ Live(i)' /\ Live(j)' => i = j
        BY <2>1, <2>2, <2>3, <2>4, NullAssumption
      <3>3. \A i \in Ifs : ps_if'[i].ps_eth # "new"
        BY <2>1, <2>2, <2>3, <2>4, NullAssumption
      <3>4. \A i \in Ifs : ps_if'[i].ps_eth = "down" => Removing(i)'
        BY <2>1, <2>2, <2>3, <2>4, NullAssumption
      <3>5. \A i \in Ifs : Removing(i)' => Live(i)'
        BY <2>1, <2>2, <2>3, <2>4, NullAssumption
      <3> QED
        BY <3>1, <3>2, <3>3, <3>4, <3>5, <2>4
    <2> QED
      BY <2>2, <2>3, <2>4, <2>5, HeldKept, NullAssumption DEF NoEntry, Live
  <1>4. ASSUME ps_if' = ps_if, \A i \in Ifs : Removing(i)' <=> Removing(i), proxy.pc # "act", proxy'.pc # "act"
        PROVE  PlacesInv' /\ Held' = Held
    BY <1>4, HeldKept DEF PlacesInv, Live
  <1>5. CASE netif_mgmt_status_callback_proc
    <2>1. proxy.pc = "walk" /\ ps_if' = ps_if
      BY <1>5 DEF netif_mgmt_status_callback_proc, ifvars
    <2>2. CASE WalkOn
      <3>1. proxy'.pc # "act" /\ \A i \in Ifs : Removing(i)' <=> Removing(i)
        BY <2>1, <2>2, ProxyFields DEF WalkOn, Removing
      <3> QED
        BY <1>4, <2>1, <3>1
    <2>3. CASE proxy' = proxy
      BY <1>4, <2>1, <2>3 DEF Removing
    <2> QED
      BY <1>5, <2>2, <2>3, WalkGoesOn
  <1>6. CASE AtRequest \/ AtLock \/ AtSend
    <2>1. ps_if' = ps_if /\ proxy.pc # "act" /\ proxy'.pc # "act" /\ \A i \in Ifs : ~Removing(i)' /\ ~Removing(i)
      BY <1>6 DEF AtRequest, AtLock, AtSend, Idle, Removing
    <2> QED
      BY <1>4, <2>1
  <1> QED
    BY <1>1, <1>2, <1>3, <1>5, <1>6 DEF Unmoved

\* Handling a message makes of the contexts of the table what the message says, and no
\* assertion of insert_one_netif or of del_one_netif fails on the way, unless the deactivation
\* meets a vacant entry.
LEMMA HandledStep ==
  ASSUME TypeOK, PlacesInv, ~missed', xy_proxy_ctl, NEW B, Effect(Held, Head(proxyq), B)
  PROVE  PlacesInv' /\ Held' = B /\ (NoAssert => NoAssert')
  <1> DEFINE m == Head(proxyq)
  <1>1. proxy.pc = "idle" /\ \A i \in Ifs : ~Removing(i)
    BY DEF xy_proxy_ctl, Removing
  <1>2. Held = {cid \in Cids : \E i \in Ifs : ps_if[i].cid = cid /\ Live(i)}
    BY <1>1 DEF Held
  <1>3. \A i \in Ifs : ps_if[i].ps_eth \notin {"new", "down"}
    BY <1>1 DEF PlacesInv
  <1>4. \A i, j \in Ifs : ps_if[i].cid = ps_if[j].cid /\ Live(i) /\ Live(j) => i = j
    BY DEF PlacesInv
  <1>5. \A i \in Ifs : IF Live(i) THEN ps_if[i].cid \in Cids ELSE ps_if[i].cid = 0
    BY DEF PlacesInv
  <1>6. CASE m.id = "PDP_ACT"
    <2>1. m.cid \in Cids /\ insert_one_netif(m.cid)
      BY <1>6, ProxyHandles
    <2>2. m.cid \notin Held /\ B = Held \cup {m.cid}
      BY <1>6 DEF Effect
    <2> DEFINE c == m.cid
    <2> HIDE DEF m
    <2>3. \A i \in Ifs : ~(ps_if[i].cid = c /\ Live(i))
      BY <1>2, <2>1, <2>2
    <2>4. Vacant # {}
      BY <2>1, <2>3, VacantPlace
    <2>5. Inserts(c)
      BY <2>3, <2>4 DEF Inserts, Live
    <2>6. PICK v \in Ifs : /\ ps_if[v].ps_eth = NULL
                           /\ ps_if' = [ps_if EXCEPT ![v] = [cid |-> c, ps_eth |-> "new"]]
                           /\ proxy' = [pc |-> "act", i |-> v]
                           /\ fault' = "none"
      <3>1. First(Vacant) \in Ifs /\ ps_if[First(Vacant)].ps_eth = NULL
        BY <2>4, PlacesFound DEF Vacant
      <3>2. /\ ps_if' = [ps_if EXCEPT ![First(Vacant)] = [cid |-> c, ps_eth |-> "new"]]
            /\ proxy' = [pc |-> "act", i |-> First(Vacant)]
            /\ fault' = "none"
        BY <2>1, <2>5 DEF insert_one_netif, Fine
      <3> QED
        BY <3>1, <3>2
    <2>7. \A i \in Ifs : ps_if'[i] = IF i = v THEN [cid |-> c, ps_eth |-> "new"] ELSE ps_if[i]
      BY <2>6 DEF TypeOK
    <2>8. \A i \in Ifs : ps_if'[i].cid = (IF i = v THEN c ELSE ps_if[i].cid)
                         /\ ps_if'[i].ps_eth = (IF i = v THEN "new" ELSE ps_if[i].ps_eth)
      BY <2>7
    <2>9. proxy'.pc = "act" /\ proxy'.i = v /\ \A i \in Ifs : ~Removing(i)'
      BY <2>6 DEF Removing
    <2>10. c \in Cids /\ \A i \in Ifs : Live(i)' <=> i = v \/ Live(i)
      BY <2>1, <2>8, NullAssumption DEF Live
    <2> HIDE DEF c
    <2>11. PlacesInv'
      <3>1. \A i \in Ifs : IF Live(i)' THEN ps_if'[i].cid \in Cids ELSE ps_if'[i].cid = 0
        BY <1>5, <2>8, <2>10
      <3>2. \A i, j \in Ifs : ps_if'[i].cid = ps_if'[j].cid /\ Live(i)' /\ Live(j)' => i = j
        BY <1>4, <2>3, <2>8, <2>10
      <3>3. \A i \in Ifs : ps_if'[i].ps_eth = "new" => i = v
        BY <1>3, <2>8
      <3>4. \A i \in Ifs : ps_if'[i].ps_eth # "down"
        BY <1>3, <2>8
      <3>5. Live(v)'
        BY <2>10
      <3> QED
        BY <2>9, <3>1, <3>2, <3>3, <3>4, <3>5 DEF PlacesInv
    <2>12. Held' = {cid \in Cids : \E i \in Ifs : ps_if'[i].cid = cid /\ Live(i)'}
      BY <2>9 DEF Held
    <2>13. ~Live(v)
      BY <2>6 DEF Live
    <2>14. Held' = B
      <3>1. \A cid \in Cids : (\E i \in Ifs : ps_if'[i].cid = cid /\ Live(i)')
                                <=> (cid = c \/ \E i \in Ifs : ps_if[i].cid = cid /\ Live(i))
        BY <2>8, <2>10, <2>13
      <3>2. B = Held \cup {c} /\ c \in Cids
        BY <2>1, <2>2 DEF c
      <3> QED
        BY <1>2, <2>12, <3>1, <3>2
    <2> QED
      BY <2>6, <2>11, <2>14 DEF NoAssert
  <1>7. CASE m.id = "PDP_DEACT"
    <2>1. m.cid \in Cids /\ Deactivate(m.cid)
      BY <1>7, ProxyHandles
    <2>2. m.cid \in Held /\ B = Held \ {m.cid}
      BY <1>7 DEF Effect
    <2> DEFINE c == m.cid
    <2> HIDE DEF m
    <2>3. Holding(c) # {}
      BY <1>2, <2>2 DEF Holding
    <2>4. ~FoundVacant(c)
      BY <2>1, <2>3 DEF Deactivate
    <2>5. ps_if' = ps_if /\ fault' = "none" /\ proxy' = [pc |-> "down", i |-> find_netif_by_cid(c)]
      BY <2>1, <2>3, <2>4 DEF Deactivate, Fine
    <2>6. PICK v \in Ifs : ps_if[v].cid = c /\ Live(v) /\ proxy' = [pc |-> "down", i |-> v]
      BY <2>3, <2>4, <2>5, PlacesFound DEF Holding, FoundVacant, Live
    <2>7. proxy'.pc = "down" /\ \A i \in Ifs : (Removing(i)' <=> i = v) /\ (Live(i)' <=> Live(i))
      BY <2>5, <2>6 DEF Removing, Live
    <2> HIDE DEF c
    <2>8. PlacesInv'
      BY <1>3, <1>4, <1>5, <2>5, <2>6, <2>7 DEF PlacesInv
    <2>9. \A cid \in Cids : (\E i \in Ifs : ps_if'[i].cid = cid /\ Live(i)' /\ ~Removing(i)')
                              <=> (cid # c /\ \E i \in Ifs : ps_if[i].cid = cid /\ Live(i))
      BY <1>4, <2>5, <2>6, <2>7
    <2>10. B = Held \ {c}
      BY <2>2 DEF c
    <2>11. Held' = B
      BY <1>2, <2>9, <2>10 DEF Held
    <2> QED
      BY <2>5, <2>8, <2>11 DEF NoAssert
  <1>8. CASE m.id \in {"AT", "CDP"}
    <2>1. UNCHANGED <<ps_if, missed, fault>> /\ proxy' \in {proxy, Idle, [pc |-> "at"]}
      BY <1>8, ProxyHandles
    <2>2. B = Held
      BY <1>8 DEF Effect
    <2>3. proxy'.pc # "act" /\ \A i \in Ifs : ~Removing(i)'
      BY <1>1, <2>1 DEF Idle, Removing
    <2>4. PlacesInv'
      BY <1>1, <1>3, <2>1, <2>3 DEF PlacesInv, Live
    <2>5. Held' = Held
      BY <1>1, <2>1, <2>3, HeldKept DEF Live
    <2> QED
      BY <2>1, <2>2, <2>4, <2>5 DEF NoAssert
  <1> QED
    BY <1>6, <1>7, <1>8, ProxyHandles

\* Every message that the protocol stack announces is on its way from the announcement to its
\* handling, so that the table is always as far behind the protocol stack as the queue is long.
LEMMA TableStep ==
  ASSUME TypeOK, TypeOK', MutexInv, PlacesInv, QueueInv, NoAssert, ~missed', [Next]_vars
  PROVE  PlacesInv' /\ QueueInv' /\ NoAssert'
  <1>1. Underway \in Seq(Msgs)
    BY DEF Underway, TypeOK, Idle
  <1>2. ASSUME ps_if' = ps_if, proxy' = proxy
        PROVE  PlacesInv' /\ Held' = Held
    <2>1. \A i \in Ifs : Removing(i)' <=> Removing(i)
      BY <1>2 DEF Removing
    <2> QED
      BY <1>2, <2>1, HeldKept DEF PlacesInv, Live
  <1>3. ASSUME Held' = Held, Underway' = Underway, pdp' = pdp PROVE QueueInv'
    BY <1>3 DEF QueueInv
  <1>4. ASSUME NEW m \in Msgs, Held' = Held, Underway' = Append(Underway, m), Effect(pdp, m, pdp')
        PROVE  QueueInv'
    <2>1. pdp' \in SUBSET Cids
      BY DEF TypeOK
    <2>2. Path(Append(Underway, m), Held, pdp')
      BY <1>1, <1>4, <2>1, PathExtended DEF QueueInv
    <2> QED
      BY <1>4, <2>2 DEF QueueInv
  <1>5. ASSUME NEW msg \in Msgs, PsEvent(msg) PROVE PlacesInv' /\ QueueInv' /\ NoAssert'
    <2>1. ps_if' = ps_if /\ proxy' = proxy /\ fault' = fault
      BY <1>5 DEF PsEvent
    <2>2. Effect(pdp, msg, pdp')
      <3>1. msg.id \in {"PDP_ACT", "PDP_DEACT", "AT", "CDP"}
        BY DEF Msgs
      <3> QED
        BY <1>5, <3>1 DEF PsEvent, Effect
    <2>3. Underway' = Append(Underway, msg)
      BY <1>5 DEF PsEvent, Underway, Idle
    <2> QED
      BY <1>2, <1>4, <2>1, <2>2, <2>3 DEF NoAssert
  <1>6. CASE PsSend
    <2>1. ps_if' = ps_if /\ proxy' = proxy /\ fault' = fault /\ pdp' = pdp
      BY <1>6 DEF PsSend
    <2>2. Underway' = Underway
      BY <1>6 DEF PsSend, send_msg_2_proxy, Underway, Idle
    <2> QED
      BY <1>2, <1>3, <2>1, <2>2 DEF NoAssert
  <1>7. CASE xy_proxy_ctl
    <2>1. proxyq \in Seq(Msgs) /\ proxyq # << >> /\ UNCHANGED <<ps, pdp>> /\ proxyq' = Tail(proxyq)
      BY <1>7 DEF xy_proxy_ctl, TypeOK
    <2>2. Underway # << >> /\ Head(Underway) = Head(proxyq) /\ Underway' = Tail(Underway)
      <3>1. CASE ps.pc = "send"
        <4>1. ps.msg \in Msgs
          BY <3>1 DEF TypeOK, Idle
        <4>2. Underway = Append(proxyq, ps.msg) /\ Underway' = Append(Tail(proxyq), ps.msg)
          BY <2>1, <3>1 DEF Underway
        <4>3. Append(proxyq, ps.msg) # << >> /\ Head(Append(proxyq, ps.msg)) = Head(proxyq)
          BY <2>1, <4>1
        <4>4. Tail(Append(proxyq, ps.msg)) = Append(Tail(proxyq), ps.msg)
          BY <2>1, <4>1
        <4> QED
          BY <4>2, <4>3, <4>4
      <3>2. CASE ps.pc # "send"
        BY <2>1, <3>2 DEF Underway
      <3> QED
        BY <3>1, <3>2
    <2>3. PICK B \in SUBSET Cids : Effect(Held, Head(proxyq), B) /\ Path(Tail(Underway), B, pdp)
      BY <1>1, <2>2, PathTaken DEF QueueInv
    <2>4. PlacesInv' /\ Held' = B /\ NoAssert'
      BY <1>7, <2>3, HandledStep
    <2> QED
      BY <2>1, <2>2, <2>3, <2>4 DEF QueueInv
  <1>8. CASE Unmoved
    <2>1. PlacesInv' /\ Held' = Held
      BY <1>8, UnmovedStep
    <2>2. NoAssert'
      BY <1>8 DEF Unmoved, ps_netif_activate, NetifDown, ps_netif_deactivate, netif_mgmt_status_callback_proc,
                  AtRequest, AtLock, AtSend, Fail, Fine, NoAssert
    <2>3. CASE ~AtSend
      <3>1. UNCHANGED <<ps, proxyq, pdp>>
        BY <1>8, <2>3 DEF Unmoved, ps_netif_activate, NetifDown, ps_netif_deactivate,
                          netif_mgmt_status_callback_proc, AtRequest, AtLock, ifvars
      <3> QED
        BY <1>3, <2>1, <2>2, <3>1 DEF Underway
    <2>4. CASE AtSend
      <3>1. pm = "proxy" /\ UNCHANGED <<ps, pdp>> /\ proxyq' = Append(proxyq, [id |-> "CDP"])
        BY <2>4 DEF AtSend, send_msg_2_proxy
      <3>2. ps.pc # "send"
        BY <3>1 DEF MutexInv
      <3>3. Underway' = Append(Underway, [id |-> "CDP"])
        BY <3>1, <3>2 DEF Underway
      <3>4. [id |-> "CDP"] \in Msgs /\ Effect(pdp, [id |-> "CDP"], pdp')
        BY <3>1 DEF Msgs, Effect
      <3> QED
        BY <1>4, <2>1, <2>2, <3>3, <3>4
    <2> QED
      BY <2>3, <2>4
  <1>9. CASE RxLock
    <2>1. ps_if' = ps_if /\ proxy' = proxy /\ fault' = fault /\ pdp' = pdp /\ UNCHANGED <<ps, proxyq>>
      BY <1>9 DEF RxLock
    <2> QED
      BY <1>2, <1>3, <2>1 DEF NoAssert, Underway
  <1>10. CASE RxSend
    <2>1. ps_if' = ps_if /\ proxy' = proxy /\ fault' = fault
      BY <1>10 DEF RxSend
    <2>2. pm = "rx" /\ UNCHANGED <<ps, pdp>> /\ proxyq' = Append(proxyq, [id |-> "CDP"])
      BY <1>10 DEF RxSend, send_msg_2_proxy
    <2>3. ps.pc # "send"
      BY <2>2 DEF MutexInv
    <2>4. Underway' = Append(Underway, [id |-> "CDP"])
      BY <2>2, <2>3 DEF Underway
    <2>5. [id |-> "CDP"] \in Msgs /\ Effect(pdp, [id |-> "CDP"], pdp')
      BY <2>2 DEF Msgs, Effect
    <2> QED
      BY <1>2, <1>4, <2>1, <2>4, <2>5 DEF NoAssert
  <1>11. ASSUME UNCHANGED <<pdp, ps, proxyq, pm, ps_if, proxy, missed>> /\ (NoAssert => NoAssert')
         PROVE  PlacesInv' /\ QueueInv' /\ NoAssert'
    BY <1>2, <1>3, <1>11 DEF Underway
  <1> QED
    BY <1>5, <1>6, <1>7, <1>8, <1>9, <1>10, <1>11, OthersSpareTable DEF Next, ProxyTask, RxTask, Unmoved

\* A deactivation that has met a vacant entry is not forgotten, and was one of context 0: only
\* a place without an interface is taken for one of another context.
LEMMA MissedStep ==
  ASSUME TypeOK, [Next]_vars
  PROVE  /\ missed => missed'
         /\ PlacesInv /\ missed' /\ ~missed => 0 \in Cids
  <1>1. CASE xy_proxy_ctl
    <2> DEFINE c == Head(proxyq).cid
    <2>1. missed' = missed \/ (c \in Cids /\ FoundVacant(c) /\ missed')
      BY <1>1, ProxyHandles DEF Deactivate
    <2> HIDE DEF c
    <2>2. ASSUME PlacesInv, c \in Cids, FoundVacant(c) PROVE 0 \in Cids
      <3>1. find_netif_by_cid(c) \in Holding(c)
        BY <2>2, PlacesFound DEF FoundVacant
      <3> QED
        BY <2>2, <3>1 DEF FoundVacant, Holding, PlacesInv, Live
    <2> QED
      BY <2>1, <2>2
  <1>2. CASE missed' = missed
    BY <1>2
  <1>3. CASE (\E msg \in Msgs : PsEvent(msg)) \/ PsSend \/ Unmoved \/ RxLock \/ RxSend
    BY <1>2, <1>3 DEF PsEvent, PsSend, Unmoved, ps_netif_activate, NetifDown, ps_netif_deactivate,
                      netif_mgmt_status_callback_proc, AtRequest, AtLock, AtSend, RxLock, RxSend, ifvars
  <1> QED
    BY <1>1, <1>2, <1>3, OthersSpareTable DEF Next, ProxyTask, RxTask, Unmoved

-----------------------------------------------------------------------------
\* The start satisfies the invariant: nothing is on its way and the table is empty.
LEMMA NetifInit ==
  ASSUME Init
  PROVE  IInv
  <1>1. \A i \in Ifs : ~Removing(i) /\ ps_if[i] = NoEntry
    BY DEF Init, Idle, Removing
  <1>2. PlacesInv
    BY <1>1, NullAssumption DEF Init, Idle, NoEntry, PlacesInv, Live
  <1>3. Held = {} /\ Underway = << >> /\ pdp = {}
    BY <1>1, NullAssumption DEF Init, Idle, NoEntry, Held, Live, Underway
  <1>4. Path(<< >>, {}, {})
    <2> DEFINE st == [k \in 0 .. 0 |-> {}]
    <2>1. Len(<< >>) = 0
      OBVIOUS
    <2>2. st \in [0 .. 0 -> SUBSET Cids] /\ st[0] = {}
      OBVIOUS
    <2>3. 1 .. 0 = {}
      OBVIOUS
    <2> HIDE DEF st
    <2> QED
      BY <2>1, <2>2, <2>3 DEF Path
  <1> QED
    BY <1>2, <1>3, <1>4, PingInit DEF Init, Idle, MutexInv, QueueInv, NoAssert, TableInv, IInv

\* The invariant holds throughout: where the queues, the callbacks, the mutex and the places of
\* the table stand at every point of the four tasks.
LEMMA NetifInvariant == Spec => []IInv
  <1>1. IInv /\ [Next]_vars => IInv'
    <2> SUFFICES ASSUME IInv, [Next]_vars PROVE IInv'
      OBVIOUS
    <2>1. TypeOK' /\ PacketsInv' /\ ListInv' /\ WalkInv' /\ CallbacksAlive' /\ MutexInv'
      BY TypeStep, PacketsStep, ListStep, WalkStep, AliveStep, MutexStep DEF IInv
    <2>2. TableInv'
      BY <2>1, TableStep, MissedStep DEF IInv, TableInv
    <2> QED
      BY <2>1, <2>2 DEF IInv
  <1> QED
    BY <1>1, NetifInit, PTL DEF Spec

\* The proxy, the receiving thread, the ping task and the protocol stack keep every variable
\* in its type: the proxy's queue and ping's are never overfull, and what a place of a task
\* remembers is what that place uses.
THEOREM NetifTypeCorrect == Spec => []TypeOK
  <1>1. IInv => TypeOK
    BY DEF IInv
  <1> QED
    BY <1>1, NetifInvariant, PTL

\* However a ping ends, nothing of it is left: not its callbacks in the list of netif_mgmt.c,
\* not its queue, and not the flag that keeps packets from lwIP.
THEOREM NetifPingTidies == Spec => []PingTidies
  <1>1. IInv => PingTidies
    <2> SUFFICES ASSUME IInv, ping.pc = "none" PROVE ~now_in_ping /\ packets = NULL /\ alive = {} /\ Range(list) \cap PingCallbacks = {}
      BY DEF PingTidies
    <2>1. ~now_in_ping /\ packets = NULL
      BY DEF IInv, PacketsInv, WithoutQueue, BeforeTaking
    <2>2. alive = {}
      BY DEF IInv, ListInv, TypeOK, PingCallbacks, UpListed, DownListed, WithQueue
    <2>3. Range(list) \cap PingCallbacks = {}
      BY <2>2 DEF IInv, ListInv
    <2> QED
      BY <2>1, <2>2, <2>3
  <1> QED
    BY <1>1, NetifInvariant, PTL

\* The walk of netif_mgmt_status_callback_proc never meets a node that ping has removed or a
\* callback that ping has freed.
THEOREM NetifCallbacksAlive == Spec => []CallbacksAlive
  <1>1. IInv => CallbacksAlive
    BY DEF IInv
  <1> QED
    BY <1>1, NetifInvariant, PTL

\* Unless a deactivation of context 0 has met a vacant entry, no assertion of ps_netif_api.c
\* fails, whatever order contexts, requests and resumed sessions reach the proxy in, and a proxy
\* that has caught up has exactly the active contexts in its table.
THEOREM NetifTableFollowsPdp == Spec => []TableFollowsPdp
  <1>1. IInv => TableFollowsPdp
    <2> SUFFICES ASSUME IInv, ~missed, Pending = {}, ps = Idle, proxy.pc \in {"idle", "at", "lock", "put"}, NEW cid \in Cids
                 PROVE  /\ cid \in pdp <=> Listed(cid) # {}
                        /\ \A i, j \in Listed(cid) : i = j /\ ps_if[i].ps_eth = "up"
      BY DEF IInv, TableInv, TableFollowsPdp, NoAssert
    <2> USE DEF IInv, TableInv
    <2>1. Underway = proxyq /\ proxyq \in Seq(Msgs)
      BY DEF Underway, Idle, TypeOK
    <2>2. \A k \in 1 .. Len(proxyq) : proxyq[k].id \notin {"PDP_ACT", "PDP_DEACT"}
      BY DEF Pending
    <2>3. Held = pdp
      BY <2>1, <2>2, PathQuiet DEF QueueInv
    <2>4. \A i \in Ifs : ~Removing(i)
      BY DEF Removing
    <2>5. cid \in Held <=> Listed(cid) # {}
      BY <2>4 DEF Held, Listed, Live, Holding
    <2>6. ASSUME NEW i \in Listed(cid), NEW j \in Listed(cid)
          PROVE  i = j /\ ps_if[i].ps_eth = "up"
      <3>1. i \in Ifs /\ j \in Ifs /\ ps_if[i].cid = ps_if[j].cid /\ Live(i) /\ Live(j)
        BY DEF Listed, Holding, Live
      <3>2. ps_if[i].ps_eth \in {"new", "up", "down"}
        BY <3>1 DEF TypeOK, Entries, Live
      <3>3. ps_if[i].ps_eth \notin {"new", "down"}
        BY <2>4, <3>1 DEF PlacesInv
      <3> QED
        BY <3>1, <3>2, <3>3 DEF PlacesInv
    <2> QED
      BY <2>3, <2>5, <2>6
  <1> QED
    BY <1>1, NetifInvariant, PTL

\* A protocol stack that does not use context 0 never makes find_netif_by_cid take a vacant
\* entry for the one of the context, so that the table follows it without exception.
THEOREM NetifNeverMissed == 0 \notin Cids => (Spec => []NeverMissed)
  <1>1. SUFFICES ASSUME 0 \notin Cids PROVE Spec => []NeverMissed
    OBVIOUS
  <1>2. IInv => NeverMissed
    BY <1>1 DEF IInv, TableInv, NeverMissed
  <1> QED
    BY <1>2, NetifInvariant, PTL

=============================================================================
