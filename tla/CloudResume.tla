---------------------------- MODULE CloudResume ----------------------------
(***************************************************************************)
(* Cloud sessions across deep sleep (net_app_resume.c): what is saved in   *)
(* the region NV_FLASH_NET before deep sleep, and what is resumed after    *)
(* it, by an application or by a downlink packet.                          *)
(*                                                                         *)
(* Every resuming call holds g_cloud_resume_mutex from end to end and the  *)
(* save runs when no task does: each call is one action.  The region is a  *)
(* cell with atomic writes (module Ftl); save_cloud is set.                *)
(***************************************************************************)
EXTENDS Integers

CONSTANTS
    Apps,        \* SOCKET_TASK, ONENET_TASK and CDP_TASK
    Sockets,     \* the ones among them whose session is not checked
    KeepAlive,   \* the ones restarted, not forgotten, when their lifetime ends (keep_cloud_alive)
    Addrs,       \* IP addresses the device may be given
    None         \* no address, no session, an erased region

ASSUME AppsAssumption == Sockets \subseteq Apps /\ KeepAlive \subseteq Apps
ASSUME NoneAssumption == None \notin Apps \cup Addrs

VARIABLES
    net,      \* region NV_FLASH_NET: app_deepsleep_infos_t, or None
    recov,    \* g_app_recovery_type
    localIp,  \* g_app_local_ip
    read,     \* g_have_read_saved_info
    live,     \* the session each application holds, told apart by its address
    ip,       \* the address of the PDP context
    awake,    \* the device runs
    pending,  \* history: sessions saved at the last sleep and not taken up since
    gone      \* history: applications whose session was given up and not saved since

vars == <<net, recov, localIp, read, live, ip, awake, pending, gone>>

Maybe(S) == S \cup {None}
Sessions == [Apps -> Maybe(Addrs)]
NoSessions == [a \in Apps |-> None]

Infos == [flags : SUBSET Apps, addr : Maybe(Addrs), sess : Sessions]
ASSUME ErasedAssumption == None \notin Infos

\* xy_zalloc, or what xy_ftl_read leaves of it when the region is erased.
ZeroInfos == [flags |-> {}, addr |-> None, sess |-> NoSessions]
Stored == IF net = None THEN ZeroInfos ELSE net

TypeOK ==
    /\ net \in Maybe(Infos)
    /\ recov \in SUBSET Apps
    /\ localIp \in Maybe(Addrs)
    /\ read \in BOOLEAN
    /\ live \in Sessions
    /\ ip \in Maybe(Addrs)
    /\ awake \in BOOLEAN
    /\ pending \in Sessions
    /\ gone \in SUBSET Apps

Init ==
    /\ net = None
    /\ recov = {}
    /\ localIp = None
    /\ read = FALSE
    /\ live = NoSessions
    /\ ip = None
    /\ awake = TRUE
    /\ pending = NoSessions
    /\ gone = Apps

-----------------------------------------------------------------------------
(***************************************************************************)
(* Resuming.  The saved flags are read once after each boot; the first     *)
(* call reads them, whether or not the region can be read.                 *)
(***************************************************************************)
Flags == IF read THEN recov ELSE Stored.flags
SavedIp == IF read THEN localIp ELSE Stored.addr

\* What cdp_resume_check_info and onenet_resume_check_info may answer.
Checks(a) ==
    IF a \in Sockets THEN {"XY_OK"}
    ELSE {"XY_OK", "LIFETIME_TIMEOUT", "REG_CONFIG_ERROR", "STATE_ERROR"}

\* The answers after which the flag is cleared in the region too.
Forgets(a, result) ==
    \/ result = "REG_CONFIG_ERROR"
    \/ result = "LIFETIME_TIMEOUT" /\ a \notin KeepAlive

ClearFlagLate(a) == Flags
ClearFlag(a) == Flags \ {a}

\* The part of resume_net_app after the flag of a was found set.
ResumeApp(a, result) ==
    /\ live' = IF result = "XY_OK" THEN [live EXCEPT ![a] = Stored.sess[a]] ELSE live
    /\ net' = IF Forgets(a, result) THEN [Stored EXCEPT !.flags = Flags \ {a}] ELSE net
    /\ recov' = ClearFlag(a)
    /\ pending' = [pending EXCEPT ![a] = None]
    /\ gone' = IF Forgets(a, result) THEN gone \cup {a} ELSE gone

\* resume_net_app: an application tries to take up its saved session.
ResumeNetApp(a) ==
    /\ awake
    /\ read' = TRUE
    /\ localIp' = SavedIp
    /\ \/ a \in Flags /\ \E result \in Checks(a) : ResumeApp(a, result)
       \/ a \notin Flags /\ recov' = Flags /\ UNCHANGED <<live, net, pending, gone>>
    /\ UNCHANGED <<ip, awake>>

\* resume_net_app_by_dl_pkt: a packet for this device's address arrives; it
\* is not IPv4, or of no saved session, or matches the session of an application.
\* A packet that matches several is that many steps, one after the other.
DownlinkPacket ==
    /\ awake /\ ip # None
    /\ read' = TRUE
    /\ localIp' = SavedIp
    /\ \/ recov' = Flags /\ UNCHANGED <<live, net, pending, gone>>
       \/ /\ ip = SavedIp
          /\ \E a \in Flags : \E result \in Checks(a) : ResumeApp(a, result)
    /\ UNCHANGED <<ip, awake>>

-----------------------------------------------------------------------------
(***************************************************************************)
(* The applications and the network.                                       *)
(***************************************************************************)

\* The PDP context is activated, with any address, or again after a loss;
\* the sessions in use are registered under the new address.
Activate ==
    /\ awake
    /\ ip' \in Addrs \ {ip}
    /\ live' = [a \in Apps |-> IF live[a] = None THEN None ELSE ip']
    /\ UNCHANGED <<net, recov, localIp, read, awake, pending, gone>>

\* An application registers anew: its interface first tries to resume.
StartSession(a) ==
    /\ awake /\ ip # None /\ read /\ a \notin recov
    /\ live' = [live EXCEPT ![a] = ip]
    /\ UNCHANGED <<net, recov, localIp, read, ip, awake, pending, gone>>

EndSession(a) ==
    /\ awake /\ live[a] # None
    /\ live' = [live EXCEPT ![a] = None]
    /\ UNCHANGED <<net, recov, localIp, read, ip, awake, pending, gone>>

-----------------------------------------------------------------------------
(***************************************************************************)
(* Deep sleep and boot.                                                    *)
(***************************************************************************)

\* The applications whose save function answers CLOUD_SAVE_NEED_WRITE.
NeedSave == {a \in Apps : live[a] # None}

\* save_net_app_infos reads the region, replaces the live sessions, and
\* writes it back unless there is nothing to recover.
SavedAfresh == [a \in Apps |-> live[a]]
SavedSessions == [a \in Apps |-> IF live[a] # None THEN live[a] ELSE Stored.sess[a]]

SavedAddrUnset == 65535
SavedAddr == ip

Sleep ==
    /\ awake
    /\ awake' = FALSE
    /\ recov' = recov \cup NeedSave
    /\ net' = IF recov' = {} THEN net
              ELSE [flags |-> recov', addr |-> SavedAddr, sess |-> SavedSessions]
    /\ pending' = [a \in Apps |-> IF live[a] # None THEN live[a] ELSE pending[a]]
    /\ gone' = gone \ NeedSave
    /\ UNCHANGED <<localIp, read, live, ip>>

\* is_exist_resume_cloud_data: read again to decide whether to erase.
ExistResumeDataRam == recov # {}
ExistResumeData == net = None \/ Stored.flags # {}

\* AT+FASTOFF: the sessions are given up.
FastOff ==
    /\ awake
    /\ awake' = FALSE
    /\ net' = IF ExistResumeData THEN None ELSE net
    /\ pending' = NoSessions
    /\ gone' = Apps
    /\ UNCHANGED <<recov, localIp, read, live, ip>>

StartBoot ==
    /\ recov' = {}
    /\ localIp' = None
    /\ read' = FALSE
    /\ live' = NoSessions
    /\ awake' = TRUE

\* The device wakes with its address (PS_CAMP_ON) or without.
Wake ==
    /\ ~awake
    /\ StartBoot
    /\ ip' \in {ip, None}
    /\ UNCHANGED <<net, pending, gone>>

\* Any other boot: nv_restore erases the region.
OtherBoot ==
    /\ StartBoot
    /\ ip' = None
    /\ net' = None
    /\ pending' = NoSessions
    /\ gone' = Apps

Next ==
    \/ DownlinkPacket
    \/ \E a \in Apps : ResumeNetApp(a) \/ StartSession(a) \/ EndSession(a)
    \/ Activate
    \/ Sleep \/ FastOff \/ Wake \/ OtherBoot

Spec == Init /\ [][Next]_vars

-----------------------------------------------------------------------------
\* A session that was saved, and neither taken up nor given up since, can
\* still be resumed, whatever other sessions were saved, resumed or
\* forgotten in between and however often the device slept.
SavedSessionSurvives ==
    awake => \A a \in Apps :
        pending[a] # None => a \in Flags /\ net # None /\ net.sess[a] = pending[a]

\* No session is resumed on top of a session the application holds: its flag
\* is cleared by the call that takes it up.
FlaggedIsNotLive == awake /\ read => \A a \in recov : live[a] = None

\* A session that was given up is never resumed, unless the application has saved a new one
\* since: one whose configuration or lifetime was refused, and any at AT+FASTOFF, a reset or
\* a power-on.
GivenUpIsNotResumed == awake => Flags \cap gone = {}

\* A session is resumed once for every time it was saved.  It is not: a flag cleared in RAM
\* alone stays in the region when the next sleep has nothing to save (README).
ResumedOnce == awake => \A a \in Flags : pending[a] # None

-----------------------------------------------------------------------------
(***************************************************************************)
(* The inductive invariant of the proofs: the properties above, and what   *)
(* holds while the device sleeps or before the saved flags are read.       *)
(***************************************************************************)
UnreadIsFresh == awake /\ ~read => live = NoSessions /\ recov = {}

SleepKeepsPending ==
    ~awake => \A a \in Apps :
        pending[a] # None => a \in Stored.flags /\ net # None /\ net.sess[a] = pending[a]

\* The region holds no flag of a session that was given up, whatever the flags in RAM are.
RegionForgets == Stored.flags \cap gone = {}

CloudInv ==
    /\ SavedSessionSurvives /\ FlaggedIsNotLive /\ GivenUpIsNotResumed
    /\ UnreadIsFresh /\ SleepKeepsPending /\ RegionForgets

-----------------------------------------------------------------------------
\* "if PDP IP address changed, not resume cloud": a downlink packet resumes
\* only a session of the address the device still has.
PacketResumesSameAddr ==
    [][DownlinkPacket => \A a \in Apps : live'[a] = live[a] \/ live'[a] = ip]_vars
=============================================================================
