---------------------------- MODULE CloudProofs ----------------------------
(***************************************************************************)
(* Proofs about CloudResume, for any set of applications and addresses.    *)
(***************************************************************************)
EXTENDS CloudResume, TLAPS

\* The region read back, or zeroes, is always an app_deepsleep_infos_t.
LEMMA StoredType == TypeOK => Stored \in Infos
BY DEF TypeOK, Stored, ZeroInfos, Infos, NoSessions, Sessions, Maybe

\* The region, the flags and the sessions keep their types in every call, sleep and boot.
THEOREM CloudTypeCorrect == Spec => []TypeOK
<1>1. Init => TypeOK
  BY DEF Init, TypeOK, NoSessions, Sessions, Maybe
<1>2. TypeOK /\ [Next]_vars => TypeOK'
  <2> SUFFICES ASSUME TypeOK, [Next]_vars PROVE TypeOK'
    OBVIOUS
  <2>0. Stored \in Infos
    BY StoredType
  <2>a. Flags \in SUBSET Apps /\ SavedIp \in Maybe(Addrs)
    BY <2>0 DEF TypeOK, Flags, SavedIp, Infos
  <2>b. ASSUME NEW a \in Apps, NEW r, ResumeApp(a, r)
        PROVE /\ live' \in Sessions /\ recov' \in SUBSET Apps /\ pending' \in Sessions
              /\ net' \in Maybe(Infos) /\ gone' \in SUBSET Apps
    <3>1. live' \in Sessions /\ recov' \in SUBSET Apps /\ pending' \in Sessions /\ gone' \in SUBSET Apps
      BY <2>0, <2>a, <2>b DEF TypeOK, ResumeApp, ClearFlag, Infos, Sessions, Maybe
    <3>2. [Stored EXCEPT !.flags = Flags \ {a}] \in Infos
      BY <2>0, <2>a DEF Infos
    <3> QED
      BY <3>1, <3>2, <2>b DEF ResumeApp, Maybe, TypeOK
  <2>1. ASSUME NEW a \in Apps, ResumeNetApp(a)
        PROVE TypeOK'
    BY <2>1, <2>a, <2>b DEF TypeOK, ResumeNetApp
  <2>2. CASE DownlinkPacket
    BY <2>2, <2>a, <2>b DEF TypeOK, DownlinkPacket
  <2>3. ASSUME NEW a \in Apps, StartSession(a) \/ EndSession(a)
        PROVE TypeOK'
    BY <2>3 DEF TypeOK, StartSession, EndSession, Sessions, Maybe
  <2>4. CASE Activate
    BY <2>4 DEF TypeOK, Activate, Sessions, Maybe
  <2>5. CASE Sleep
    <3>1. recov' \in SUBSET Apps /\ SavedSessions \in Sessions /\ pending' \in Sessions
      BY <2>0, <2>5 DEF TypeOK, Sleep, NeedSave, SavedSessions, Infos, Sessions, Maybe
    <3>2. [flags |-> recov', addr |-> SavedAddr, sess |-> SavedSessions] \in Infos
      BY <3>1 DEF TypeOK, Infos, SavedAddr
    <3>3. net' \in Maybe(Infos)
      BY <3>2, <2>5 DEF TypeOK, Sleep, Maybe
    <3> QED
      BY <2>5, <3>1, <3>3 DEF TypeOK, Sleep
  <2>6. CASE FastOff
    BY <2>6 DEF TypeOK, FastOff, NoSessions, Sessions, Maybe
  <2>7. CASE Wake \/ OtherBoot
    BY <2>7 DEF TypeOK, Wake, OtherBoot, StartBoot, NoSessions, Sessions, Maybe
  <2>8. CASE UNCHANGED vars
    BY <2>8 DEF vars, TypeOK
  <2> QED
    BY <2>1, <2>2, <2>3, <2>4, <2>5, <2>6, <2>7, <2>8 DEF Next
<1> QED
  BY <1>1, <1>2, PTL DEF Spec

-----------------------------------------------------------------------------
\* A call that finds the flag of a set takes up, or gives up, the session of
\* a and of no other application.
LEMMA ResumeKeepsInv ==
    ASSUME TypeOK, CloudInv, awake, awake' = awake, read' = TRUE,
           NEW a \in Flags, NEW r, ResumeApp(a, r)
    PROVE  CloudInv'
<1> USE DEF CloudInv
<1>0. Stored \in Infos /\ Flags \in SUBSET Apps
  BY StoredType DEF TypeOK, Flags, Infos
<1>1. Flags' = Flags \ {a} /\ recov' = Flags \ {a} /\ awake'
  BY DEF Flags, ResumeApp, ClearFlag
<1>2. SavedSessionSurvives'
  <2> SUFFICES ASSUME NEW b \in Apps, pending'[b] # None
               PROVE  b \in Flags' /\ net' # None /\ net'.sess[b] = pending'[b]
    BY DEF SavedSessionSurvives
  <2>1. b # a /\ pending'[b] = pending[b]
    BY <1>0 DEF ResumeApp, TypeOK, Sessions
  <2>2. b \in Flags /\ net # None /\ net.sess[b] = pending[b]
    BY <2>1 DEF SavedSessionSurvives
  <2>3. net' # None /\ net'.sess = net.sess
    <3>1. net \in Infos /\ Stored = net
      BY <2>2 DEF TypeOK, Maybe, Stored
    <3>2. [net EXCEPT !.flags = Flags \ {a}] \in Infos /\ [net EXCEPT !.flags = Flags \ {a}].sess = net.sess
      BY <1>0, <3>1 DEF Infos
    <3> QED
      BY <2>2, <3>1, <3>2, ErasedAssumption DEF ResumeApp
  <2> QED
    BY <1>1, <2>1, <2>2, <2>3
<1>3. FlaggedIsNotLive'
  <2>1. \A b \in Flags : live[b] = None
    BY <1>0 DEF FlaggedIsNotLive, UnreadIsFresh, Flags, NoSessions
  <2> QED
    BY <1>0, <1>1, <2>1 DEF FlaggedIsNotLive, ResumeApp, TypeOK, Sessions
<1>4. GivenUpIsNotResumed' /\ RegionForgets'
  <2>1. gone' \subseteq gone \cup {a} /\ Flags \cap gone = {}
    BY DEF ResumeApp, GivenUpIsNotResumed
  <2>2. CASE Forgets(a, r)
    <3>1. net' = [Stored EXCEPT !.flags = Flags \ {a}] /\ net' \in Infos
      BY <1>0, <2>2 DEF ResumeApp, Infos
    <3>2. Stored'.flags = Flags \ {a}
      BY <1>0, <3>1, ErasedAssumption DEF Stored, Infos
    <3> QED
      BY <1>1, <2>1, <3>2 DEF GivenUpIsNotResumed, RegionForgets
  <2>3. CASE ~Forgets(a, r)
    <3>1. net' = net /\ gone' = gone
      BY <2>3 DEF ResumeApp
    <3> QED
      BY <1>1, <2>1, <3>1 DEF GivenUpIsNotResumed, RegionForgets, Stored
  <2> QED
    BY <2>2, <2>3
<1>5. UnreadIsFresh' /\ SleepKeepsPending'
  BY <1>1 DEF UnreadIsFresh, SleepKeepsPending
<1> QED
  BY <1>2, <1>3, <1>4, <1>5

\* A call that takes up nothing only reads the saved flags.
LEMMA ReadKeepsInv ==
    ASSUME TypeOK, CloudInv, awake, awake' = awake, read' = TRUE,
           recov' = Flags, UNCHANGED <<live, net, pending, gone>>
    PROVE  CloudInv'
<1>1. Flags' = Flags /\ awake'
  BY DEF Flags
<1>2. Flags \in SUBSET Apps
  BY StoredType DEF TypeOK, Flags, Infos
<1>3. \A b \in Flags : live[b] = None
  BY <1>2 DEF CloudInv, FlaggedIsNotLive, UnreadIsFresh, Flags, NoSessions
<1>4. Stored' = Stored
  BY DEF Stored
<1> QED
  BY <1>1, <1>3, <1>4 DEF CloudInv, SavedSessionSurvives, FlaggedIsNotLive, GivenUpIsNotResumed,
                    UnreadIsFresh, SleepKeepsPending, RegionForgets

-----------------------------------------------------------------------------
\* Every step keeps the invariant.
LEMMA CloudStep == TypeOK /\ CloudInv /\ [Next]_vars => CloudInv'
<1> SUFFICES ASSUME TypeOK, CloudInv, [Next]_vars PROVE CloudInv'
  OBVIOUS
<1>0. Stored \in Infos /\ Flags \in SUBSET Apps
  BY StoredType DEF TypeOK, Flags, Infos
<1>1. ASSUME NEW a \in Apps, ResumeNetApp(a)
      PROVE CloudInv'
  BY <1>1, ResumeKeepsInv, ReadKeepsInv DEF ResumeNetApp
<1>2. CASE DownlinkPacket
  BY <1>2, ResumeKeepsInv, ReadKeepsInv DEF DownlinkPacket
<1>3. ASSUME NEW a \in Apps, StartSession(a) \/ EndSession(a)
      PROVE CloudInv'
  <2>1. /\ awake' /\ awake /\ Flags' = Flags /\ Stored' = Stored
        /\ UNCHANGED <<net, recov, read, awake, pending, gone>>
    BY <1>3 DEF StartSession, EndSession, Flags, Stored
  <2>2. FlaggedIsNotLive'
    BY <1>3, <2>1 DEF CloudInv, FlaggedIsNotLive, StartSession, EndSession, TypeOK, Sessions
  <2>3. UnreadIsFresh'
    BY <1>3, <2>1 DEF CloudInv, UnreadIsFresh, StartSession, EndSession, NoSessions
  <2> QED
    BY <2>1, <2>2, <2>3 DEF CloudInv, SavedSessionSurvives, GivenUpIsNotResumed, SleepKeepsPending, RegionForgets
<1>4. CASE Activate
  <2>1. /\ awake' /\ awake /\ Flags' = Flags /\ Stored' = Stored
        /\ UNCHANGED <<net, recov, read, awake, pending, gone>>
    BY <1>4 DEF Activate, Flags, Stored
  <2>2. FlaggedIsNotLive'
    BY <1>4, <2>1 DEF CloudInv, FlaggedIsNotLive, Activate, TypeOK
  <2>3. UnreadIsFresh'
    BY <1>4, <2>1 DEF CloudInv, UnreadIsFresh, Activate, NoSessions
  <2> QED
    BY <2>1, <2>2, <2>3 DEF CloudInv, SavedSessionSurvives, GivenUpIsNotResumed, SleepKeepsPending, RegionForgets
<1>5. CASE Sleep
  <2>1. ~awake' /\ awake
    BY <1>5 DEF Sleep
  <2>2. SleepKeepsPending'
    <3> SUFFICES ASSUME NEW a \in Apps, pending'[a] # None
                 PROVE  a \in Stored'.flags /\ net' # None /\ net'.sess[a] = pending'[a]
      BY DEF SleepKeepsPending
    <3>1. CASE live[a] # None
      <4>1. a \in recov' /\ pending'[a] = live[a] /\ SavedSessions[a] = live[a]
        BY <1>5, <3>1 DEF Sleep, NeedSave, SavedSessions
      <4>2. net' = [flags |-> recov', addr |-> SavedAddr, sess |-> SavedSessions]
        BY <1>5, <4>1 DEF Sleep
      <4>3. net' \in Infos
        BY <1>0, <1>5, <4>2 DEF TypeOK, Sleep, NeedSave, SavedAddr, SavedSessions, Infos, Sessions, Maybe
      <4> QED
        BY <4>1, <4>2, <4>3, ErasedAssumption DEF Stored
    <3>2. CASE live[a] = None
      <4>1. pending'[a] = pending[a] /\ pending[a] # None
        BY <1>5, <3>2 DEF Sleep
      <4>2. a \in Flags /\ net # None /\ net.sess[a] = pending[a]
        BY <2>1, <4>1 DEF CloudInv, SavedSessionSurvives
      <4>3. CASE recov' = {}
        BY <1>5, <4>1, <4>2, <4>3 DEF Sleep, Flags, Stored
      <4>4. CASE recov' # {}
        <5>1. read
          BY <1>5, <2>1, <4>4 DEF CloudInv, UnreadIsFresh, Sleep, NeedSave, NoSessions
        <5>2. a \in recov' /\ SavedSessions[a] = pending[a]
          BY <1>5, <3>2, <4>2, <5>1 DEF Sleep, Flags, SavedSessions, Stored
        <5>3. net' = [flags |-> recov', addr |-> SavedAddr, sess |-> SavedSessions]
          BY <1>5, <4>4 DEF Sleep
        <5>4. net' \in Infos
          BY <1>0, <1>5, <5>3 DEF TypeOK, Sleep, NeedSave, SavedAddr, SavedSessions, Infos, Sessions, Maybe
        <5> QED
          BY <4>1, <5>2, <5>3, <5>4, ErasedAssumption DEF Stored
      <4> QED
        BY <4>3, <4>4
    <3> QED
      BY <3>1, <3>2
  <2>3. RegionForgets'
    <3>1. gone' = gone \ NeedSave /\ recov' = recov \cup NeedSave
      BY <1>5 DEF Sleep
    <3>2. CASE recov' = {}
      BY <1>5, <3>1, <3>2 DEF Sleep, CloudInv, RegionForgets, Stored
    <3>3. CASE recov' # {}
      <4>1. net' = [flags |-> recov', addr |-> SavedAddr, sess |-> SavedSessions]
        BY <1>5, <3>3 DEF Sleep
      <4>2. net' \in Infos
        BY <1>0, <1>5, <4>1 DEF TypeOK, Sleep, NeedSave, SavedAddr, SavedSessions, Infos, Sessions, Maybe
      <4>3. Stored'.flags = recov'
        BY <4>1, <4>2, ErasedAssumption DEF Stored
      <4>4. recov \cap gone = {}
        BY <2>1 DEF CloudInv, GivenUpIsNotResumed, UnreadIsFresh, Flags, TypeOK
      <4> QED
        BY <3>1, <4>3, <4>4 DEF RegionForgets
    <3> QED
      BY <3>2, <3>3
  <2> QED
    BY <2>1, <2>2, <2>3 DEF CloudInv, SavedSessionSurvives, FlaggedIsNotLive, GivenUpIsNotResumed, UnreadIsFresh
<1>6. CASE FastOff
  <2>1. ~awake' /\ awake
    BY <1>6 DEF FastOff
  <2>2. Stored'.flags = {}
    BY <1>6 DEF FastOff, ExistResumeData, Stored, ZeroInfos
  <2>3. \A a \in Apps : pending'[a] = None
    BY <1>6 DEF FastOff, NoSessions
  <2> QED
    BY <2>1, <2>2, <2>3 DEF CloudInv, SavedSessionSurvives, FlaggedIsNotLive, GivenUpIsNotResumed, UnreadIsFresh, SleepKeepsPending, RegionForgets
<1>7. CASE Wake
  <2>1. /\ awake' /\ ~awake /\ ~read' /\ Stored' = Stored /\ Flags' = Stored.flags
        /\ live' = NoSessions /\ recov' = {} /\ UNCHANGED <<net, pending, gone>>
    BY <1>7 DEF Wake, StartBoot, Flags, Stored
  <2> QED
    BY <2>1 DEF CloudInv, SavedSessionSurvives, FlaggedIsNotLive, GivenUpIsNotResumed, UnreadIsFresh, SleepKeepsPending, RegionForgets
<1>8. CASE OtherBoot
  <2>1. /\ awake' /\ ~read' /\ Stored'.flags = {} /\ Flags' = {} /\ live' = NoSessions /\ recov' = {}
        /\ \A a \in Apps : pending'[a] = None
    BY <1>8 DEF OtherBoot, StartBoot, Flags, Stored, ZeroInfos, NoSessions
  <2> QED
    BY <2>1 DEF CloudInv, SavedSessionSurvives, FlaggedIsNotLive, GivenUpIsNotResumed, UnreadIsFresh, SleepKeepsPending, RegionForgets
<1>9. CASE UNCHANGED vars
  BY <1>9 DEF vars, CloudInv, SavedSessionSurvives, FlaggedIsNotLive, GivenUpIsNotResumed, UnreadIsFresh,
              SleepKeepsPending, RegionForgets, Flags, Stored
<1> QED
  BY <1>1, <1>2, <1>3, <1>4, <1>5, <1>6, <1>7, <1>8, <1>9 DEF Next

\* The saved sessions and the flags of net_app_resume.c agree in every state,
\* asleep or running.
THEOREM CloudCorrect == Spec => []CloudInv
<1>1. Init => CloudInv
  BY DEF Init, CloudInv, SavedSessionSurvives, FlaggedIsNotLive, GivenUpIsNotResumed, UnreadIsFresh,
         SleepKeepsPending, RegionForgets, Flags, Stored, ZeroInfos, NoSessions
<1> QED
  BY <1>1, CloudTypeCorrect, CloudStep, PTL DEF Spec

\* A session saved by save_net_app_infos stays resumable until a call takes
\* it up or gives it up, across any number of sleeps.
THEOREM SavedSessionsAreKept == Spec => []SavedSessionSurvives
<1>1. CloudInv => SavedSessionSurvives
  BY DEF CloudInv
<1> QED
  BY <1>1, CloudCorrect, PTL

\* resume_net_app never takes up a session over one the application holds.
THEOREM NoDoubleResume == Spec => []FlaggedIsNotLive
<1>1. CloudInv => FlaggedIsNotLive
  BY DEF CloudInv
<1> QED
  BY <1>1, CloudCorrect, PTL

\* A session that resume_net_app has refused for good, or that AT+FASTOFF, a reset or a
\* power-on has given up, is not resumed until the application has saved another one.
THEOREM NothingGivenUpIsResumed == Spec => []GivenUpIsNotResumed
<1>1. CloudInv => GivenUpIsNotResumed
  BY DEF CloudInv
<1> QED
  BY <1>1, CloudCorrect, PTL
=============================================================================
