-------------------------- MODULE KbdsClientProofs --------------------------
(***************************************************************************)
(* The safety of KbdsClient for all words, programs and kinds of peers.    *)
(***************************************************************************)
EXTENDS KbdsClient, TLAPS

\* Discovery, what it found, the subscription and the reads end with the link.
LinkInv == ~link => ~discovery /\ ~assigned /\ ~subscribed /\ polls = 0

\* The hub is discovering or has discovered, and reads and subscribes only
\* then; the test central never reads.
UserInv ==
    /\ user = "hub" /\ discovery => ~assigned
    /\ user = "hub" /\ ~assigned => ~read_cb /\ reads = 0 /\ ~subscribed
    /\ user = "central" => ~read_cb /\ reads = 0

\* A discovered peer without notifications is read periodically.
PollInv == link /\ assigned /\ peer = "silent" => interval /\ conn

IInv ==
    /\ TypeOK
    /\ LinkInv /\ UserInv /\ PollInv
    /\ OneRead /\ HubReports /\ PollingGoesOn

-----------------------------------------------------------------------------
LEMMA InitIInv == Init => IInv
  <1> SUFFICES ASSUME Init PROVE IInv
    OBVIOUS
  <1> USE DEF Init
  <1>1. LinkOK
    BY DEF LinkOK
  <1>2. ClientOK
    BY DEF ClientOK
  <1>3. PollOK
    BY DEF PollOK
  <1>4. reads \in Nat
    OBVIOUS
  <1>5. polls \in 0..MaxPolls
    BY PollsAssumption
  <1>6. OneRead
    BY DEF OneRead
  <1>7. LinkInv /\ UserInv /\ PollInv /\ HubReports /\ PollingGoesOn
    BY DEF LinkInv, UserInv, PollInv, HubReports, PollingGoesOn
  <1> QED
    BY <1>1, <1>2, <1>3, <1>4, <1>5, <1>6, <1>7 DEF IInv, TypeOK, CountsOK

LEMMA NextIInv == IInv /\ [Next]_vars => IInv'
  <1> SUFFICES ASSUME IInv, [Next]_vars PROVE IInv'
    OBVIOUS
  <1> USE UsersAssumption, PeersAssumption, PollsAssumption DEF IInv, TypeOK
  <1>1. CASE connected
    <2>1. LinkOK'
      BY <1>1 DEF connected, gatt_discover, LinkOK, fixedVars, readVars, pollVars
    <2>2. ClientOK'
      BY <1>1 DEF connected, gatt_discover, ClientOK, LinkOK, fixedVars, readVars,
         pollVars
    <2>3. PollOK'
      BY <1>1 DEF connected, gatt_discover, PollOK, LinkOK, fixedVars, readVars,
         pollVars
    <2>4. CountsOK'
      BY <1>1 DEF connected, gatt_discover, CountsOK, readVars, pollVars
    <2>5. LinkInv'
      BY <1>1 DEF connected, gatt_discover, LinkInv, fixedVars, readVars, pollVars
    <2>6. UserInv'
      BY <1>1 DEF connected, gatt_discover, UserInv, LinkInv, OneRead, fixedVars,
         readVars, pollVars
    <2>7. OneRead'
      BY <1>1 DEF connected, gatt_discover, OneRead, UserInv, LinkInv, CountsOK,
         fixedVars, readVars, pollVars
    <2>8. HubReports'
      BY <1>1 DEF connected, gatt_discover, HubReports, UserInv, LinkInv, fixedVars,
         readVars, pollVars
    <2>9. PollInv'
      BY <1>1 DEF connected, gatt_discover, PollInv, LinkInv, fixedVars, readVars,
         pollVars
    <2>10. PollingGoesOn'
      BY <1>1 DEF connected, gatt_discover, PollingGoesOn, PollInv, LinkInv,
         fixedVars, readVars, pollVars
    <2> QED
      BY <2>1, <2>2, <2>3, <2>4, <2>5, <2>6, <2>7, <2>8, <2>9, <2>10
  <1>2. CASE security_changed
    <2>1. LinkOK'
      BY <1>2 DEF security_changed, gatt_discover, LinkOK, fixedVars, readVars,
         pollVars
    <2>2. ClientOK'
      BY <1>2 DEF security_changed, gatt_discover, ClientOK, LinkOK, fixedVars,
         readVars, pollVars
    <2>3. PollOK'
      BY <1>2 DEF security_changed, gatt_discover, PollOK, LinkOK, fixedVars,
         readVars, pollVars
    <2>4. CountsOK'
      BY <1>2 DEF security_changed, gatt_discover, CountsOK, readVars, pollVars
    <2>5. LinkInv'
      BY <1>2 DEF security_changed, gatt_discover, LinkInv, fixedVars, readVars,
         pollVars
    <2>6. UserInv'
      BY <1>2 DEF security_changed, gatt_discover, UserInv, LinkInv, OneRead,
         fixedVars, readVars, pollVars
    <2>7. OneRead'
      BY <1>2 DEF security_changed, gatt_discover, OneRead, UserInv, LinkInv,
         CountsOK, fixedVars, readVars, pollVars
    <2>8. HubReports'
      BY <1>2 DEF security_changed, gatt_discover, HubReports, UserInv, LinkInv,
         fixedVars, readVars, pollVars
    <2>9. PollInv'
      BY <1>2 DEF security_changed, gatt_discover, PollInv, LinkInv, fixedVars,
         readVars, pollVars
    <2>10. PollingGoesOn'
      BY <1>2 DEF security_changed, gatt_discover, PollingGoesOn, PollInv, LinkInv,
         fixedVars, readVars, pollVars
    <2> QED
      BY <2>1, <2>2, <2>3, <2>4, <2>5, <2>6, <2>7, <2>8, <2>9, <2>10
  <1>3. CASE disconnected
    <2>1. LinkOK'
      BY <1>3 DEF disconnected, LinkOK, fixedVars
    <2>2. ClientOK'
      BY <1>3 DEF disconnected, ClientOK, LinkOK, fixedVars
    <2>3. PollOK'
      BY <1>3 DEF disconnected, PollOK, LinkOK, fixedVars
    <2>4. CountsOK'
      BY <1>3 DEF disconnected, CountsOK
    <2>5. LinkInv'
      BY <1>3 DEF disconnected, LinkInv, fixedVars
    <2>6. UserInv'
      <3>1. read_cb' = (read_cb /\ reads = 0)
        BY <1>3 DEF disconnected
      <3>2. ~(read_cb /\ reads = 0)
        BY DEF OneRead
      <3>3. ~read_cb'
        BY <3>1, <3>2, Zenon
      <3> QED
        BY <1>3, <3>3 DEF disconnected, UserInv, LinkInv, fixedVars
    <2>7. OneRead'
      BY <1>3 DEF disconnected, OneRead, UserInv, LinkInv, CountsOK, fixedVars
    <2>8. HubReports'
      BY <1>3 DEF disconnected, HubReports, UserInv, LinkInv, fixedVars
    <2>9. PollInv'
      BY <1>3 DEF disconnected, PollInv, LinkInv, fixedVars
    <2>10. PollingGoesOn'
      BY <1>3 DEF disconnected, PollingGoesOn, PollInv, LinkInv, fixedVars
    <2> QED
      BY <2>1, <2>2, <2>3, <2>4, <2>5, <2>6, <2>7, <2>8, <2>9, <2>10
  <1>4. CASE discovery_completed_cb
    <2>1. LinkOK'
      BY <1>4 DEF discovery_completed_cb, bt_kbds_handles_assign,
         bt_kbds_subscribe_keystates, bt_kbds_start_per_read_keystates, LinkOK,
         fixedVars
    <2>2. ClientOK'
      BY <1>4 DEF discovery_completed_cb, bt_kbds_handles_assign,
         bt_kbds_subscribe_keystates, bt_kbds_start_per_read_keystates,
         bt_kbds_read_keystates, ClientOK, LinkOK, fixedVars
    <2>3. PollOK'
      BY <1>4 DEF discovery_completed_cb, bt_kbds_handles_assign,
         bt_kbds_subscribe_keystates, bt_kbds_start_per_read_keystates,
         bt_kbds_read_keystates, PollOK, LinkOK, fixedVars
    <2>4. CountsOK'
      <3>1. reads' \in {reads, reads + 1}
        <4>1. CASE user = "hub"
          <5>1. PICK sent \in BOOLEAN : reads' = IF sent THEN reads + 1 ELSE reads
            BY <1>4, <4>1 DEF discovery_completed_cb, bt_kbds_read_keystates
          <5> QED
            BY <5>1
        <4>2. CASE user # "hub"
          BY <1>4, <4>2 DEF discovery_completed_cb
        <4> QED
          BY <4>1, <4>2
      <3>2. polls' = polls
        BY <1>4 DEF discovery_completed_cb
      <3>3. reads \in Nat
        BY DEF CountsOK
      <3>4. reads' \in Nat
        BY <3>1, <3>3
      <3> QED
        BY <3>2, <3>4 DEF CountsOK
    <2>5. LinkInv'
      BY <1>4 DEF discovery_completed_cb, LinkInv, fixedVars
    <2>6. UserInv'
      BY <1>4 DEF discovery_completed_cb, bt_kbds_handles_assign,
         bt_kbds_subscribe_keystates, bt_kbds_start_per_read_keystates,
         bt_kbds_read_keystates, UserInv, LinkInv, OneRead, fixedVars
    <2>7. OneRead'
      <3>1. reads = 0
        BY <1>4 DEF discovery_completed_cb, UserInv, LinkOK
      <3>2. CASE user = "hub"
        <4>1. PICK sent \in BOOLEAN :
                 read_cb' = sent /\ reads' = IF sent THEN reads + 1 ELSE reads
          BY <1>4, <3>2 DEF discovery_completed_cb, bt_kbds_read_keystates
        <4>2. CASE sent
          BY <3>1, <4>1, <4>2 DEF OneRead
        <4>3. CASE ~sent
          BY <3>1, <4>1, <4>3 DEF OneRead
        <4> QED
          BY <4>2, <4>3
      <3>3. CASE user # "hub"
        <4>1. ~read_cb' /\ reads' = 0
          BY <1>4, <3>1, <3>3 DEF discovery_completed_cb
        <4> QED
          BY <4>1 DEF OneRead
      <3> QED
        BY <3>2, <3>3
    <2>8. HubReports'
      BY <1>4 DEF discovery_completed_cb, bt_kbds_handles_assign,
         bt_kbds_subscribe_keystates, bt_kbds_start_per_read_keystates, HubReports,
         UserInv, LinkInv, fixedVars
    <2>9. PollInv'
      BY <1>4 DEF discovery_completed_cb, bt_kbds_handles_assign,
         bt_kbds_start_per_read_keystates, PollInv, LinkInv, fixedVars
    <2>10. PollingGoesOn'
      BY <1>4 DEF discovery_completed_cb, PollingGoesOn, PollInv, LinkInv, fixedVars
    <2> QED
      BY <2>1, <2>2, <2>3, <2>4, <2>5, <2>6, <2>7, <2>8, <2>9, <2>10
  <1>5. CASE discovery_error_found_cb
    <2>1. LinkOK'
      BY <1>5 DEF discovery_error_found_cb, LinkOK, fixedVars, readVars, pollVars
    <2>2. ClientOK'
      BY <1>5 DEF discovery_error_found_cb, ClientOK, LinkOK, fixedVars, readVars,
         pollVars
    <2>3. PollOK'
      BY <1>5 DEF discovery_error_found_cb, PollOK, LinkOK, fixedVars, readVars,
         pollVars
    <2>4. CountsOK'
      BY <1>5 DEF discovery_error_found_cb, CountsOK, readVars, pollVars
    <2>5. LinkInv'
      BY <1>5 DEF discovery_error_found_cb, LinkInv, fixedVars, readVars, pollVars
    <2>6. UserInv'
      BY <1>5 DEF discovery_error_found_cb, UserInv, LinkInv, OneRead, fixedVars,
         readVars, pollVars
    <2>7. OneRead'
      BY <1>5 DEF discovery_error_found_cb, OneRead, UserInv, LinkInv, CountsOK,
         fixedVars, readVars, pollVars
    <2>8. HubReports'
      BY <1>5 DEF discovery_error_found_cb, HubReports, UserInv, LinkInv, fixedVars,
         readVars, pollVars
    <2>9. PollInv'
      BY <1>5 DEF discovery_error_found_cb, PollInv, LinkInv, fixedVars, readVars,
         pollVars
    <2>10. PollingGoesOn'
      BY <1>5 DEF discovery_error_found_cb, PollingGoesOn, PollInv, LinkInv,
         fixedVars, readVars, pollVars
    <2> QED
      BY <2>1, <2>2, <2>3, <2>4, <2>5, <2>6, <2>7, <2>8, <2>9, <2>10
  <1>6. CASE kbds_read_value_handler
    <2>1. LinkOK'
      BY <1>6 DEF kbds_read_value_handler, LinkOK, fixedVars, linkVars, readVars
    <2>2. ClientOK'
      BY <1>6 DEF kbds_read_value_handler, ClientOK, LinkOK, fixedVars, linkVars,
         readVars
    <2>3. PollOK'
      BY <1>6 DEF kbds_read_value_handler, PollOK, LinkOK, fixedVars, linkVars,
         readVars
    <2>4. CountsOK'
      <3>1. PICK sent \in IF interval /\ conn /\ link /\ polls < MaxPolls
                         THEN BOOLEAN ELSE {FALSE} :
               polls' = IF sent THEN polls + 1 ELSE polls
        BY <1>6 DEF kbds_read_value_handler
      <3>2. CASE sent
        <4>1. polls < MaxPolls
          BY <3>1, <3>2
        <4> QED
          BY <1>6, <3>1, <3>2, <4>1 DEF kbds_read_value_handler, CountsOK, readVars
      <3>3. CASE ~sent
        BY <1>6, <3>1, <3>3 DEF kbds_read_value_handler, CountsOK, readVars
      <3> QED
        BY <3>2, <3>3
    <2>5. LinkInv'
      BY <1>6 DEF kbds_read_value_handler, LinkInv, fixedVars, linkVars, readVars
    <2>6. UserInv'
      BY <1>6 DEF kbds_read_value_handler, UserInv, LinkInv, OneRead, fixedVars,
         linkVars, readVars
    <2>7. OneRead'
      BY <1>6 DEF kbds_read_value_handler, OneRead, UserInv, LinkInv, CountsOK,
         fixedVars, linkVars, readVars
    <2>8. HubReports'
      BY <1>6 DEF kbds_read_value_handler, HubReports, UserInv, LinkInv, fixedVars,
         linkVars, readVars
    <2>9. PollInv'
      BY <1>6 DEF kbds_read_value_handler, PollInv, LinkInv, fixedVars, linkVars,
         readVars
    <2>10. PollingGoesOn'
      <3> SUFFICES ASSUME link', assigned', peer' = "silent", ~refused'
                   PROVE  polls' > 0
        BY DEF PollingGoesOn
      <3>1. interval /\ conn
        BY <1>6 DEF kbds_read_value_handler, linkVars, PollInv
      <3>2. PICK sent \in BOOLEAN :
               /\ polls' = IF sent THEN polls + 1 ELSE polls
               /\ refused' = (refused \/ (interval /\ conn /\ ~sent))
        BY <1>6 DEF kbds_read_value_handler
      <3>3. ~(refused \/ (interval /\ conn /\ ~sent))
        BY <3>2, Zenon
      <3>4. polls' = polls + 1
        BY <3>1, <3>2, <3>3
      <3> QED
        BY <3>4 DEF CountsOK
    <2> QED
      BY <2>1, <2>2, <2>3, <2>4, <2>5, <2>6, <2>7, <2>8, <2>9, <2>10
  <1>7. CASE \E word \in Words : notify_process(word)
    <2>1. LinkOK'
      BY <1>7 DEF notify_process, LinkOK, fixedVars, linkVars, readVars, pollVars
    <2>2. ClientOK'
      BY <1>7 DEF notify_process, ClientOK, LinkOK, fixedVars, linkVars, readVars,
         pollVars
    <2>3. PollOK'
      BY <1>7 DEF notify_process, PollOK, LinkOK, fixedVars, linkVars, readVars,
         pollVars
    <2>4. CountsOK'
      BY <1>7 DEF notify_process, CountsOK, readVars, pollVars
    <2>5. LinkInv'
      BY <1>7 DEF notify_process, LinkInv, fixedVars, linkVars, readVars, pollVars
    <2>6. UserInv'
      BY <1>7 DEF notify_process, UserInv, LinkInv, OneRead, fixedVars, linkVars,
         readVars, pollVars
    <2>7. OneRead'
      BY <1>7 DEF notify_process, OneRead, UserInv, LinkInv, CountsOK, fixedVars,
         linkVars, readVars, pollVars
    <2>8. HubReports'
      BY <1>7 DEF notify_process, HubReports, UserInv, LinkInv, fixedVars, linkVars,
         readVars, pollVars
    <2>9. PollInv'
      BY <1>7 DEF notify_process, PollInv, LinkInv, fixedVars, linkVars, readVars,
         pollVars
    <2>10. PollingGoesOn'
      BY <1>7 DEF notify_process, PollingGoesOn, PollInv, LinkInv, fixedVars,
         linkVars, readVars, pollVars
    <2> QED
      BY <2>1, <2>2, <2>3, <2>4, <2>5, <2>6, <2>7, <2>8, <2>9, <2>10
  <1>8. CASE \E word \in Words, err \in BOOLEAN : read_process(err, LowByte(word))
    <2>1. LinkOK'
      BY <1>8 DEF read_process, LinkOK, fixedVars, linkVars, pollVars
    <2>2. ClientOK'
      BY <1>8 DEF read_process, ClientOK, LinkOK, fixedVars, linkVars, pollVars
    <2>3. PollOK'
      BY <1>8 DEF read_process, PollOK, LinkOK, fixedVars, linkVars, pollVars
    <2>4. CountsOK'
      BY <1>8 DEF read_process, CountsOK, pollVars
    <2>5. LinkInv'
      BY <1>8 DEF read_process, LinkInv, fixedVars, linkVars, pollVars
    <2>6. UserInv'
      BY <1>8 DEF read_process, UserInv, LinkInv, OneRead, fixedVars, linkVars,
         pollVars
    <2>7. OneRead'
      BY <1>8 DEF read_process, OneRead, UserInv, LinkInv, CountsOK, fixedVars,
         linkVars, pollVars
    <2>8. HubReports'
      BY <1>8 DEF read_process, HubReports, UserInv, LinkInv, fixedVars, linkVars,
         pollVars
    <2>9. PollInv'
      BY <1>8 DEF read_process, PollInv, LinkInv, fixedVars, linkVars, pollVars
    <2>10. PollingGoesOn'
      BY <1>8 DEF read_process, PollingGoesOn, PollInv, LinkInv, fixedVars,
         linkVars, pollVars
    <2> QED
      BY <2>1, <2>2, <2>3, <2>4, <2>5, <2>6, <2>7, <2>8, <2>9, <2>10
  <1>9. CASE \E word \in Words, err \in BOOLEAN : periodic_read_process(err, LowByte(word))
    <2>1. LinkOK'
      BY <1>9 DEF periodic_read_process, LinkOK, fixedVars, linkVars, readVars
    <2>2. ClientOK'
      BY <1>9 DEF periodic_read_process, ClientOK, LinkOK, fixedVars, linkVars,
         readVars
    <2>3. PollOK'
      BY <1>9 DEF periodic_read_process, PollOK, LinkOK, fixedVars, linkVars,
         readVars
    <2>4. CountsOK'
      BY <1>9 DEF periodic_read_process, CountsOK, readVars
    <2>5. LinkInv'
      BY <1>9 DEF periodic_read_process, LinkInv, fixedVars, linkVars, readVars
    <2>6. UserInv'
      BY <1>9 DEF periodic_read_process, UserInv, LinkInv, OneRead, fixedVars,
         linkVars, readVars
    <2>7. OneRead'
      BY <1>9 DEF periodic_read_process, OneRead, UserInv, LinkInv, CountsOK,
         fixedVars, linkVars, readVars
    <2>8. HubReports'
      BY <1>9 DEF periodic_read_process, HubReports, UserInv, LinkInv, fixedVars,
         linkVars, readVars
    <2>9. PollInv'
      BY <1>9 DEF periodic_read_process, PollInv, LinkInv, fixedVars, linkVars,
         readVars
    <2>10. PollingGoesOn'
      <3> SUFFICES ASSUME link', assigned', peer' = "silent"
                   PROVE  work'
        BY DEF PollingGoesOn
      <3>1. interval
        BY <1>9 DEF periodic_read_process, linkVars, PollInv
      <3>2. work' = (work \/ interval)
        BY <1>9 DEF periodic_read_process
      <3> QED
        BY <3>1, <3>2, Zenon
    <2> QED
      BY <2>1, <2>2, <2>3, <2>4, <2>5, <2>6, <2>7, <2>8, <2>9, <2>10
  <1>10. CASE UNCHANGED vars
    <2>1. LinkOK'
      BY <1>10 DEF vars, LinkOK, fixedVars, linkVars, readVars, pollVars
    <2>2. ClientOK'
      BY <1>10 DEF vars, ClientOK, LinkOK, fixedVars, linkVars, readVars, pollVars
    <2>3. PollOK'
      BY <1>10 DEF vars, PollOK, LinkOK, fixedVars, linkVars, readVars, pollVars
    <2>4. CountsOK'
      BY <1>10 DEF vars, CountsOK, readVars, pollVars
    <2>5. LinkInv'
      BY <1>10 DEF vars, LinkInv, fixedVars, linkVars, readVars, pollVars
    <2>6. UserInv'
      BY <1>10 DEF vars, UserInv, LinkInv, OneRead, fixedVars, linkVars, readVars,
         pollVars
    <2>7. OneRead'
      BY <1>10 DEF vars, OneRead, UserInv, LinkInv, CountsOK, fixedVars, linkVars,
         readVars, pollVars
    <2>8. HubReports'
      BY <1>10 DEF vars, HubReports, UserInv, LinkInv, fixedVars, linkVars,
         readVars, pollVars
    <2>9. PollInv'
      BY <1>10 DEF vars, PollInv, LinkInv, fixedVars, linkVars, readVars, pollVars
    <2>10. PollingGoesOn'
      BY <1>10 DEF vars, PollingGoesOn, PollInv, LinkInv, fixedVars, linkVars,
         readVars, pollVars
    <2> QED
      BY <2>1, <2>2, <2>3, <2>4, <2>5, <2>6, <2>7, <2>8, <2>9, <2>10
  <1> QED
    BY <1>1, <1>2, <1>3, <1>4, <1>5, <1>6, <1>7, <1>8, <1>9, <1>10 DEF Next

LEMMA Invariance == Spec => []IInv
  BY InitIInv, NextIInv, PTL DEF Spec

-----------------------------------------------------------------------------
\* The client's state is typed: in particular its copy of the key states is a
\* word that a peer sent, the byte of one, or a sentinel, never a mixture.
THEOREM TypeCorrect == Spec => []TypeOK
  <1>1. IInv => TypeOK
    BY DEF IInv
  <1> QED
    BY Invariance, <1>1, PTL

\* The callback of a read is set exactly while the one read waits for its
\* answer: bt_kbds_read_keystates never finds it busy without cause, and
\* read_process never finds it missing.
THEOREM ReadIsAlone == Spec => []OneRead
  <1>1. IInv => OneRead
    BY DEF IInv
  <1> QED
    BY Invariance, <1>1, PTL

\* In the hub a subscription always has its callback, on a discovered link.
THEOREM HubIsTold == Spec => []HubReports
  <1>1. IInv => HubReports
    BY DEF IInv
  <1> QED
    BY Invariance, <1>1, PTL

\* Whatever the answers, a peer without notifications goes on being read.
THEOREM PeerIsPolled == Spec => []PollingGoesOn
  <1>1. IInv => PollingGoesOn
    BY DEF IInv
  <1> QED
    BY Invariance, <1>1, PTL

\* Without a link the work is used up, once, and nothing schedules it again:
\* not the answers that the end of the link brought, not a discovery.
THEOREM PollingWindsDown == Spec => PollingWinds
  <1>1. ASSUME IInv, IInv', [Next]_vars, ~link, ~link'
        PROVE  polls = 0 /\ polls' = 0 /\ (work' => work)
    <2>1. polls = 0 /\ polls' = 0 /\ ~discovery
      BY <1>1 DEF IInv, LinkInv
    <2>2. ~connected /\ ~security_changed /\ ~disconnected /\ ~discovery_completed_cb
          /\ ~discovery_error_found_cb
      BY <1>1, <2>1 DEF connected, security_changed, disconnected, discovery_completed_cb,
         discovery_error_found_cb
    <2>3. ASSUME NEW err, NEW byte PROVE ~periodic_read_process(err, byte)
      BY <2>1 DEF periodic_read_process
    <2>4. kbds_read_value_handler => work
      BY DEF kbds_read_value_handler
    <2>5. ASSUME NEW word, NEW err, NEW byte,
                 notify_process(word) \/ read_process(err, byte) \/ UNCHANGED vars
          PROVE  work' = work
      BY <2>5 DEF notify_process, read_process, vars, pollVars
    <2> QED
      BY <1>1, <2>1, <2>2, <2>3, <2>4, <2>5 DEF Next
  <1> QED
    BY <1>1, Invariance, PTL DEF Spec, PollingWinds
=============================================================================
