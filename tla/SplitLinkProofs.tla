-------------------------- MODULE SplitLinkProofs ---------------------------
(***************************************************************************)
(* HubHasWord for all words and any number of packets on their way.  The   *)
(* inductive invariant says what the packets will leave in the client when *)
(* all of them have been handled.  From it follow the types, and that the  *)
(* hub's copy moves as LeftFeed lets it.                                   *)
(***************************************************************************)
EXTENDS SplitLink, SequenceTheorems, TLAPS

\* The client takes a notification as it is, and an answer that is no larger
\* than BT_KBDS_VAL_MAX.
Effective(packet) ==
    packet.kind = "notification" \/ C!ByteValue(packet.word) <= C!BT_KBDS_VAL_MAX

\* The last of the packets a that takes effect, or the client's copy k if there
\* is none, is the word w.
Tells(k, a, w) ==
    \/ k = w /\ \A i \in 1..Len(a) : ~Effective(a[i])
    \/ \E i \in 1..Len(a) : /\ Effective(a[i]) /\ a[i].word = w
                            /\ \A j \in (i+1)..Len(a) : ~Effective(a[j])

DataOK ==
    /\ app_keystate \in LeftWords
    /\ air \in Seq(Packet)
    /\ requests \in {<<>>, <<"enable">>, <<"read">>, <<"enable", "read">>}

\* The client of the hub: one discovery per link, one read per discovery.
ClientInv ==
    /\ user = "hub" /\ peer = "notifying"
    /\ ~link => ~discovery /\ ~assigned
    /\ discovery => ~assigned
    /\ ~assigned => reads = 0 /\ ~read_cb
    /\ reads \in {0, 1}
    /\ read_cb <=> (reads = 1)

\* Before its discovery nothing has gone over a link.
NewLinkInv ==
    /\ ~link => requests = <<>>
    /\ ~leftLink => ~notify_enabled /\ ~informed
    /\ link /\ ~assigned => /\ ~notify_enabled /\ ~informed
                            /\ air = <<>> /\ requests = <<>>

AsksToRead == requests \in {<<"read">>, <<"enable", "read">>}

\* The read waits to be sent or its answer is on the way, or neither.
ReadInv ==
    link =>
        /\ AsksToRead => /\ reads = 1
                         /\ \A i \in 1..Len(air) : air[i].kind # "answer"
        /\ \A i \in 1..Len(air) : air[i].kind = "answer" =>
              /\ reads = 1
              /\ \A j \in 1..Len(air) : air[j].kind = "answer" => j = i

ToldInv == attached /\ informed => Tells(keystates, air, app_keystate)

IInv == DataOK /\ ClientInv /\ NewLinkInv /\ ReadInv /\ ToldInv

-----------------------------------------------------------------------------
(* What sending and handling a packet do to Tells.                         *)

LEMMA EffectivePacketTells ==
  ASSUME NEW a \in Seq(Packet), NEW p \in Packet, NEW k, Effective(p)
  PROVE  Tells(k, Append(a, p), p.word)
  BY DEF Tells

LEMMA OtherPacketKeeps ==
  ASSUME NEW a \in Seq(Packet), NEW p \in Packet, NEW k, NEW w,
         ~Effective(p), Tells(k, a, w)
  PROVE  Tells(k, Append(a, p), w)
  BY DEF Tells

LEMMA HandlingKeeps ==
  ASSUME NEW a \in Seq(Packet), a # <<>>, NEW k, NEW w, Tells(k, a, w)
  PROVE  Tells(IF Effective(Head(a)) THEN Head(a).word ELSE k, Tail(a), w)
  <1>1. CASE k = w /\ \A i \in 1..Len(a) : ~Effective(a[i])
    BY <1>1 DEF Tells
  <1>2. ASSUME NEW i \in 1..Len(a), Effective(a[i]), a[i].word = w,
               \A j \in (i+1)..Len(a) : ~Effective(a[j])
        PROVE  Tells(IF Effective(Head(a)) THEN Head(a).word ELSE k, Tail(a), w)
    <2>1. CASE i = 1
      BY <1>2, <2>1 DEF Tells
    <2>2. CASE i > 1
      <3>1. i - 1 \in 1..Len(Tail(a)) /\ Tail(a)[i - 1] = a[i]
        BY <2>2
      <3>2. \A j \in i..Len(Tail(a)) : Tail(a)[j] = a[j + 1]
        BY <2>2
      <3> QED
        BY <1>2, <3>1, <3>2 DEF Tells
    <2> QED
      BY <2>1, <2>2
  <1> QED
    BY <1>1, <1>2 DEF Tells

LEMMA BothRequests == Append(<<"enable">>, "read") = <<"enable", "read">>
  <1> DEFINE s == Append(<<"enable">>, "read")
             t == <<"enable", "read">>
  <1>1. s \in Seq({"enable", "read"}) /\ t \in Seq({"enable", "read"})
    OBVIOUS
  <1>2. Len(s) = 2 /\ Len(t) = 2 /\ s[1] = t[1] /\ s[2] = t[2]
    OBVIOUS
  <1>3. \A i \in 1..2 : s[i] = t[i]
    BY <1>2
  <1> HIDE DEF s, t
  <1>4. s = t
    BY <1>1, <1>2, <1>3, SeqEqual
  <1> QED
    BY <1>4 DEF s, t

-----------------------------------------------------------------------------
LEMMA InitIInv == Init => IInv
  <1> SUFFICES ASSUME Init PROVE IInv
    OBVIOUS
  <1> USE DEF Init, LeftInit, C!Init
  <1>1. DataOK
    <2>1. app_keystate \in LeftWords
      BY WordsAssumption
    <2> QED
      BY <2>1 DEF DataOK
  <1>2. user = "hub" /\ peer = "notifying"
    OBVIOUS
  <1>3. ClientInv
    BY <1>2 DEF ClientInv
  <1>4. NewLinkInv /\ ToldInv
    BY DEF NewLinkInv, ToldInv, attached
  <1>5. ReadInv
    BY DEF ReadInv
  <1> QED
    BY <1>1, <1>3, <1>4, <1>5 DEF IInv

LEMMA NextIInv == IInv /\ [Next]_vars => IInv'
  <1> SUFFICES ASSUME IInv, [Next]_vars PROVE IInv'
    OBVIOUS
  <1> USE DEF IInv

  <1>1. CASE Scan
    <2>1. DataOK'
      BY <1>1 DEF Scan, get_keystate, clientVars, hubVars, DataOK
    <2>2. ClientInv'
      BY <1>1 DEF Scan, get_keystate, clientVars, hubVars, ClientInv
    <2>3. NewLinkInv'
      BY <1>1 DEF Scan, get_keystate, clientVars, hubVars, NewLinkInv, ClientInv,
         DataOK, attached
    <2>4. ReadInv'
      BY <1>1 DEF Scan, get_keystate, clientVars, hubVars, ReadInv, NewLinkInv,
         ClientInv, DataOK, AsksToRead
    <2>5. ToldInv'
      BY <1>1 DEF Scan, get_keystate, clientVars, hubVars, ToldInv, attached,
         NewLinkInv
    <2> QED
      BY <2>1, <2>2, <2>3, <2>4, <2>5
  <1>2. CASE Send
    <2> DEFINE packet == [kind |-> "notification", word |-> app_keystate]
    <2>a. packet \in Packet /\ Effective(packet)
      BY DEF DataOK, Packet, Effective
    <2>b. UNCHANGED <<app_keystate, notify_enabled, leftLink, requests>>
      BY <1>2 DEF Send, hubVars, bt_kbds_send_keystate
    <2>c. UNCHANGED clientVars
      BY <1>2 DEF Send, hubVars
    <2>d. \/ air' = air /\ (informed' => informed)
          \/ air' = Append(air, packet) /\ notify_enabled
      <3>1. PICK sent \in BOOLEAN :
               /\ bt_kbds_send_keystate(sent)
               /\ informed' = (informed \/ (sent /\ notify_enabled))
        BY <1>2 DEF Send
      <3>2. CASE sent /\ notify_enabled
        BY <3>1, <3>2 DEF bt_kbds_send_keystate
      <3>3. CASE ~(sent /\ notify_enabled)
        <4>1. informed' => informed
          BY <3>1, <3>3, Zenon
        <4> QED
          BY <3>1, <3>3, <4>1 DEF bt_kbds_send_keystate
      <3> QED
        BY <3>2, <3>3
    <2>1. DataOK'
      <3>1. CASE air' = air
        BY <2>b, <3>1 DEF DataOK
      <3>2. CASE air' = Append(air, packet)
        <4>1. air' \in Seq(Packet)
          BY <2>a, <3>2 DEF DataOK
        <4> QED
          BY <2>b, <4>1 DEF DataOK
      <3> QED
        BY <2>d, <3>1, <3>2
    <2>2. ClientInv'
      BY <2>c DEF clientVars, ClientInv
    <2>3. NewLinkInv'
      <3>1. ~leftLink => ~informed'
        BY <2>d DEF NewLinkInv
      <3>2. link /\ ~assigned => air' = air /\ ~informed'
        BY <2>d DEF NewLinkInv
      <3> QED
        BY <2>b, <2>c, <3>1, <3>2 DEF NewLinkInv, clientVars
    <2>4. ReadInv'
      <3>1. CASE air' = air
        BY <2>b, <2>c, <3>1 DEF ReadInv, AsksToRead, clientVars
      <3>2. CASE air' = Append(air, packet)
        <4>1. \A i \in 1..Len(air') :
                 air'[i].kind = "answer" => i \in 1..Len(air) /\ air'[i] = air[i]
          BY <3>2, <2>a DEF DataOK
        <4> QED
          BY <2>b, <2>c, <4>1 DEF ReadInv, AsksToRead, clientVars
      <3> QED
        BY <2>d, <3>1, <3>2
    <2>5. ToldInv'
      <3>1. CASE air' = air /\ (informed' => informed)
        BY <2>b, <2>c, <3>1 DEF ToldInv, attached, clientVars
      <3>2. CASE air' = Append(air, packet)
        <4>1. Tells(keystates, Append(air, packet), packet.word)
          BY <2>a, EffectivePacketTells DEF DataOK
        <4>2. keystates' = keystates /\ packet.word = app_keystate'
          BY <2>b, <2>c DEF clientVars
        <4> QED
          BY <3>2, <4>1, <4>2 DEF ToldInv
      <3> QED
        BY <2>d, <3>1, <3>2
    <2> QED
      BY <2>1, <2>2, <2>3, <2>4, <2>5
  <1>3. CASE CCCWritten
    <2>a. \/ requests = <<"enable">> /\ requests' = <<>>
          \/ requests = <<"enable", "read">> /\ requests' = <<"read">>
      <3>1. CASE requests = <<"read">>
        BY <1>3, <3>1 DEF CCCWritten
      <3>2. CASE requests = <<"enable">>
        BY <1>3, <3>2 DEF CCCWritten
      <3>3. CASE requests = <<"enable", "read">>
        BY <1>3, <3>3 DEF CCCWritten
      <3> QED
        BY <1>3, <3>1, <3>2, <3>3 DEF CCCWritten, DataOK
    <2>1. DataOK'
      BY <1>3, <2>a DEF CCCWritten, kbdslc_ccc_cfg_changed, DataOK
    <2>2. ClientInv'
      BY <1>3 DEF CCCWritten, kbdslc_ccc_cfg_changed, clientVars, ClientInv
    <2>3. NewLinkInv'
      BY <1>3 DEF CCCWritten, kbdslc_ccc_cfg_changed, clientVars, NewLinkInv,
         ClientInv, DataOK, attached
    <2>4. ReadInv'
      <3>1. AsksToRead' => AsksToRead
        BY <2>a DEF AsksToRead
      <3> QED
        BY <1>3, <3>1 DEF CCCWritten, kbdslc_ccc_cfg_changed, ReadInv, clientVars
    <2>5. ToldInv'
      BY <1>3 DEF CCCWritten, kbdslc_ccc_cfg_changed, clientVars, ToldInv, attached,
         NewLinkInv
    <2> QED
      BY <2>1, <2>2, <2>3, <2>4, <2>5
  <1>4. CASE ReadAnswered
    <2> DEFINE packet == [kind |-> "answer", word |-> LowByte(app_keystate)]
    <2>a. packet \in Packet
      BY DEF DataOK, Packet
    <2>b. air' = Append(air, packet)
      BY <1>4 DEF ReadAnswered, read_button
    <2>c. requests = <<"read">> /\ requests' = <<>>
      <3>1. CASE requests = <<"read">>
        BY <1>4, <3>1 DEF ReadAnswered
      <3>2. CASE requests \in {<<"enable">>, <<"enable", "read">>}
        BY <1>4, <3>2 DEF ReadAnswered
      <3> QED
        BY <1>4, <3>1, <3>2 DEF ReadAnswered, DataOK
    <2>d. UNCHANGED <<app_keystate, notify_enabled, leftLink>> /\ UNCHANGED clientVars
      BY <1>4 DEF ReadAnswered, read_button
    <2>1. DataOK'
      <3>1. air' \in Seq(Packet)
        BY <2>a, <2>b DEF DataOK
      <3> QED
        BY <2>c, <2>d, <3>1 DEF DataOK
    <2>2. ClientInv'
      BY <1>4 DEF ReadAnswered, read_button, clientVars, ClientInv
    <2>3. NewLinkInv'
      BY <1>4 DEF ReadAnswered, read_button, clientVars, NewLinkInv, ClientInv,
         DataOK, attached
    <2>4. ReadInv'
      <3>1. link => reads = 1 /\ \A i \in 1..Len(air) : air[i].kind # "answer"
        BY <2>c DEF ReadInv, AsksToRead
      <3>2. \A i \in 1..Len(air') :
               i # Len(air) + 1 => i \in 1..Len(air) /\ air'[i] = air[i]
        BY <2>a, <2>b DEF DataOK
      <3>3. Len(air) \in Nat
        BY DEF DataOK
      <3>4. link => \A i \in 1..Len(air') : air'[i].kind = "answer" => i = Len(air) + 1
        BY <3>1, <3>2
      <3> QED
        BY <2>c, <2>d, <3>1, <3>4 DEF ReadInv, AsksToRead, clientVars
    <2>5. ToldInv'
      <3> SUFFICES ASSUME attached', informed'
                   PROVE  Tells(keystates', air', app_keystate')
        BY DEF ToldInv
      <3>1. keystates' = keystates /\ app_keystate' = app_keystate /\ attached
        BY <2>d DEF clientVars, attached
      <3>2. CASE Effective(packet)
        <4>1. informed' = (LowByte(app_keystate) = app_keystate)
          BY <1>4, <3>2 DEF ReadAnswered, Effective
        <4>2. packet.word = app_keystate
          BY <4>1, Zenon
        <4>3. Tells(keystates, Append(air, packet), packet.word)
          BY <2>a, <3>2, EffectivePacketTells DEF DataOK
        <4> QED
          BY <2>b, <3>1, <4>2, <4>3
      <3>3. CASE ~Effective(packet)
        <4>1. informed
          BY <1>4, <3>3 DEF ReadAnswered, Effective
        <4>2. Tells(keystates, air, app_keystate)
          BY <3>1, <4>1 DEF ToldInv
        <4> QED
          BY <2>a, <2>b, <3>1, <3>3, <4>2, OtherPacketKeeps DEF DataOK
      <3> QED
        BY <3>2, <3>3
    <2> QED
      BY <2>1, <2>2, <2>3, <2>4, <2>5
  <1>5. CASE LeftDisconnected
    <2>1. DataOK'
      <3>1. PICK n \in 0..Len(air) : air' = SubSeq(air, 1, n)
        BY <1>5 DEF LeftDisconnected, disconnected
      <3>2. air' \in Seq(Packet)
        BY <3>1 DEF DataOK
      <3> QED
        BY <1>5, <3>2 DEF LeftDisconnected, disconnected, hubVars, DataOK
    <2>2. ClientInv'
      BY <1>5 DEF LeftDisconnected, disconnected, clientVars, hubVars, ClientInv
    <2>3. NewLinkInv'
      BY <1>5 DEF LeftDisconnected, disconnected, clientVars, hubVars, NewLinkInv,
         ClientInv, DataOK, attached
    <2>4. ReadInv'
      BY <1>5 DEF LeftDisconnected, disconnected, clientVars, hubVars, ReadInv,
         NewLinkInv, ClientInv, DataOK, AsksToRead
    <2>5. ToldInv'
      BY <1>5 DEF LeftDisconnected, disconnected, clientVars, hubVars, ToldInv,
         attached, NewLinkInv
    <2> QED
      BY <2>1, <2>2, <2>3, <2>4, <2>5
  <1>6. CASE Connected
    <2>1. DataOK'
      BY <1>6 DEF Connected, C!connected, C!gatt_discover, C!fixedVars, C!readVars,
         DataOK
    <2>2. ClientInv'
      BY <1>6 DEF Connected, C!connected, C!gatt_discover, C!fixedVars, C!readVars,
         ClientInv
    <2>3. NewLinkInv'
      BY <1>6 DEF Connected, C!connected, C!gatt_discover, C!fixedVars, C!readVars,
         NewLinkInv, ClientInv, DataOK, attached
    <2>4. ReadInv'
      BY <1>6 DEF Connected, C!connected, C!gatt_discover, C!fixedVars, C!readVars,
         ReadInv, NewLinkInv, ClientInv, DataOK, AsksToRead
    <2>5. ToldInv'
      <3>1. ~informed'
        BY <1>6 DEF Connected, NewLinkInv
      <3> QED
        BY <3>1 DEF ToldInv
    <2> QED
      BY <2>1, <2>2, <2>3, <2>4, <2>5
  <1>7. CASE DiscoveryFailed
    <2>1. DataOK'
      BY <1>7 DEF DiscoveryFailed, C!discovery_error_found_cb, C!fixedVars,
         C!readVars, leftVars, DataOK
    <2>2. ClientInv'
      BY <1>7 DEF DiscoveryFailed, C!discovery_error_found_cb, C!fixedVars,
         C!readVars, leftVars, ClientInv
    <2>3. NewLinkInv'
      BY <1>7 DEF DiscoveryFailed, C!discovery_error_found_cb, C!fixedVars,
         C!readVars, leftVars, NewLinkInv, ClientInv, DataOK, attached
    <2>4. ReadInv'
      BY <1>7 DEF DiscoveryFailed, C!discovery_error_found_cb, C!fixedVars,
         C!readVars, leftVars, ReadInv, NewLinkInv, ClientInv, DataOK, AsksToRead
    <2>5. ToldInv'
      BY <1>7 DEF DiscoveryFailed, C!discovery_error_found_cb, C!fixedVars,
         C!readVars, leftVars, ToldInv, attached, NewLinkInv
    <2> QED
      BY <2>1, <2>2, <2>3, <2>4, <2>5
  <1>8. CASE DiscoveryCompleted
    <2>a. /\ ~assigned /\ link /\ reads = 0
          /\ requests = <<>> /\ air = <<>> /\ ~informed
      BY <1>8 DEF DiscoveryCompleted, C!discovery_completed_cb, ClientInv, NewLinkInv
    <2>b. PICK sent \in BOOLEAN :
             read_cb' = sent /\ reads' = IF sent THEN reads + 1 ELSE reads
      BY <1>8 DEF DiscoveryCompleted, C!discovery_completed_cb, C!bt_kbds_read_keystates,
         ClientInv
    <2>c. reads' \in {0, 1} /\ (read_cb' <=> (reads' = 1))
      <3>1. CASE sent
        BY <2>a, <2>b, <3>1
      <3>2. CASE ~sent
        BY <2>a, <2>b, <3>2
      <3> QED
        BY <3>1, <3>2
    <2>d. \/ requests' \in {<<>>, <<"enable">>}
          \/ requests' \in {<<"read">>, <<"enable", "read">>} /\ reads' = 1
      <3>1. CASE reads' = 1
        <4>1. requests' = Append(IF subscribed' THEN <<"enable">> ELSE <<>>, "read")
          BY <1>8, <2>a, <3>1 DEF DiscoveryCompleted
        <4>2. CASE subscribed'
          BY <3>1, <4>1, <4>2, BothRequests
        <4>3. CASE ~subscribed'
          <5>1. Append(<<>>, "read") = <<"read">>
            OBVIOUS
          <5> QED
            BY <3>1, <4>1, <4>3, <5>1
        <4> QED
          BY <4>2, <4>3
      <3>2. CASE reads' = 0
        <4>1. requests' = IF subscribed' THEN <<"enable">> ELSE <<>>
          BY <1>8, <2>a, <3>2 DEF DiscoveryCompleted
        <4> QED
          BY <4>1
      <3> QED
        BY <2>c, <3>1, <3>2
    <2>e. UNCHANGED <<app_keystate, notify_enabled, leftLink, air, informed>>
      BY <1>8 DEF DiscoveryCompleted, leftVars
    <2>1. DataOK'
      <3>1. requests' \in {<<>>, <<"enable">>, <<"read">>, <<"enable", "read">>}
        BY <2>d
      <3> QED
        BY <2>e, <3>1 DEF DataOK
    <2>2. ClientInv'
      <3>1. user' = user /\ peer' = peer /\ link' = link /\ ~discovery' /\ assigned'
        BY <1>8 DEF DiscoveryCompleted, C!discovery_completed_cb, C!fixedVars
      <3> QED
        BY <2>a, <2>c, <3>1 DEF ClientInv
    <2>3. NewLinkInv'
      BY <1>8 DEF DiscoveryCompleted, C!discovery_completed_cb, C!fixedVars,
         leftVars, NewLinkInv, ClientInv, DataOK, attached
    <2>4. ReadInv'
      <3>1. AsksToRead' => reads' = 1
        BY <2>c, <2>d DEF AsksToRead
      <3> QED
        BY <2>a, <2>e, <3>1 DEF ReadInv
    <2>5. ToldInv'
      BY <2>a, <2>e DEF ToldInv
    <2> QED
      BY <2>1, <2>2, <2>3, <2>4, <2>5
  <1>9. CASE Receive
    <2> DEFINE packet == Head(air)
    <2>a. air # <<>> /\ air' = Tail(air) /\ packet = air[1] /\ packet \in Packet
      BY <1>9 DEF Receive, DataOK
    <2>b. UNCHANGED <<app_keystate, notify_enabled, leftLink, requests, informed>>
      BY <1>9 DEF Receive
    <2>c. UNCHANGED <<user, link, peer, discovery, assigned>> /\ link /\ assigned
      BY <1>9, <2>a DEF Receive, C!read_process, C!notify_process, C!fixedVars,
         C!linkVars, NewLinkInv
    <2>d. \A i \in 1..Len(air') : i + 1 \in 1..Len(air) /\ air'[i] = air[i + 1]
      BY <2>a DEF DataOK
    <2>e. packet.kind = "answer" => /\ reads = 1 /\ read_cb
                                    /\ ~AsksToRead
                                    /\ reads' = 0 /\ ~read_cb'
                                    /\ \A i \in 1..Len(air') : air'[i].kind # "answer"
      <3> SUFFICES ASSUME packet.kind = "answer"
                   PROVE  /\ reads = 1 /\ read_cb /\ ~AsksToRead
                          /\ reads' = 0 /\ ~read_cb'
                          /\ \A i \in 1..Len(air') : air'[i].kind # "answer"
        OBVIOUS
      <3>1. 1 \in 1..Len(air)
        BY <2>a DEF DataOK
      <3>2. reads = 1 /\ read_cb /\ ~AsksToRead
        BY <2>a, <2>c, <3>1 DEF ReadInv, ClientInv
      <3>3. reads' = 0 /\ ~read_cb'
        BY <1>9, <3>2 DEF Receive, C!read_process
      <3>4. \A j \in 1..Len(air) : air[j].kind = "answer" => j = 1
        BY <2>a, <2>c, <3>1 DEF ReadInv
      <3>5. \A i \in 1..Len(air') : air'[i].kind # "answer"
        BY <2>d, <3>4
      <3> QED
        BY <3>2, <3>3, <3>5
    <2>f. packet.kind # "answer" => UNCHANGED <<reads, read_cb>>
      BY <1>9 DEF Receive, C!notify_process, C!readVars
    <2>1. DataOK'
      <3>1. air' \in Seq(Packet)
        BY <2>a DEF DataOK
      <3> QED
        BY <2>b, <3>1 DEF DataOK
    <2>2. ClientInv'
      <3>1. CASE packet.kind = "answer"
        BY <2>c, <2>e, <3>1 DEF ClientInv
      <3>2. CASE packet.kind # "answer"
        BY <2>c, <2>f, <3>2 DEF ClientInv
      <3> QED
        BY <3>1, <3>2
    <2>3. NewLinkInv'
      BY <2>b, <2>c DEF NewLinkInv
    <2>4. ReadInv'
      <3>1. CASE packet.kind = "answer"
        BY <2>b, <2>e, <3>1 DEF ReadInv, AsksToRead
      <3>2. CASE packet.kind # "answer"
        <4>1. \A i, j \in 1..Len(air') :
                 air'[i].kind = "answer" /\ air'[j].kind = "answer" => j = i
          BY <2>c, <2>d DEF ReadInv
        <4>2. \A i \in 1..Len(air') : air'[i].kind = "answer" => reads = 1 /\ ~AsksToRead
          BY <2>c, <2>d DEF ReadInv
        <4> QED
          BY <2>b, <2>c, <2>f, <3>2, <4>1, <4>2 DEF ReadInv, AsksToRead
      <3> QED
        BY <3>1, <3>2
    <2>5. ToldInv'
      <3>1. keystates' = IF Effective(packet) THEN packet.word ELSE keystates
        <4>1. CASE packet.kind = "answer"
          BY <1>9, <2>e, <4>1 DEF Receive, C!read_process, Effective
        <4>2. CASE packet.kind # "answer"
          BY <1>9, <2>a, <4>2 DEF Receive, C!notify_process, Effective, Packet
        <4> QED
          BY <4>1, <4>2
      <3>2. Tells(keystates, air, app_keystate) => Tells(keystates', air', app_keystate)
        BY <2>a, <3>1, HandlingKeeps DEF DataOK
      <3> QED
        BY <2>b, <2>c, <3>2 DEF ToldInv, attached
    <2> QED
      BY <2>1, <2>2, <2>3, <2>4, <2>5
  <1>10. CASE HubDisconnected
    <2>1. DataOK'
      BY <1>10 DEF HubDisconnected, C!disconnected, C!fixedVars, DataOK
    <2>2. ClientInv'
      <3>1. /\ user' = user /\ peer' = peer
            /\ ~link' /\ ~discovery' /\ ~assigned' /\ reads' = 0
        BY <1>10 DEF HubDisconnected, C!disconnected, C!fixedVars
      <3>2. read_cb' = (read_cb /\ reads = 0)
        BY <1>10 DEF HubDisconnected, C!disconnected
      <3>3. ~(read_cb /\ reads = 0)
        BY DEF ClientInv
      <3>4. ~read_cb'
        BY <3>2, <3>3, Zenon
      <3> QED
        BY <3>1, <3>4 DEF ClientInv
    <2>3. NewLinkInv'
      BY <1>10 DEF HubDisconnected, C!disconnected, C!fixedVars, NewLinkInv,
         ClientInv, DataOK, attached
    <2>4. ReadInv'
      BY <1>10 DEF HubDisconnected, C!disconnected, C!fixedVars, ReadInv,
         NewLinkInv, ClientInv, DataOK, AsksToRead
    <2>5. ToldInv'
      BY <1>10 DEF HubDisconnected, C!disconnected, C!fixedVars, ToldInv, attached,
         NewLinkInv
    <2> QED
      BY <2>1, <2>2, <2>3, <2>4, <2>5
  <1>11. CASE UNCHANGED vars
    <2>1. DataOK'
      BY <1>11 DEF vars, leftVars, clientVars, hubVars, DataOK
    <2>2. ClientInv'
      BY <1>11 DEF vars, leftVars, clientVars, hubVars, ClientInv
    <2>3. NewLinkInv'
      BY <1>11 DEF vars, leftVars, clientVars, hubVars, NewLinkInv, ClientInv,
         DataOK, attached
    <2>4. ReadInv'
      BY <1>11 DEF vars, leftVars, clientVars, hubVars, ReadInv, NewLinkInv,
         ClientInv, DataOK, AsksToRead
    <2>5. ToldInv'
      BY <1>11 DEF vars, leftVars, clientVars, hubVars, ToldInv, attached,
         NewLinkInv
    <2> QED
      BY <2>1, <2>2, <2>3, <2>4, <2>5
  <1> QED
    BY <1>1, <1>2, <1>3, <1>4, <1>5, <1>6, <1>7, <1>8, <1>9, <1>10, <1>11 DEF Next

\* When nothing is on its way and the last packet told the whole word, the hub
\* has it, for all words and however many packets may be on their way
\* (get_keystate, bt_kbds_send_keystate, notify_process, read_process).
THEOREM HubKnowsWord == Spec => []HubHasWord
  <1>1. IInv => HubHasWord
    BY DEF IInv, ToldInv, Tells, HubHasWord
  <1> QED
    BY InitIInv, NextIInv, <1>1, PTL DEF Spec

-----------------------------------------------------------------------------
(* How many packets are still to arrive.                                   *)

\* What the left half is about to send differs from what it sent last.
SendIsDue == left_pc = "send" => button_state # app_keystate

LEMMA InitSendIsDue == Init => SendIsDue
  BY DEF Init, LeftInit, SendIsDue

LEMMA NextSendIsDue == SendIsDue /\ [Next]_vars => SendIsDue'
  <1> SUFFICES ASSUME SendIsDue, [Next]_vars PROVE SendIsDue'
    OBVIOUS
  <1>1. CASE Scan
    BY <1>1 DEF Scan, get_keystate, SendIsDue
  <1>2. CASE Send
    BY <1>2 DEF Send, bt_kbds_send_keystate, SendIsDue
  <1>3. CASE UNCHANGED <<left_pc, button_state, app_keystate>>
    BY <1>3 DEF SendIsDue
  <1> QED
    BY <1>1, <1>2, <1>3 DEF Next, vars, leftVars, CCCWritten, kbdslc_ccc_cfg_changed,
       ReadAnswered, read_button, LeftDisconnected, disconnected, Connected,
       DiscoveryFailed, DiscoveryCompleted, Receive, HubDisconnected

\* A word that stands and was told is on its way: each packet that arrives is
\* one less to come, and none is added, neither by the loop of the left half,
\* which notifies at most once more, nor by the read of the hub.
THEOREM NewsIsOnItsWay == Spec => NewsArrives
  <1> DEFINE due == IF button_state = app_keystate THEN 0 ELSE 2
  <1>1. ASSUME IInv, SendIsDue, [Next]_vars, attached, informed, attached', informed',
               app_keystate' = app_keystate
        PROVE  ToArrive' <= ToArrive /\ (Receive => ToArrive' < ToArrive)
    <2>1. /\ Len(air) \in Nat /\ Len(requests) \in Nat /\ due \in {0, 2}
          /\ air \in Seq(Packet) /\ requests \in Seq({"enable", "read"})
      <3>1. air \in Seq(Packet)
        BY <1>1 DEF IInv, DataOK
      <3>2. requests \in {<<>>, <<"enable">>, <<"read">>, <<"enable", "read">>}
        BY <1>1 DEF IInv, DataOK
      <3>3. requests \in Seq({"enable", "read"})
        <4>1. CASE requests = <<>>
          BY <4>1
        <4>2. CASE requests = <<"enable">>
          BY <4>2
        <4>3. CASE requests = <<"read">>
          BY <4>3
        <4>4. CASE requests = <<"enable", "read">>
          BY <4>4
        <4> QED
          BY <3>2, <4>1, <4>2, <4>3, <4>4
      <3>4. due \in {0, 2}
        OBVIOUS
      <3> HIDE DEF due
      <3> QED
        BY <3>1, <3>3, <3>4
    <2>2. ToArrive = Len(air) + 2 * Len(requests) + due
      BY DEF ToArrive
    <2>3. ToArrive' = Len(air') + 2 * Len(requests') + due'
      BY DEF ToArrive
    <2>4. CASE Receive
      <3>1. Len(air') = Len(air) - 1
        BY <2>1, <2>4 DEF Receive
      <3>2. requests' = requests /\ due' = due
        BY <2>4 DEF Receive
      <3> HIDE DEF due
      <3> QED
        BY <2>1, <2>2, <2>3, <3>1, <3>2
    <2>5. ASSUME ~Receive, ToArrive' <= ToArrive
          PROVE  ToArrive' <= ToArrive /\ (Receive => ToArrive' < ToArrive)
      BY <2>5
    <2>6. CASE Send
      <3>1. due = 2 /\ due' = 0
        BY <1>1, <2>6 DEF Send, bt_kbds_send_keystate, SendIsDue
      <3>2. Len(air') <= Len(air) + 1 /\ Len(air') \in Nat
        <4>1. PICK packet \in Packet : air' \in {air, Append(air, packet)}
          BY <1>1, <2>6 DEF Send, bt_kbds_send_keystate, IInv, DataOK, Packet
        <4> QED
          BY <2>1, <4>1
      <3>3. requests' = requests
        BY <2>6 DEF Send, hubVars
      <3> HIDE DEF due
      <3>4. ToArrive' <= ToArrive
        BY <2>1, <2>2, <2>3, <3>1, <3>2, <3>3
      <3>5. ~Receive \/ Receive
        OBVIOUS
      <3> QED
        BY <2>4, <2>5, <3>4, <3>5
    <2>7. CASE CCCWritten
      <3>1. Len(requests') = Len(requests) - 1
        BY <2>1, <2>7 DEF CCCWritten
      <3>2. air' = air /\ due' = due
        BY <2>7 DEF CCCWritten, kbdslc_ccc_cfg_changed
      <3> HIDE DEF due
      <3>3. ToArrive' <= ToArrive
        BY <2>1, <2>2, <2>3, <3>1, <3>2
      <3> QED
        BY <2>4, <2>5, <3>3
    <2>8. CASE ReadAnswered
      <3>1. Len(requests') = Len(requests) - 1
        BY <2>1, <2>8 DEF ReadAnswered
      <3>2. Len(air') = Len(air) + 1 /\ due' = due
        <4>1. PICK packet : air' = Append(air, packet)
          BY <2>8 DEF ReadAnswered, read_button
        <4> QED
          BY <2>1, <2>8, <4>1 DEF ReadAnswered, read_button
      <3> HIDE DEF due
      <3>3. ToArrive' <= ToArrive
        BY <2>1, <2>2, <2>3, <3>1, <3>2
      <3> QED
        BY <2>4, <2>5, <3>3
    <2>9. CASE Scan \/ DiscoveryFailed \/ UNCHANGED vars
      <3>1. UNCHANGED <<air, requests, button_state, app_keystate>>
        BY <1>1, <2>9 DEF Scan, get_keystate, hubVars, DiscoveryFailed, leftVars, vars
      <3> HIDE DEF due
      <3>2. ToArrive' = ToArrive
        BY <3>1 DEF ToArrive
      <3> QED
        BY <2>1, <2>2, <2>4, <2>5, <3>2
    <2>10. ~LeftDisconnected /\ ~Connected /\ ~HubDisconnected
      BY <1>1 DEF attached, LeftDisconnected, disconnected, Connected, C!connected,
         HubDisconnected, C!disconnected
    <2>11. ~DiscoveryCompleted
      BY <1>1 DEF attached, DiscoveryCompleted, C!discovery_completed_cb, IInv, ClientInv,
         NewLinkInv
    <2> QED
      BY <1>1, <2>4, <2>6, <2>7, <2>8, <2>9, <2>10, <2>11 DEF Next
  <1> QED
    BY <1>1, InitIInv, NextIInv, InitSendIsDue, NextSendIsDue, PTL DEF Spec, NewsArrives

-----------------------------------------------------------------------------
(* Types.                                                                  *)

RestOK ==
    /\ button_state \in LeftWords /\ left_pc \in {"scan", "send"}
    /\ notify_enabled \in BOOLEAN /\ leftLink \in BOOLEAN
    /\ Len(air) <= MaxAir

LEMMA InitRestOK == Init => RestOK
  <1> SUFFICES ASSUME Init PROVE RestOK
    OBVIOUS
  <1>1. button_state \in LeftWords /\ left_pc \in {"scan", "send"}
    BY Zenon DEF Init, LeftInit
  <1>2. notify_enabled \in BOOLEAN /\ leftLink \in BOOLEAN
    BY Zenon DEF Init, LeftInit
  <1>3. air = <<>> /\ MaxAir \in Nat
    BY AirAssumption DEF Init, LeftInit
  <1>4. Len(air) <= MaxAir
    BY <1>3
  <1> QED
    BY <1>1, <1>2, <1>4, Zenon DEF RestOK

LEMMA NextRestOK == IInv /\ RestOK /\ [Next]_vars => RestOK'
  <1> SUFFICES ASSUME IInv, RestOK, [Next]_vars PROVE RestOK'
    OBVIOUS
  <1>0. app_keystate \in LeftWords /\ air \in Seq(Packet) /\ MaxAir \in Nat
    BY AirAssumption DEF IInv, DataOK
  <1>1. CASE Scan
    BY <1>1 DEF Scan, get_keystate, RestOK
  <1>2. CASE Send
    <2>1. PICK sent \in IF Len(air) < MaxAir THEN BOOLEAN ELSE {FALSE} :
             bt_kbds_send_keystate(sent)
      BY <1>2 DEF Send
    <2>2. Len(air') <= MaxAir
      <3>1. CASE sent
        <4>0. Len(air) < MaxAir
          BY <3>1, Zenon
        <4>1. Len(air) < MaxAir /\ Len(air) \in Nat
          BY <1>0, <4>0
        <4>2. CASE notify_enabled
          <5>1. air' = Append(air, [kind |-> "notification", word |-> app_keystate])
            BY <2>1, <3>1, <4>2 DEF bt_kbds_send_keystate
          <5> QED
            BY <1>0, <4>1, <5>1
        <4>3. CASE ~notify_enabled
          BY <2>1, <4>3, Zenon DEF bt_kbds_send_keystate, RestOK
        <4> QED
          BY <4>2, <4>3
      <3>2. CASE ~sent
        BY <1>0, <2>1, <3>2 DEF bt_kbds_send_keystate, RestOK
      <3> QED
        BY <3>1, <3>2
    <2> QED
      BY <1>0, <2>1, <2>2 DEF bt_kbds_send_keystate, RestOK
  <1>3. CASE CCCWritten
    BY <1>3 DEF CCCWritten, kbdslc_ccc_cfg_changed, RestOK
  <1>4. CASE ReadAnswered
    BY <1>0, <1>4 DEF ReadAnswered, read_button, RestOK
  <1>5. CASE LeftDisconnected
    <2>1. PICK n \in 0..Len(air) : air' = SubSeq(air, 1, n)
      BY <1>5 DEF LeftDisconnected, disconnected
    <2>2. Len(air') <= Len(air)
      BY <1>0, <2>1
    <2>3. Len(air') <= MaxAir
      BY <1>0, <2>1, <2>2 DEF RestOK
    <2> QED
      BY <1>5, <2>3 DEF LeftDisconnected, disconnected, RestOK
  <1>6. CASE Connected \/ HubDisconnected
    <2>1. air' = <<>> /\ leftLink' \in BOOLEAN
      BY <1>6, Zenon DEF Connected, HubDisconnected, RestOK
    <2>2. Len(air') <= MaxAir
      BY <1>0, <2>1
    <2> QED
      BY <1>6, <2>1, <2>2, Zenon DEF Connected, HubDisconnected, RestOK
  <1>7. CASE DiscoveryFailed \/ DiscoveryCompleted
    BY <1>7 DEF DiscoveryFailed, DiscoveryCompleted, leftVars, RestOK
  <1>8. CASE Receive
    BY <1>0, <1>8 DEF Receive, RestOK
  <1>9. CASE UNCHANGED vars
    BY <1>9 DEF vars, leftVars, RestOK
  <1> QED
    BY <1>1, <1>2, <1>3, <1>4, <1>5, <1>6, <1>7, <1>8, <1>9 DEF Next

\* The client: KbdsClient's types, for the one peer that notifies.
ClientTyped == C!TypeOK /\ informed \in BOOLEAN

LEMMA InitClientTyped == Init => ClientTyped
  <1> SUFFICES ASSUME Init PROVE ClientTyped
    OBVIOUS
  <1>1. C!LinkOK /\ C!PollOK
    BY Zenon DEF Init, C!Init, C!LinkOK, C!PollOK
  <1>2. C!ClientOK
    BY Zenon DEF Init, C!Init, C!ClientOK
  <1>3. C!CountsOK
    BY DEF Init, C!Init, C!CountsOK
  <1>4. informed \in BOOLEAN
    BY Zenon DEF Init
  <1> QED
    BY <1>1, <1>2, <1>3, <1>4, Zenon DEF ClientTyped, C!TypeOK

LEMMA NextClientTyped == IInv /\ ClientTyped /\ [Next]_vars => ClientTyped'
  <1> SUFFICES ASSUME IInv, ClientTyped, [Next]_vars PROVE ClientTyped'
    OBVIOUS
  <1> USE DEF ClientTyped, C!TypeOK
  <1>1. CASE UNCHANGED clientVars /\ informed' \in BOOLEAN
    BY <1>1 DEF clientVars, C!LinkOK, C!ClientOK, C!PollOK, C!CountsOK
  <1>2. CASE Scan \/ Send \/ CCCWritten \/ ReadAnswered \/ LeftDisconnected
    BY <1>1, <1>2 DEF Scan, Send, CCCWritten, ReadAnswered, LeftDisconnected, hubVars
  <1>3. CASE Connected
    <2>1. C!LinkOK'
      BY <1>3, Zenon DEF Connected, C!connected, C!gatt_discover, C!fixedVars, C!LinkOK
    <2>2. C!ClientOK' /\ C!PollOK' /\ C!CountsOK' /\ informed' = informed
      BY <1>3 DEF Connected, C!connected, C!readVars, C!pollVars, C!ClientOK, C!PollOK,
         C!CountsOK
    <2> QED
      BY <2>1, <2>2
  <1>4. CASE DiscoveryFailed
    <2>1. C!LinkOK'
      BY <1>4, Zenon DEF DiscoveryFailed, C!discovery_error_found_cb, C!fixedVars, C!LinkOK
    <2>2. C!ClientOK' /\ C!PollOK' /\ C!CountsOK' /\ informed' = informed
      BY <1>4 DEF DiscoveryFailed, C!discovery_error_found_cb, C!readVars, C!pollVars,
         C!ClientOK, C!PollOK, C!CountsOK
    <2> QED
      BY <2>1, <2>2
  <1>5. CASE DiscoveryCompleted
    <2>1. C!discovery_completed_cb /\ informed' = informed
      BY <1>5 DEF DiscoveryCompleted
    <2>0. peer = "notifying"
      BY DEF IInv, ClientInv
    <2>2. C!LinkOK'
      <3>1. /\ user' = user /\ link' = link /\ peer' = peer
            /\ discovery' = FALSE /\ assigned' = TRUE
        BY <2>1 DEF C!discovery_completed_cb, C!fixedVars
      <3>2. conn' \in BOOLEAN
        BY <2>1, Zenon DEF C!discovery_completed_cb, C!bt_kbds_handles_assign
      <3>3. subscribed' \in BOOLEAN
        BY <2>0, <2>1, Zenon DEF C!discovery_completed_cb, C!bt_kbds_subscribe_keystates
      <3> QED
        BY <3>1, <3>2, <3>3, Zenon DEF C!LinkOK
    <2>3. C!ClientOK'
      <3>1. keystates' = C!BT_KBDS_VAL_INVALID
        BY <2>1 DEF C!discovery_completed_cb, C!bt_kbds_handles_assign
      <3>2. notify_cb' \in BOOLEAN
        BY <2>0, <2>1, Zenon DEF C!discovery_completed_cb, C!bt_kbds_subscribe_keystates
      <3>3. read_cb' \in BOOLEAN
        <4>1. user = "hub"
          BY DEF IInv, ClientInv
        <4>2. C!bt_kbds_read_keystates
          BY <2>1, <4>1, Zenon DEF C!discovery_completed_cb
        <4>3. PICK sent \in IF conn' THEN BOOLEAN ELSE {FALSE} : read_cb' = sent
          BY <4>2, Zenon DEF C!bt_kbds_read_keystates
        <4> QED
          BY <4>3
      <3> QED
        BY <3>1, <3>2, <3>3, Zenon DEF C!ClientOK
    <2>4. C!PollOK'
      <3>1. interval' = interval
        BY <2>0, <2>1 DEF C!discovery_completed_cb, C!bt_kbds_subscribe_keystates
      <3>2. work' \in BOOLEAN /\ refused' \in BOOLEAN
        BY <2>1, Zenon DEF C!discovery_completed_cb
      <3> QED
        BY <3>1, <3>2, Zenon DEF C!PollOK
    <2>5. C!CountsOK'
      <3>1. reads' \in {reads, reads + 1} /\ polls' = polls
        BY <2>1 DEF C!discovery_completed_cb, C!bt_kbds_read_keystates
      <3> QED
        BY <3>1 DEF C!CountsOK
    <2> QED
      BY <2>1, <2>2, <2>3, <2>4, <2>5
  <1>6. CASE Receive
    <2>1. Head(air) \in Packet
      BY <1>6 DEF Receive, IInv, DataOK
    <2>2. CASE Head(air).kind = "answer"
      <3>1. C!read_process(FALSE, Head(air).word) /\ informed' = informed
        BY <1>6, <2>2 DEF Receive
      <3>2. PICK word \in LeftWords : Head(air).word = C!LowByte(word)
        BY <2>1, <2>2 DEF Packet, C!LowByte, LowByte
      <3>3. keystates' \in {Head(air).word, keystates}
        BY <3>1 DEF C!read_process
      <3>4. C!ClientOK'
        BY <3>1, <3>2, <3>3 DEF C!read_process, C!ClientOK
      <3>5. C!LinkOK' /\ C!PollOK' /\ C!CountsOK'
        BY <3>1 DEF C!read_process, C!fixedVars, C!linkVars, C!pollVars, C!LinkOK, C!PollOK,
           C!CountsOK
      <3> QED
        BY <3>1, <3>4, <3>5
    <2>3. CASE Head(air).kind # "answer"
      <3>1. C!notify_process(Head(air).word) /\ informed' = informed
        BY <1>6, <2>3 DEF Receive
      <3>2. Head(air).word \in LeftWords
        BY <2>1, <2>3 DEF Packet
      <3>3. C!ClientOK'
        BY <3>1, <3>2 DEF C!notify_process, C!readVars, C!ClientOK
      <3>4. C!LinkOK' /\ C!PollOK' /\ C!CountsOK'
        BY <3>1 DEF C!notify_process, C!fixedVars, C!linkVars, C!readVars, C!pollVars,
           C!LinkOK, C!PollOK, C!CountsOK
      <3> QED
        BY <3>1, <3>3, <3>4
    <2> QED
      BY <2>2, <2>3
  <1>7. CASE HubDisconnected
    <2>1. C!LinkOK'
      BY <1>7 DEF HubDisconnected, C!disconnected, C!fixedVars, C!LinkOK
    <2>2. C!ClientOK'
      <3>1. keystates' = {} /\ notify_cb' = notify_cb
        BY <1>7 DEF HubDisconnected, C!disconnected, IInv, ClientInv
      <3>2. read_cb' \in BOOLEAN
        BY <1>7, Zenon DEF HubDisconnected, C!disconnected
      <3> QED
        BY <3>1, <3>2, Zenon DEF C!ClientOK
    <2>3. C!PollOK'
      BY <1>7, Zenon DEF HubDisconnected, C!disconnected, C!PollOK
    <2>4. C!CountsOK' /\ informed' = informed
      BY <1>7 DEF HubDisconnected, C!disconnected, C!CountsOK
    <2> QED
      BY <2>1, <2>2, <2>3, <2>4
  <1>8. CASE UNCHANGED vars
    BY <1>1, <1>8 DEF vars, hubVars
  <1> QED
    BY <1>2, <1>3, <1>4, <1>5, <1>6, <1>7, <1>8 DEF Next

\* Left half and hub keep to their types together: never more packets on their
\* way than the bound, never more requests than the two of a discovery, and the
\* hub's copy a word, a byte of one, or a sentinel.
THEOREM TypeCorrect == Spec => []TypeOK
  <1>1. IInv /\ RestOK /\ ClientTyped => TypeOK
    <2> SUFFICES ASSUME IInv, RestOK, ClientTyped PROVE TypeOK
      OBVIOUS
    <2>1. LeftOK
      BY DEF LeftOK, RestOK, IInv, DataOK
    <2>2. requests \in Seq({"enable", "read"}) /\ Len(requests) <= 2
      <3>1. requests \in {<<>>, <<"enable">>, <<"read">>, <<"enable", "read">>}
        BY DEF IInv, DataOK
      <3>2. CASE requests = <<>>
        BY <3>2
      <3>3. CASE requests = <<"enable">>
        BY <3>3
      <3>5. CASE requests = <<"read">>
        BY <3>5
      <3>4. CASE requests = <<"enable", "read">>
        BY <3>4
      <3> QED
        BY <3>1, <3>2, <3>3, <3>4, <3>5
    <2> QED
      BY <2>1, <2>2 DEF TypeOK, ClientTyped
  <1> QED
    BY <1>1, InitIInv, NextIInv, InitRestOK, NextRestOK, InitClientTyped, NextClientTyped,
       PTL DEF Spec

-----------------------------------------------------------------------------
(* SplitLink implements LeftFeed.                                          *)

LEMMA InitFeed == Init => F!Init
  BY DEF Init, C!Init, F!Init, LeftPhase, C!BT_KBDS_VAL_INVALID, F!BT_KBDS_VAL_INVALID

LEMMA StepFeeds == IInv /\ [Next]_vars => [F!Next]_(F!vars)
  <1> SUFFICES ASSUME IInv, [Next]_vars PROVE [F!Next]_(F!vars)
    OBVIOUS
  <1> USE DEF IInv
  <1>1. CASE UNCHANGED <<keystates, link, assigned, reads>>
    BY <1>1 DEF F!vars, LeftPhase
  <1>2. CASE Scan \/ Send \/ CCCWritten \/ ReadAnswered \/ LeftDisconnected
    BY <1>1, <1>2 DEF Scan, Send, CCCWritten, ReadAnswered, LeftDisconnected, hubVars,
       clientVars
  <1>3. CASE DiscoveryFailed
    BY <1>1, <1>3 DEF DiscoveryFailed, C!discovery_error_found_cb, C!readVars
  <1>4. CASE Connected
    <2>1. LeftPhase = "down" /\ LeftPhase' = "up"
      BY <1>4 DEF Connected, C!connected, LeftPhase, ClientInv
    <2> QED
      BY <1>4, <2>1 DEF Connected, C!connected, C!readVars, F!Next, F!Connected
  <1>5. CASE DiscoveryCompleted
    <2>1. LeftPhase = "up" /\ LeftPhase' = "assigned"
      BY <1>5 DEF DiscoveryCompleted, C!discovery_completed_cb, LeftPhase, ClientInv
    <2>2. keystates' = F!BT_KBDS_VAL_INVALID
      BY <1>5 DEF DiscoveryCompleted, C!discovery_completed_cb, C!bt_kbds_handles_assign,
         C!BT_KBDS_VAL_INVALID, F!BT_KBDS_VAL_INVALID
    <2> QED
      BY <2>1, <2>2 DEF F!Next, F!Discovered
  <1>6. CASE Receive
    <2>0. link /\ assigned /\ Head(air) \in Packet
      BY <1>6 DEF Receive, NewLinkInv, DataOK
    <2>1. UNCHANGED <<link, assigned>>
      <3>1. CASE Head(air).kind = "answer"
        BY <1>6, <3>1 DEF Receive, C!read_process, C!linkVars
      <3>2. CASE Head(air).kind # "answer"
        BY <1>6, <3>2 DEF Receive, C!notify_process, C!linkVars
      <3> QED
        BY <3>1, <3>2
    <2>2. LeftPhase = "assigned" /\ LeftPhase' = LeftPhase
      BY <2>0, <2>1 DEF LeftPhase
    <2>3. CASE Head(air).kind = "answer"
      <3>1. PICK word \in LeftWords : Head(air).word = LowByte(word)
        BY <2>0, <2>3 DEF Packet
      <3>2. reads = 1 /\ read_cb /\ reads' = 0
        BY <1>6, <2>3 DEF Receive, C!read_process, ClientInv
      <3>3. keystates' = IF C!ByteValue(LowByte(word)) <= C!BT_KBDS_VAL_MAX
                         THEN LowByte(word) ELSE keystates
        BY <1>6, <2>3, <3>1, <3>2 DEF Receive, C!read_process
      <3>4. C!ByteValue(LowByte(word)) = F!ByteValue(LowByte(word))
        BY Zenon DEF C!ByteValue, F!ByteValue, C!MapThenSumSet, F!MapThenSumSet,
           C!MapThenFoldSet, F!MapThenFoldSet
      <3>5. F!Answered(LowByte(word))
        BY <2>2, <3>2, <3>3, <3>4 DEF F!Answered, C!BT_KBDS_VAL_MAX, F!BT_KBDS_VAL_MAX
      <3> QED
        BY <3>5 DEF F!Next, F!LowByte, LowByte
    <2>4. CASE Head(air).kind # "answer"
      <3>1. Head(air).word \in LeftWords
        BY <2>0, <2>4 DEF Packet
      <3>2. keystates' = Head(air).word /\ reads' = reads
        BY <1>6, <2>4 DEF Receive, C!notify_process, C!readVars
      <3> QED
        BY <2>2, <3>1, <3>2 DEF F!Next, F!Notified
    <2> QED
      BY <2>3, <2>4
  <1>7. CASE HubDisconnected
    <2>1. LeftPhase # "down" /\ LeftPhase' = "down"
      BY <1>7 DEF HubDisconnected, C!disconnected, LeftPhase
    <2>2. keystates' = {} /\ reads' = 0
      BY <1>7 DEF HubDisconnected, C!disconnected, ClientInv
    <2> QED
      BY <2>1, <2>2 DEF F!Next, F!Disconnected
  <1>8. CASE UNCHANGED vars
    BY <1>1, <1>8 DEF vars, hubVars, clientVars
  <1> QED
    BY <1>2, <1>3, <1>4, <1>5, <1>6, <1>7, <1>8 DEF Next

\* HubKeys is about every word the left half can find and every order in which
\* packets, disconnections and discoveries come: what left half, link and
\* client do together is a behaviour of the feed that HubKeys is built on.
THEOREM FeedIsImplemented == Spec => ImplementsFeed
  <1> QED
    BY InitFeed, StepFeeds, InitIInv, NextIInv, PTL DEF Spec, ImplementsFeed, F!Spec
=============================================================================
