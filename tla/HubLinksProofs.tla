--------------------------- MODULE HubLinksProofs ---------------------------
(***************************************************************************)
(* The safety of HubLinks for every pool of at least two objects and every *)
(* number of client slots.  The inductive invariant adds to the properties *)
(* of HubLinks what they need of main's answer and of the pairings.        *)
(***************************************************************************)
EXTENDS HubLinks, TLAPS

\* Main holds an object only between k_msgq_get and the unref, and no other
\* passkey is queued in that time.
MainSound ==
    /\ main_conn # NULL <=> main_pc = "got"
    /\ main_pc = "got" => mitm_queue = << >>

\* Security belongs to a link, and only the host's has a passkey to compare.
PairingSound ==
    \A c \in Conns : /\ smp[c] # "none" => st[c] \in {"host", "left"}
                     /\ Pairing(c) => st[c] = "host"

\* Without a link towards the left half the scan runs, unless the stack refused.
ScanSound ==
    default_conn = NULL /\ refused \cap {"create", "scan"} = {} => scanning

IInv ==
    /\ TypeOK
    /\ OneHost /\ OneLeft
    /\ QueueSound /\ RefsBalanced
    /\ MainSound /\ PairingSound /\ ScanSound

-----------------------------------------------------------------------------
LEMMA FirstSlot == 1 \in Slots
  BY ClientsAssumption DEF Slots

LEMMA InitIInv == Init => IInv
  <1> SUFFICES ASSUME Init PROVE IInv
    OBVIOUS
  <1> USE NullAssumption DEF Init
  <1>1. StackOK
    BY DEF StackOK
  <1>2. SearchOK /\ HostsOK
    BY DEF SearchOK, HostsOK
  <1>3. AnswerOK
    <2>1. mitm_queue \in Seq(Conns)
      OBVIOUS
    <2> QED
      BY <2>1 DEF AnswerOK
  <1>4. OneHost
    BY FirstSlot DEF OneHost, Links
  <1>5. OneLeft
    BY DEF OneLeft
  <1>6. QueueSound /\ RefsBalanced
    BY DEF QueueSound, RefsBalanced, Count
  <1>7. MainSound /\ PairingSound /\ ScanSound /\ HistoryOK
    BY DEF Pairing, MainSound, PairingSound, ScanSound, HistoryOK
  <1> QED
    BY <1>1, <1>2, <1>3, <1>4, <1>5, <1>6, <1>7 DEF IInv, TypeOK

LEMMA NextIInv == IInv /\ [Next]_vars => IInv'
  <1> SUFFICES ASSUME IInv, [Next]_vars PROVE IInv'
    OBVIOUS
  <1> USE NullAssumption DEF IInv, TypeOK
  <1>0. HistoryOK'
    BY DEF Next, Main, vars, historyVars, HistoryOK, AnswerOK, scan_connecting,
       scan_connecting_error, LeftConnected, ConnectFailed, LeftDisconnected,
       EndOfSearchedLink, bt_scan_start, HostConnected, HostDisconnected,
       advertising_start, auth_passkey_confirm, pairing_failed, security_changed,
       hids_pm_evt_handler, pairing_mode, GetEntry, num_comp_reply, LeavePairingMode
  <1>1. CASE scan_connecting
    <2>1. StackOK'
      BY <1>1 DEF scan_connecting, Free, StackOK, stackVars, searchVars, hostVars,
         mainVars, historyVars
    <2>2. SearchOK'
      BY <1>1 DEF scan_connecting, Free, SearchOK, stackVars, searchVars, hostVars,
         mainVars, historyVars
    <2>3. OneHost'
      <3>1. PICK c \in Free : st' = [st EXCEPT ![c] = "initiating"]
        BY <1>1 DEF scan_connecting
      <3>2. st[c] = "none"
        BY <3>1 DEF Free, RefsBalanced, Count
      <3> QED
        BY <1>1, <3>1, <3>2 DEF scan_connecting, hostVars, OneHost, StackOK, HostsOK, Links, Free
    <2>4. OneLeft'
      BY <1>1 DEF scan_connecting, Free, OneLeft, StackOK, SearchOK, RefsBalanced,
         Count, stackVars, searchVars, hostVars, mainVars, historyVars
    <2>5. QueueSound'
      BY <1>1 DEF scan_connecting, Free, QueueSound, StackOK, AnswerOK, PairingSound,
         OneHost, Links, MainSound, RefsBalanced, Count, stackVars, searchVars,
         hostVars, mainVars, historyVars
    <2>6. RefsBalanced'
      BY <1>1 DEF scan_connecting, Free, RefsBalanced, Count, StackOK, AnswerOK,
         SearchOK, QueueSound, OneLeft, MainSound, PairingSound, stackVars,
         searchVars, hostVars, mainVars, historyVars
    <2>7. PairingSound'
      <3>1. PICK c \in Free : st' = [st EXCEPT ![c] = "initiating"]
        BY <1>1 DEF scan_connecting
      <3>2. st[c] = "none"
        BY <3>1 DEF Free, RefsBalanced, Count
      <3> QED
        BY <1>1, <3>1, <3>2 DEF Pairing, scan_connecting, PairingSound, StackOK, Free
    <2>8. ScanSound'
      BY <1>1 DEF scan_connecting, Free, ScanSound, SearchOK, stackVars, searchVars,
         hostVars, mainVars, historyVars
    <2>9. HostsOK' /\ AnswerOK' /\ MainSound'
      BY <1>1 DEF scan_connecting, HostsOK, AnswerOK, MainSound, Count, Links,
         stackVars, searchVars, hostVars, mainVars, historyVars
    <2> QED
      BY <1>0, <2>1, <2>2, <2>3, <2>4, <2>5, <2>6, <2>7, <2>8, <2>9
  <1>2. CASE scan_connecting_error
    <2>1. SearchOK'
      BY <1>2 DEF scan_connecting_error, SearchOK, stackVars, searchVars, hostVars,
         mainVars, historyVars
    <2>2. OneLeft'
      BY <1>2 DEF scan_connecting_error, OneLeft, StackOK, SearchOK, RefsBalanced,
         Count, stackVars, searchVars, hostVars, mainVars, historyVars
    <2>3. ScanSound'
      BY <1>2 DEF scan_connecting_error, ScanSound, SearchOK, stackVars, searchVars,
         hostVars, mainVars, historyVars
    <2>4. /\ StackOK' /\ HostsOK' /\ AnswerOK' /\ OneHost'
         /\ QueueSound' /\ RefsBalanced' /\ MainSound' /\ PairingSound'
      BY <1>2 DEF Pairing, scan_connecting_error, StackOK, HostsOK, AnswerOK, OneHost,
         QueueSound, RefsBalanced, MainSound, PairingSound, Count, Links, stackVars,
         searchVars, hostVars, mainVars, historyVars
    <2> QED
      BY <1>0, <2>1, <2>2, <2>3, <2>4
  <1>3. ASSUME NEW c \in Conns, LeftConnected(c) PROVE IInv'
    <2>1. StackOK'
      BY <1>3 DEF LeftConnected, StackOK, stackVars, searchVars, hostVars, mainVars, historyVars
    <2>2. OneHost'
      BY <1>3 DEF LeftConnected, OneHost, StackOK, HostsOK, RefsBalanced, Count,
         Links, stackVars, searchVars, hostVars, mainVars, historyVars
    <2>3. OneLeft'
      BY <1>3 DEF LeftConnected, OneLeft, StackOK, SearchOK, RefsBalanced, Count,
         stackVars, searchVars, hostVars, mainVars, historyVars
    <2>4. QueueSound'
      BY <1>3 DEF LeftConnected, QueueSound, StackOK, AnswerOK, PairingSound, OneHost,
         Links, MainSound, RefsBalanced, Count, stackVars, searchVars, hostVars,
         mainVars, historyVars
    <2>5. RefsBalanced'
      BY <1>3 DEF LeftConnected, RefsBalanced, Count, StackOK, AnswerOK, SearchOK,
         QueueSound, OneLeft, MainSound, PairingSound, stackVars, searchVars,
         hostVars, mainVars, historyVars
    <2>6. PairingSound'
      BY <1>3 DEF Pairing, LeftConnected, PairingSound, StackOK, RefsBalanced, Count,
         MainSound, AnswerOK, stackVars, searchVars, hostVars, mainVars, historyVars
    <2>7. SearchOK' /\ HostsOK' /\ AnswerOK' /\ MainSound' /\ ScanSound'
      BY <1>3 DEF LeftConnected, SearchOK, HostsOK, AnswerOK, MainSound, ScanSound,
         Count, Links, stackVars, searchVars, hostVars, mainVars, historyVars
    <2> QED
      BY <1>0, <2>1, <2>2, <2>3, <2>4, <2>5, <2>6, <2>7
  <1>4. ASSUME NEW c \in Conns, st[c] \in {"initiating", "left"}, EndOfSearchedLink(c)
        PROVE IInv'
    <2>1. StackOK'
      <3>1. default_conn = c => refs[c] >= 2
        BY <1>4 DEF RefsBalanced, Count, StackOK
      <3>2. refs[c] >= 1
        BY <1>4 DEF RefsBalanced, Count, StackOK
      <3> QED
        BY <1>4, <3>1, <3>2 DEF EndOfSearchedLink, bt_scan_start, StackOK
    <2>2. SearchOK'
      BY <1>4 DEF EndOfSearchedLink, bt_scan_start, SearchOK, stackVars, searchVars, hostVars,
         mainVars, historyVars
    <2>3. OneHost'
      BY <1>4 DEF EndOfSearchedLink, bt_scan_start, OneHost, StackOK, HostsOK, RefsBalanced, Count,
         Links, stackVars, searchVars, hostVars, mainVars, historyVars
    <2>4. OneLeft'
      BY <1>4 DEF EndOfSearchedLink, bt_scan_start, OneLeft, StackOK, SearchOK, RefsBalanced, Count,
         stackVars, searchVars, hostVars, mainVars, historyVars
    <2>5. QueueSound'
      BY <1>4 DEF EndOfSearchedLink, bt_scan_start, QueueSound, StackOK, AnswerOK, PairingSound,
         OneHost, Links, MainSound, RefsBalanced, Count, stackVars, searchVars,
         hostVars, mainVars, historyVars
    <2>6. RefsBalanced'
      BY <1>4 DEF EndOfSearchedLink, bt_scan_start, RefsBalanced, Count, StackOK, AnswerOK, SearchOK,
         QueueSound, OneLeft, MainSound, PairingSound, stackVars, searchVars,
         hostVars, mainVars, historyVars
    <2>7. PairingSound'
      BY <1>4 DEF Pairing, EndOfSearchedLink, bt_scan_start, PairingSound, StackOK, RefsBalanced, Count,
         MainSound, AnswerOK, stackVars, searchVars, hostVars, mainVars, historyVars
    <2>8. ScanSound'
      BY <1>4 DEF EndOfSearchedLink, bt_scan_start, ScanSound, SearchOK, stackVars, searchVars,
         hostVars, mainVars, historyVars
    <2>9. HostsOK' /\ AnswerOK' /\ MainSound'
      BY <1>4 DEF EndOfSearchedLink, bt_scan_start, HostsOK, AnswerOK, MainSound, Count, Links,
         stackVars, searchVars, hostVars, mainVars, historyVars
    <2> QED
      BY <1>0, <2>1, <2>2, <2>3, <2>4, <2>5, <2>6, <2>7, <2>8, <2>9
  <1>5. ASSUME NEW c \in Conns, HostConnected(c) PROVE IInv'
    <2>1. StackOK'
      BY <1>5 DEF HostConnected, MainAsleep, StackOK, stackVars, searchVars, hostVars,
         mainVars, historyVars
    <2>2. HostsOK'
      BY <1>5 DEF HostConnected, MainAsleep, HostsOK, stackVars, searchVars, hostVars,
         mainVars, historyVars
    <2>3. OneHost'
      <3>1. conn_mode[1].conn = NULL
        BY <1>5, FirstSlot DEF HostConnected, OneHost, Links, HostsOK
      <3>2. conn_mode'[1].conn = c
        BY <1>5, <3>1, FirstSlot DEF HostConnected
      <3>3. \A i \in Slots \ {1} : conn_mode'[i].conn = NULL
        <4> TAKE i \in Slots \ {1}
        <4>1. 1 \in 1..(i - 1)
          BY ClientsAssumption DEF Slots
        <4>2. conn_mode'[i] = conn_mode[i]
          BY <1>5, <3>1, <4>1 DEF HostConnected
        <4> QED
          BY <4>2 DEF OneHost
      <3>4. st' = [st EXCEPT ![c] = "host"]
        BY <1>5 DEF HostConnected
      <3> QED
        BY <1>5, <3>2, <3>3, <3>4 DEF HostConnected, OneHost, StackOK, Links
    <2>4. OneLeft'
      BY <1>5 DEF HostConnected, MainAsleep, OneLeft, StackOK, SearchOK, RefsBalanced,
         Count, stackVars, searchVars, hostVars, mainVars, historyVars
    <2>5. QueueSound'
      BY <1>5 DEF HostConnected, MainAsleep, QueueSound, StackOK, AnswerOK,
         PairingSound, OneHost, Links, MainSound, RefsBalanced, Count, stackVars,
         searchVars, hostVars, mainVars, historyVars
    <2>6. RefsBalanced'
      BY <1>5 DEF HostConnected, MainAsleep, RefsBalanced, Count, StackOK, AnswerOK,
         SearchOK, QueueSound, OneLeft, MainSound, PairingSound, stackVars,
         searchVars, hostVars, mainVars, historyVars
    <2>7. PairingSound'
      BY <1>5 DEF Pairing, HostConnected, MainAsleep, PairingSound, StackOK, RefsBalanced,
         Count, MainSound, AnswerOK, stackVars, searchVars, hostVars, mainVars, historyVars
    <2>8. SearchOK' /\ AnswerOK' /\ MainSound' /\ ScanSound'
      BY <1>5 DEF HostConnected, SearchOK, AnswerOK, MainSound, ScanSound, Count,
         Links, stackVars, searchVars, hostVars, mainVars, historyVars
    <2> QED
      BY <1>0, <2>1, <2>2, <2>3, <2>4, <2>5, <2>6, <2>7, <2>8
  <1>6. ASSUME NEW c \in Conns, HostDisconnected(c) PROVE IInv'
    <2>1. StackOK'
      BY <1>6 DEF HostDisconnected, advertising_start, AnyOther, Free, Pairing, Dropped, Dequeued, Unref, StackOK,
         stackVars, searchVars, hostVars, mainVars, historyVars
    <2>2. HostsOK'
      BY <1>6 DEF HostDisconnected, advertising_start, AnyOther, Free, Pairing, Dropped, Dequeued, Unref, HostsOK,
         stackVars, searchVars, hostVars, mainVars, historyVars
    <2>3. AnswerOK'
      BY <1>6 DEF HostDisconnected, advertising_start, AnyOther, Free, Pairing, Dropped, Dequeued, Unref, AnswerOK,
         QueueSound, stackVars, searchVars, hostVars, mainVars, historyVars
    <2>4. OneHost'
      BY <1>6 DEF HostDisconnected, advertising_start, AnyOther, Free, Pairing, Dropped, Dequeued, Unref, OneHost,
         StackOK, HostsOK, RefsBalanced, Count, Links, stackVars, searchVars,
         hostVars, mainVars, historyVars
    <2>5. OneLeft'
      BY <1>6 DEF HostDisconnected, advertising_start, AnyOther, Free, Pairing, Dropped, Dequeued, Unref, OneLeft,
         StackOK, SearchOK, RefsBalanced, Count, stackVars, searchVars, hostVars,
         mainVars, historyVars
    <2>6. QueueSound'
      BY <1>6 DEF HostDisconnected, advertising_start, AnyOther, Free, Pairing, Dropped, Dequeued, Unref,
         QueueSound, StackOK, AnswerOK, PairingSound, OneHost, Links, MainSound,
         RefsBalanced, Count, stackVars, searchVars, hostVars, mainVars, historyVars
    <2>7. RefsBalanced'
      BY <1>6 DEF HostDisconnected, advertising_start, AnyOther, Free, Pairing, Dropped, Dequeued, Unref,
         RefsBalanced, Count, StackOK, AnswerOK, SearchOK, QueueSound, OneLeft,
         MainSound, PairingSound, stackVars, searchVars, hostVars, mainVars, historyVars
    <2>8. MainSound'
      BY <1>6 DEF HostDisconnected, advertising_start, AnyOther, Free, Pairing, Dropped, Dequeued, Unref,
         MainSound, AnswerOK, QueueSound, stackVars, searchVars, hostVars, mainVars, historyVars
    <2>9. PairingSound'
      BY <1>6 DEF HostDisconnected, advertising_start, AnyOther, Free, Pairing, Dropped, Dequeued, Unref,
         PairingSound, StackOK, RefsBalanced, Count, MainSound, AnswerOK, stackVars,
         searchVars, hostVars, mainVars, historyVars
    <2>10. SearchOK' /\ ScanSound'
      BY <1>6 DEF HostDisconnected, advertising_start, AnyOther, SearchOK, ScanSound, Count, Links, stackVars,
         searchVars, hostVars, mainVars, historyVars
    <2> QED
      BY <1>0, <2>1, <2>2, <2>3, <2>4, <2>5, <2>6, <2>7, <2>8, <2>9, <2>10
  <1>7. ASSUME NEW c \in Conns, NEW boot \in BOOLEAN, hids_pm_evt_handler(c, boot)
        PROVE IInv'
    <2>1. HostsOK'
      BY <1>7 DEF hids_pm_evt_handler, HostsOK, stackVars, searchVars, hostVars,
         mainVars, historyVars
    <2>2. OneHost'
      <3>1. \A i \in Slots : conn_mode'[i].conn = conn_mode[i].conn
        BY <1>7 DEF hids_pm_evt_handler, HostsOK
      <3>2. st' = st
        BY <1>7 DEF hids_pm_evt_handler, stackVars
      <3> QED
        BY <3>1, <3>2, FirstSlot DEF OneHost, Links
    <2>3. /\ StackOK' /\ SearchOK' /\ AnswerOK' /\ OneLeft'
         /\ QueueSound' /\ RefsBalanced' /\ MainSound' /\ PairingSound' /\ ScanSound'
      BY <1>7 DEF Pairing, hids_pm_evt_handler, StackOK, SearchOK, AnswerOK, OneLeft,
         QueueSound, RefsBalanced, MainSound, PairingSound, ScanSound, Count, Links,
         stackVars, searchVars, hostVars, mainVars, historyVars
    <2> QED
      BY <1>0, <2>1, <2>2, <2>3
  <1>8. ASSUME NEW c \in Conns, auth_passkey_confirm(c) PROVE IInv'
    <2>1. StackOK'
      BY <1>8 DEF auth_passkey_confirm, MainAsleep, Pairing, StackOK, stackVars,
         searchVars, hostVars, mainVars, historyVars
    <2>2. AnswerOK'
      BY <1>8 DEF auth_passkey_confirm, MainAsleep, Pairing, AnswerOK, QueueSound,
         stackVars, searchVars, hostVars, mainVars, historyVars
    <2>3. QueueSound'
      BY <1>8 DEF auth_passkey_confirm, MainAsleep, Pairing, QueueSound, StackOK,
         AnswerOK, PairingSound, OneHost, Links, MainSound, RefsBalanced, Count,
         stackVars, searchVars, hostVars, mainVars, historyVars
    <2>4. RefsBalanced'
      <3>1. mitm_queue = << >>
        BY <1>8 DEF auth_passkey_confirm, Pairing, QueueSound, OneHost, Links, AnswerOK
      <3>2. mitm_queue' = <<c>>
        BY <1>8, <3>1, ClientsAssumption DEF auth_passkey_confirm
      <3>3. mitm_queue' # << >> /\ Head(mitm_queue') = c
        BY <3>2
      <3> QED
        BY <1>8, <3>1, <3>3 DEF auth_passkey_confirm, RefsBalanced, Count, StackOK, searchVars, mainVars, historyVars
    <2>5. MainSound'
      BY <1>8 DEF auth_passkey_confirm, MainAsleep, Pairing, MainSound, AnswerOK,
         QueueSound, stackVars, searchVars, hostVars, mainVars, historyVars
    <2>6. PairingSound'
      BY <1>8 DEF auth_passkey_confirm, MainAsleep, Pairing, PairingSound, StackOK,
         RefsBalanced, Count, MainSound, AnswerOK, stackVars, searchVars, hostVars,
         mainVars, historyVars
    <2>7. SearchOK' /\ HostsOK' /\ OneHost' /\ OneLeft' /\ ScanSound'
      BY <1>8 DEF auth_passkey_confirm, SearchOK, HostsOK, OneHost, OneLeft,
         ScanSound, Count, Links, stackVars, searchVars, hostVars, mainVars, historyVars
    <2> QED
      BY <1>0, <2>1, <2>2, <2>3, <2>4, <2>5, <2>6, <2>7
  <1>9. ASSUME NEW c \in Conns, pairing_failed(c) PROVE IInv'
    <2>1. StackOK'
      <3>1. Dropped(c) => refs[c] >= 1
        BY <1>9 DEF Dropped, RefsBalanced, Count, StackOK
      <3> QED
        BY <1>9, <3>1 DEF pairing_failed, Unref, StackOK
    <2>2. AnswerOK'
      BY <1>9 DEF pairing_failed, Pairing, Dropped, Dequeued, Unref, AnswerOK,
         QueueSound, stackVars, searchVars, hostVars, mainVars, historyVars
    <2>3. QueueSound'
      BY <1>9 DEF pairing_failed, Pairing, Dropped, Dequeued, Unref, QueueSound,
         StackOK, AnswerOK, PairingSound, OneHost, Links, MainSound, RefsBalanced,
         Count, stackVars, searchVars, hostVars, mainVars, historyVars
    <2>4. RefsBalanced'
      BY <1>9 DEF pairing_failed, Pairing, Dropped, Dequeued, Unref, RefsBalanced,
         Count, StackOK, AnswerOK, SearchOK, QueueSound, OneLeft, MainSound,
         PairingSound, stackVars, searchVars, hostVars, mainVars, historyVars
    <2>5. MainSound'
      BY <1>9 DEF pairing_failed, Pairing, Dropped, Dequeued, Unref, MainSound,
         AnswerOK, QueueSound, stackVars, searchVars, hostVars, mainVars, historyVars
    <2>6. PairingSound'
      BY <1>9 DEF pairing_failed, Pairing, Dropped, Dequeued, Unref, PairingSound,
         StackOK, RefsBalanced, Count, MainSound, AnswerOK, stackVars, searchVars,
         hostVars, mainVars, historyVars
    <2>7. SearchOK' /\ HostsOK' /\ OneHost' /\ OneLeft' /\ ScanSound'
      BY <1>9 DEF pairing_failed, SearchOK, HostsOK, OneHost, OneLeft, ScanSound,
         Count, Links, stackVars, searchVars, hostVars, mainVars, historyVars
    <2> QED
      BY <1>0, <2>1, <2>2, <2>3, <2>4, <2>5, <2>6, <2>7
  <1>10. ASSUME NEW c \in Conns, security_changed(c) PROVE IInv'
    <2>1. StackOK'
      BY <1>10 DEF security_changed, StackOK, stackVars, searchVars, hostVars,
         mainVars, historyVars
    <2>2. AnswerOK'
      BY <1>10 DEF security_changed, AnswerOK, QueueSound, stackVars, searchVars,
         hostVars, mainVars, historyVars
    <2>3. QueueSound'
      BY <1>10 DEF security_changed, QueueSound, StackOK, AnswerOK, PairingSound,
         OneHost, Links, MainSound, RefsBalanced, Count, stackVars, searchVars,
         hostVars, mainVars, historyVars
    <2>4. PairingSound'
      BY <1>10 DEF Pairing, security_changed, PairingSound, StackOK, RefsBalanced, Count,
         MainSound, AnswerOK, stackVars, searchVars, hostVars, mainVars, historyVars
    <2>5. /\ SearchOK' /\ HostsOK' /\ OneHost' /\ OneLeft'
         /\ RefsBalanced' /\ MainSound' /\ ScanSound'
      BY <1>10 DEF security_changed, SearchOK, HostsOK, OneHost, OneLeft,
         RefsBalanced, MainSound, ScanSound, Count, Links, stackVars, searchVars,
         hostVars, mainVars, historyVars
    <2> QED
      BY <1>0, <2>1, <2>2, <2>3, <2>4, <2>5
  <1>11. CASE pairing_mode
    <2>1. AnswerOK'
      BY <1>11 DEF pairing_mode, AnswerOK, QueueSound, stackVars, searchVars,
         hostVars, mainVars, historyVars
    <2>2. MainSound'
      BY <1>11 DEF pairing_mode, MainSound, AnswerOK, QueueSound, stackVars,
         searchVars, hostVars, mainVars, historyVars
    <2>3. /\ StackOK' /\ SearchOK' /\ HostsOK' /\ OneHost'
         /\ OneLeft' /\ QueueSound' /\ RefsBalanced' /\ PairingSound' /\ ScanSound'
      BY <1>11 DEF Pairing, pairing_mode, StackOK, SearchOK, HostsOK, OneHost, OneLeft,
         QueueSound, RefsBalanced, PairingSound, ScanSound, Count, Links, stackVars,
         searchVars, hostVars, mainVars, historyVars
    <2> QED
      BY <1>0, <2>1, <2>2, <2>3
  <1>12. CASE GetEntry
    <2>1. AnswerOK'
      BY <1>12 DEF GetEntry, AnswerOK, QueueSound, stackVars, searchVars, hostVars,
         mainVars, historyVars
    <2>2. QueueSound'
      BY <1>12 DEF GetEntry, QueueSound, StackOK, AnswerOK, PairingSound, OneHost,
         Links, MainSound, RefsBalanced, Count, stackVars, searchVars, hostVars,
         mainVars, historyVars
    <2>3. RefsBalanced'
      BY <1>12 DEF GetEntry, RefsBalanced, Count, StackOK, AnswerOK, SearchOK,
         QueueSound, OneLeft, MainSound, PairingSound, stackVars, searchVars,
         hostVars, mainVars, historyVars
    <2>4. MainSound'
      BY <1>12 DEF GetEntry, MainSound, AnswerOK, QueueSound, stackVars, searchVars,
         hostVars, mainVars, historyVars
    <2>5. /\ StackOK' /\ SearchOK' /\ HostsOK' /\ OneHost'
         /\ OneLeft' /\ PairingSound' /\ ScanSound'
      BY <1>12 DEF Pairing, GetEntry, StackOK, SearchOK, HostsOK, OneHost, OneLeft,
         PairingSound, ScanSound, Count, Links, stackVars, searchVars, hostVars,
         mainVars, historyVars
    <2> QED
      BY <1>0, <2>1, <2>2, <2>3, <2>4, <2>5
  <1>13. CASE num_comp_reply
    <2>1. StackOK'
      <3>1. main_conn \in Conns
        BY <1>13 DEF num_comp_reply, MainSound, AnswerOK
      <3>2. refs[main_conn] >= 1
        BY <3>1 DEF RefsBalanced, Count, StackOK
      <3> QED
        BY <1>13, <3>1, <3>2 DEF num_comp_reply, Pairing, StackOK
    <2>2. AnswerOK'
      BY <1>13 DEF num_comp_reply, Pairing, AnswerOK, QueueSound, stackVars,
         searchVars, hostVars, mainVars, historyVars
    <2>3. QueueSound'
      BY <1>13 DEF num_comp_reply, Pairing, QueueSound, StackOK, AnswerOK,
         PairingSound, OneHost, Links, MainSound, RefsBalanced, Count, stackVars,
         searchVars, hostVars, mainVars, historyVars
    <2>4. RefsBalanced'
      BY <1>13 DEF num_comp_reply, Pairing, RefsBalanced, Count, StackOK, AnswerOK,
         SearchOK, QueueSound, OneLeft, MainSound, PairingSound, stackVars,
         searchVars, hostVars, mainVars, historyVars
    <2>5. MainSound'
      BY <1>13 DEF num_comp_reply, Pairing, MainSound, AnswerOK, QueueSound,
         stackVars, searchVars, hostVars, mainVars, historyVars
    <2>6. PairingSound'
      BY <1>13 DEF num_comp_reply, Pairing, PairingSound, StackOK, RefsBalanced,
         Count, MainSound, AnswerOK, stackVars, searchVars, hostVars, mainVars, historyVars
    <2>7. SearchOK' /\ HostsOK' /\ OneHost' /\ OneLeft' /\ ScanSound'
      BY <1>13 DEF num_comp_reply, SearchOK, HostsOK, OneHost, OneLeft, ScanSound,
         Count, Links, stackVars, searchVars, hostVars, mainVars, historyVars
    <2> QED
      BY <1>0, <2>1, <2>2, <2>3, <2>4, <2>5, <2>6, <2>7
  <1>14. CASE LeavePairingMode
    <2>1. AnswerOK'
      BY <1>14 DEF LeavePairingMode, AnswerOK, QueueSound, stackVars, searchVars,
         hostVars, mainVars, historyVars
    <2>2. MainSound'
      BY <1>14 DEF LeavePairingMode, MainSound, AnswerOK, QueueSound, stackVars,
         searchVars, hostVars, mainVars, historyVars
    <2>3. /\ StackOK' /\ SearchOK' /\ HostsOK' /\ OneHost'
         /\ OneLeft' /\ QueueSound' /\ RefsBalanced' /\ PairingSound' /\ ScanSound'
      BY <1>14 DEF Pairing, LeavePairingMode, StackOK, SearchOK, HostsOK, OneHost, OneLeft,
         QueueSound, RefsBalanced, PairingSound, ScanSound, Count, Links, stackVars,
         searchVars, hostVars, mainVars, historyVars
    <2> QED
      BY <1>0, <2>1, <2>2, <2>3
  <1>15. ASSUME NEW c \in Conns, ConnectFailed(c) PROVE IInv'
    BY <1>4, <1>15 DEF ConnectFailed
  <1>16. ASSUME NEW c \in Conns, LeftDisconnected(c) PROVE IInv'
    BY <1>4, <1>16 DEF LeftDisconnected
  <1>17. CASE UNCHANGED vars
    BY <1>0, <1>17 DEF Pairing, vars, stackVars, searchVars, hostVars, mainVars,
       historyVars, StackOK, SearchOK,
       HostsOK, AnswerOK, OneHost, OneLeft, QueueSound, RefsBalanced, Count, Links,
       MainSound, PairingSound, ScanSound
  <1> QED
    BY <1>1, <1>2, <1>3, <1>5, <1>6, <1>7, <1>8, <1>9, <1>10, <1>11, <1>12, <1>13,
       <1>14, <1>15, <1>16, <1>17 DEF Next, Main

LEMMA Invariance == Spec => []IInv
  <1> QED
    BY InitIInv, NextIInv, PTL DEF Spec

-----------------------------------------------------------------------------
\* Every variable keeps to its type: no reference count goes below zero.
THEOREM TypeCorrect == Spec => []TypeOK
  <1>1. IInv => TypeOK
    BY DEF IInv
  <1> QED
    BY <1>1, Invariance, PTL

\* There is never a second host, nor advertising beside a host; main() may
\* test conn_mode[0] alone.
THEOREM HostIsAlone == Spec => []OneHost
  <1>1. IInv => OneHost
    BY DEF IInv
  <1> QED
    BY <1>1, Invariance, PTL

\* There is never a second link towards the left half, nor a scan beside one.
THEOREM LeftIsAlone == Spec => []OneLeft
  <1>1. IInv => OneLeft
    BY DEF IInv
  <1> QED
    BY <1>1, Invariance, PTL

\* The queue holds the passkey the host is waiting for, or none.
THEOREM QueueIsCurrent == Spec => []QueueSound
  <1>1. IInv => QueueSound
    BY DEF IInv
  <1> QED
    BY <1>1, Invariance, PTL

\* No reference is leaked, and none is dropped twice.
THEOREM ReferencesBalance == Spec => []RefsBalanced
  <1>1. IInv => RefsBalanced
    BY DEF IInv
  <1> QED
    BY <1>1, Invariance, PTL

\* The object of a link that has ended waits for nothing but main's next step.
THEOREM OnlyMainKeepsIt == Spec => []MainKeepsIt
  <1>1. IInv => MainKeepsIt
    <2> SUFFICES ASSUME IInv, NEW c \in Conns, refs[c] > 0, st[c] = "none"
                 PROVE  main_pc = "got" /\ main_conn = c /\ refs[c] = 1
      BY DEF MainKeepsIt
    <2> USE NullAssumption DEF IInv, TypeOK
    <2>1. default_conn # c
      BY DEF OneLeft
    <2>2. ~(mitm_queue # << >> /\ Head(mitm_queue) = c)
      BY DEF QueueSound
    <2>3. refs[c] = Count(main_conn = c)
      BY <2>1, <2>2 DEF RefsBalanced, Count
    <2>4. main_conn = c /\ refs[c] = 1
      BY <2>3 DEF Count
    <2> QED
      BY <2>4 DEF MainSound
  <1> QED
    BY <1>1, Invariance, PTL

\* A pool of two is enough for the scan: only the one link to the host and a
\* reply of main's can hold objects while the hub scans.
THEOREM ScanFindsObject == Spec => []ObjectForLeft
  <1>1. IInv => ObjectForLeft
    <2> SUFFICES ASSUME IInv, scanning, Free = {}, main_conn = NULL
                 PROVE  FALSE
      BY DEF ObjectForLeft
    <2> USE NullAssumption DEF IInv, TypeOK
    <2>1. \A c \in Conns : st[c] \notin {"initiating", "left"}
      BY DEF OneLeft
    <2>2. \A c \in Conns : st[c] # "none"
      <3> SUFFICES ASSUME NEW c \in Conns, st[c] = "none" PROVE refs[c] = 0
        BY DEF Free
      <3>1. default_conn # c
        BY DEF OneLeft
      <3>2. ~(mitm_queue # << >> /\ Head(mitm_queue) = c)
        BY DEF QueueSound
      <3> QED
        BY <3>1, <3>2 DEF RefsBalanced, Count
    <2>3. \A c \in Conns : c \in Links("adv") \cup Links("host")
      BY <2>1, <2>2 DEF StackOK, Links
    <2> QED
      BY <2>3, PoolAssumption DEF OneHost
  <1> QED
    BY <1>1, Invariance, PTL

\* The hub never stops to look for the left half of its own accord.
THEOREM SearchIsKept == Spec => []SearchGoesOn
  <1>1. IInv => SearchGoesOn
    <2> SUFFICES ASSUME IInv, Links("left") = {}, refused \cap {"create", "scan"} = {}, ~scanning
                 PROVE  Links("initiating") # {}
      BY DEF SearchGoesOn, Searching
    <2>1. default_conn \in Conns
      BY DEF IInv, TypeOK, ScanSound, SearchOK
    <2>2. st[default_conn] \in {"initiating", "left"}
      BY <2>1 DEF IInv, OneLeft
    <2> QED
      BY <2>1, <2>2 DEF Links
  <1> QED
    BY <1>1, Invariance, PTL

-----------------------------------------------------------------------------
(* The pairing mode and the session need one thing more of main's answer.  *)

\* While main accepts a passkey the host it accepts is there, or has gone in
\* the middle of it.
ModeSound == main_pc # "idle" /\ answer /\ Links("host") = {} => "accepted" \in ended

\* No other host comes while main holds the object of one.
MainHost == main_conn # NULL => Links("host") \subseteq {main_conn}

Mode == PairingModeKept /\ ModeSound /\ MainHost

LEMMA InitMode == Init => Mode
  BY DEF Init, Mode, PairingModeKept, ModeSound, MainHost

LEMMA NextMode == IInv /\ Mode /\ [Next]_vars => Mode'
  <1> SUFFICES ASSUME IInv, Mode, [Next]_vars PROVE Mode'
    OBVIOUS
  <1> USE DEF IInv, TypeOK
  <1>1. ASSUME UNCHANGED <<in_pairing_mode, mainVars, ended>>,
               Links("host") \subseteq Links("host")', Links("host")' \subseteq Links("host")
        PROVE  Mode'
    BY <1>1 DEF Mode, PairingModeKept, ModeSound, MainHost, mainVars
  <1>2. CASE scan_connecting
    <2>1. PICK c \in Free : st' = [st EXCEPT ![c] = "initiating"]
      BY <1>2 DEF scan_connecting
    <2>2. st[c] = "none"
      BY <2>1 DEF Free, RefsBalanced, Count, StackOK
    <2> QED
      BY <1>1, <1>2, <2>1, <2>2 DEF scan_connecting, Links, StackOK, historyVars
  <1>3. CASE scan_connecting_error
    BY <1>1, <1>3 DEF scan_connecting_error, stackVars, Links
  <1>4. ASSUME NEW c \in Conns, LeftConnected(c) PROVE Mode'
    BY <1>1, <1>4 DEF LeftConnected, Links, StackOK, historyVars
  <1>5. ASSUME NEW c \in Conns, st[c] \in {"initiating", "left"}, EndOfSearchedLink(c)
        PROVE  Mode'
    BY <1>1, <1>5 DEF EndOfSearchedLink, Links, StackOK
  <1>6. ASSUME NEW c \in Conns, HostConnected(c) PROVE Mode'
    <2>1. main_pc' = "idle" /\ main_conn' = NULL
      BY <1>6 DEF HostConnected, MainAsleep, mainVars, MainSound
    <2>2. c \in Links("host")'
      BY <1>6 DEF HostConnected, Links, StackOK
    <2> QED
      BY <2>1, <2>2 DEF Mode, PairingModeKept, ModeSound, MainHost
  <1>7. ASSUME NEW c \in Conns, HostDisconnected(c) PROVE Mode'
    <2>1. conn_mode[1].conn = c
      BY <1>7 DEF HostDisconnected, OneHost
    <2>2. ~AnyOther(c)
      BY <2>1 DEF AnyOther, OneHost
    <2>3. in_pairing_mode'
      BY <1>7, <2>2 DEF HostDisconnected
    <2>4. ended' = IF main_pc' # "idle" /\ answer' THEN {"accepted"} ELSE {}
      BY <1>7 DEF HostDisconnected, mainVars
    <2>5. Links("host")' \subseteq Links("host")
      BY <1>7 DEF HostDisconnected, advertising_start, Free, Links, StackOK
    <2> QED
      BY <1>7, <2>3, <2>4, <2>5 DEF HostDisconnected, mainVars, Mode, PairingModeKept,
         ModeSound, MainHost
  <1>8. ASSUME NEW c \in Conns, NEW boot \in BOOLEAN, hids_pm_evt_handler(c, boot)
        PROVE Mode'
    BY <1>1, <1>8 DEF hids_pm_evt_handler, stackVars, historyVars, Links
  <1>9. ASSUME NEW c \in Conns, auth_passkey_confirm(c) PROVE Mode'
    BY <1>1, <1>9 DEF auth_passkey_confirm, historyVars, Links
  <1>10. ASSUME NEW c \in Conns, pairing_failed(c) PROVE Mode'
    BY <1>1, <1>10 DEF pairing_failed, historyVars, Links
  <1>11. ASSUME NEW c \in Conns, security_changed(c) PROVE Mode'
    <2>1. CASE st[c] = "host"
      BY <1>11, <2>1 DEF security_changed, mainVars, Links, Mode, PairingModeKept,
         ModeSound, MainHost
    <2>2. CASE st[c] = "left"
      BY <1>11, <2>2 DEF security_changed, mainVars, Links, Mode, PairingModeKept,
         ModeSound, MainHost
    <2> QED
      BY <1>11, <2>1, <2>2 DEF security_changed
  <1>12. CASE pairing_mode
    <2>1. Links("host") # {}
      <3>1. Head(mitm_queue) \in Conns
        BY <1>12 DEF pairing_mode, AnswerOK
      <3> QED
        BY <1>12, <3>1 DEF pairing_mode, QueueSound, Links
    <2> QED
      BY <1>12, <2>1 DEF pairing_mode, stackVars, historyVars, Links, Mode, PairingModeKept,
         ModeSound, MainHost
  <1>13. CASE GetEntry
    <2>1. PairingModeKept' /\ ModeSound'
      BY <1>13 DEF GetEntry, stackVars, historyVars, Links, Mode, PairingModeKept, ModeSound
    <2>2. CASE mitm_queue = << >>
      BY <1>13, <2>1, <2>2 DEF GetEntry, stackVars, Links, Mode, MainHost
    <2>3. CASE mitm_queue # << >>
      <3>1. Head(mitm_queue) \in Conns /\ st[Head(mitm_queue)] = "host"
        BY <2>3 DEF AnswerOK, QueueSound
      <3>2. main_conn' = Head(mitm_queue) /\ st' = st
        BY <1>13, <2>3 DEF GetEntry, stackVars
      <3> QED
        BY <2>1, <3>1, <3>2 DEF OneHost, Links, Mode, MainHost
    <2> QED
      BY <2>2, <2>3
  <1>14. CASE num_comp_reply
    BY <1>14 DEF num_comp_reply, historyVars, Links, MainSound, Mode, PairingModeKept,
       ModeSound, MainHost
  <1>15. CASE LeavePairingMode
    BY <1>15 DEF LeavePairingMode, stackVars, historyVars, Links, MainSound, Mode,
       PairingModeKept, ModeSound, MainHost
  <1>16. ASSUME NEW c \in Conns, ConnectFailed(c) PROVE Mode'
    BY <1>5, <1>16 DEF ConnectFailed
  <1>17. ASSUME NEW c \in Conns, LeftDisconnected(c) PROVE Mode'
    BY <1>5, <1>17 DEF LeftDisconnected
  <1>18. CASE UNCHANGED vars
    BY <1>1, <1>18 DEF vars, stackVars, historyVars, Links
  <1> QED
    BY <1>2, <1>3, <1>4, <1>6, <1>7, <1>8, <1>9, <1>10, <1>11, <1>12, <1>13, <1>14,
       <1>15, <1>16, <1>17, <1>18 DEF Next, Main

LEMMA ModeInvariance == Spec => []Mode
  <1> QED
    BY Invariance, InitMode, NextMode, PTL DEF Spec

\* Without a host the hub is in pairing mode, so the next passkey can be
\* answered; the two exceptions are a host that leaves while main accepts and
\* a searched link that has been secured since the last host left.
THEOREM PairingModeIsKept == Spec => []PairingModeKept
  <1>1. Mode => PairingModeKept
    BY DEF Mode
  <1> QED
    BY <1>1, ModeInvariance, PTL

-----------------------------------------------------------------------------
(* HubLinks implements HubSession.                                         *)

\* What the phases are, read off a step's effect on the links.
LEMMA SameSession ==
  ASSUME st' = st, scanning' = scanning, refused' = refused
  PROVE  UNCHANGED S!vars
  BY DEF S!vars, HostPhase, SearchPhase, Links

LEMMA SameHost ==
  ASSUME \A c \in Conns : st'[c] \in {"adv", "host"} \/ st[c] \in {"adv", "host"}
                              => st'[c] = st[c]
  PROVE  HostPhase' = HostPhase
  <1>1. Links("host")' = Links("host") /\ Links("adv")' = Links("adv")
    BY DEF Links
  <1> QED
    BY <1>1 DEF HostPhase

LEMMA SameSearch ==
  ASSUME \A c \in Conns : st'[c] \in {"initiating", "left"} \/ st[c] \in {"initiating", "left"}
                              => st'[c] = st[c],
         scanning' = scanning
  PROVE  SearchPhase' = SearchPhase
  <1>1. Links("initiating")' = Links("initiating") /\ Links("left")' = Links("left")
    BY DEF Links
  <1> QED
    BY <1>1 DEF SearchPhase

LEMMA InitSession == Init => S!Init
  <1> SUFFICES ASSUME Init PROVE S!Init
    OBVIOUS
  <1>1. HostPhase = "advertising"
    BY DEF Init, HostPhase, Links
  <1> QED
    BY <1>1 DEF Init, S!Init, SearchPhase

\* A host that goes leaves the hub advertising, or the stack has refused, or
\* the left half has the object that advertising would need.
LEMMA HostGoesImplements ==
  ASSUME IInv, MainHost, NEW c \in Conns, HostDisconnected(c)
  PROVE  S!HostGoes
  <1> USE NullAssumption DEF IInv, TypeOK
  <1>1. st[c] = "host" /\ HostPhase = "connected"
    BY DEF HostDisconnected, HostPhase, Links
  <1>2. scanning' = scanning
    BY DEF HostDisconnected, searchVars
  <1>3. \A d \in Conns : st[d] \in {"adv", "host"} => d = c
    BY <1>1 DEF OneHost, Links
  <1>4. CASE /\ st' = [st EXCEPT ![c] = "none"]
             /\ refused' = IF Free = {} THEN refused ELSE refused \cup {"adv"}
    <2>1. HostPhase' = "off"
      <3>1. \A d \in Conns : st'[d] \notin {"adv", "host"}
        BY <1>3, <1>4 DEF StackOK
      <3> QED
        BY <3>1 DEF HostPhase, Links
    <2>2. SearchPhase' = SearchPhase
      <3>1. \A d \in Conns : d # c => st'[d] = st[d]
        BY <1>4 DEF StackOK
      <3>2. st'[c] = "none"
        BY <1>4 DEF StackOK
      <3> QED
        BY <1>1, <1>2, <3>1, <3>2, SameSearch
    <2>3. CASE Free # {}
      BY <1>1, <1>4, <2>1, <2>2, <2>3 DEF S!HostGoes, S!Refuse
    <2>4. CASE Free = {}
      <3>1. PICK d \in Conns : d # c
        BY PoolAssumption
      <3>2. refs[d] # 0
        BY <2>4 DEF Free
      <3>3. ~(mitm_queue # << >> /\ Head(mitm_queue) = d)
        BY <1>3, <3>1 DEF QueueSound
      <3>4. main_conn # d
        BY <1>1, <3>1 DEF MainHost, Links
      <3>5. st[d] # "none" \/ default_conn = d
        BY <3>2, <3>3, <3>4 DEF RefsBalanced, Count
      <3>6. st[d] \in {"initiating", "left"}
        BY <1>3, <3>1, <3>5 DEF OneLeft, StackOK
      <3>7. ~scanning
        BY <3>6 DEF OneLeft
      <3>8. SearchPhase \in {"connecting", "linked"}
        BY <3>6, <3>7 DEF SearchPhase, Links
      <3> QED
        BY <1>1, <1>4, <2>1, <2>2, <2>4, <3>8 DEF S!HostGoes
    <2> QED
      BY <2>3, <2>4
  <1>5. ASSUME NEW a \in Free, st' = [st EXCEPT ![c] = "none", ![a] = "adv"],
               UNCHANGED refused
        PROVE  S!HostGoes
    <2>1. a \in Conns /\ st[a] = "none"
      <3>1. a \in Conns /\ refs[a] = 0
        BY DEF Free
      <3> QED
        BY <3>1 DEF RefsBalanced, Count
    <2>2. a # c
      BY <1>1, <2>1
    <2>3. st'[a] = "adv" /\ st'[c] = "none" /\ \A d \in Conns \ {a, c} : st'[d] = st[d]
      BY <1>5, <2>1, <2>2 DEF StackOK
    <2>4. HostPhase' = "advertising"
      <3>1. \A d \in Conns : st'[d] # "host"
        BY <1>3, <2>3
      <3> QED
        BY <2>1, <2>3, <3>1 DEF HostPhase, Links
    <2>5. SearchPhase' = SearchPhase
      BY <1>1, <1>2, <2>1, <2>3, SameSearch
    <2> QED
      BY <1>1, <1>5, <2>4, <2>5 DEF S!HostGoes
  <1> QED
    BY <1>4, <1>5 DEF HostDisconnected, advertising_start

\* The end of the link towards the left half, or of the attempt to make it.
LEMMA LeftGoesImplements ==
  ASSUME IInv, NEW c \in Conns, st[c] \in {"initiating", "left"}, EndOfSearchedLink(c)
  PROVE  S!LeftGoes
  <1> USE NullAssumption DEF IInv, TypeOK
  <1>1. default_conn = c /\ ~scanning
    BY DEF OneLeft
  <1>2. st' = [st EXCEPT ![c] = "none"] /\ bt_scan_start
    BY <1>1 DEF EndOfSearchedLink
  <1>3. \A d \in Conns : d # c => st[d] \notin {"initiating", "left"}
    BY <1>1 DEF OneLeft
  <1>4. SearchPhase \in {"connecting", "linked"}
    BY <1>1 DEF SearchPhase, Links
  <1>5. \A d \in Conns : st'[d] \notin {"initiating", "left"}
    BY <1>2, <1>3 DEF StackOK
  <1>6. SearchPhase' = IF scanning' THEN "scanning" ELSE "idle"
    BY <1>5 DEF SearchPhase, Links
  <1>7. HostPhase' = HostPhase
    <2>1. \A d \in Conns : d # c => st'[d] = st[d]
      BY <1>2 DEF StackOK
    <2> QED
      BY <1>5, <2>1, <1>2, SameHost DEF StackOK
  <1> QED
    BY <1>2, <1>4, <1>6, <1>7 DEF bt_scan_start, S!LeftGoes, S!Refuse

LEMMA StepImplements == IInv /\ MainHost /\ [Next]_vars => [S!Next]_(S!vars)
  <1> SUFFICES ASSUME IInv, MainHost, [Next]_vars PROVE [S!Next]_(S!vars)
    OBVIOUS
  <1> USE NullAssumption DEF IInv, TypeOK
  <1>1. CASE scan_connecting
    <2>1. PICK c \in Free : st' = [st EXCEPT ![c] = "initiating"]
      BY <1>1 DEF scan_connecting
    <2>2. c \in Conns /\ st[c] = "none"
      BY <2>1 DEF Free, RefsBalanced, Count, StackOK
    <2>3. SearchPhase = "scanning"
      BY <1>1 DEF scan_connecting, SearchPhase
    <2>4. st'[c] = "initiating" /\ \A d \in Conns : d # c => st'[d] = st[d]
      BY <2>1, <2>2 DEF StackOK
    <2>5. SearchPhase' = "connecting"
      BY <1>1, <2>2, <2>4 DEF scan_connecting, SearchPhase, Links
    <2>6. HostPhase' = HostPhase
      BY <2>2, <2>4, SameHost
    <2>7. refused' = refused
      BY <1>1 DEF scan_connecting, historyVars
    <2> QED
      BY <2>3, <2>5, <2>6, <2>7 DEF S!Next, S!LeftFound
  <1>2. CASE scan_connecting_error
    <2>1. default_conn = NULL /\ SearchPhase = "scanning"
      BY <1>2 DEF scan_connecting_error, OneLeft, SearchPhase
    <2>2. \A c \in Conns : st'[c] \notin {"initiating", "left"}
      BY <1>2, <2>1 DEF scan_connecting_error, stackVars, OneLeft
    <2>3. SearchPhase' = "idle"
      BY <1>2, <2>2 DEF scan_connecting_error, SearchPhase, Links
    <2>4. HostPhase' = HostPhase
      BY <1>2, SameHost DEF scan_connecting_error, stackVars
    <2> QED
      BY <1>2, <2>1, <2>3, <2>4 DEF scan_connecting_error, S!Next, S!LeftFound, S!Refuse
  <1>3. ASSUME NEW c \in Conns, LeftConnected(c) PROVE S!Next
    <2>1. default_conn = c /\ ~scanning /\ scanning' = scanning
      BY <1>3 DEF LeftConnected, OneLeft, searchVars
    <2>2. st[c] = "initiating" /\ st'[c] = "left" /\ \A d \in Conns : d # c => st'[d] = st[d]
      BY <1>3 DEF LeftConnected, StackOK
    <2>3. \A d \in Conns : d # c => st[d] \notin {"initiating", "left"}
      BY <2>1 DEF OneLeft
    <2>4. SearchPhase = "connecting" /\ SearchPhase' = "linked"
      BY <2>1, <2>2, <2>3 DEF SearchPhase, Links
    <2>5. HostPhase' = HostPhase
      BY <2>2, SameHost
    <2> QED
      BY <1>3, <2>4, <2>5 DEF LeftConnected, historyVars, S!Next, S!LeftComes
  <1>4. ASSUME NEW c \in Conns, HostConnected(c) PROVE S!Next
    <2>1. st[c] = "adv" /\ st'[c] = "host" /\ \A d \in Conns : d # c => st'[d] = st[d]
      BY <1>4 DEF HostConnected, StackOK
    <2>2. \A d \in Conns : d # c => st[d] \notin {"adv", "host"}
      BY <2>1 DEF OneHost, Links
    <2>3. HostPhase = "advertising" /\ HostPhase' = "connected"
      BY <2>1, <2>2 DEF HostPhase, Links
    <2>4. SearchPhase' = SearchPhase
      BY <1>4, <2>1, SameSearch DEF HostConnected, searchVars
    <2> QED
      BY <1>4, <2>3, <2>4 DEF HostConnected, historyVars, S!Next, S!HostComes
  <1>5. ASSUME NEW c \in Conns, HostDisconnected(c) PROVE S!Next
    BY <1>5, HostGoesImplements DEF S!Next
  <1>6. ASSUME NEW c \in Conns, ConnectFailed(c) \/ LeftDisconnected(c) PROVE S!Next
    BY <1>6, LeftGoesImplements DEF ConnectFailed, LeftDisconnected, S!Next
  <1>7. ASSUME NEW c \in Conns,
               \/ auth_passkey_confirm(c) \/ pairing_failed(c) \/ security_changed(c)
               \/ \E boot \in BOOLEAN : hids_pm_evt_handler(c, boot)
        PROVE  UNCHANGED S!vars
    BY <1>7, SameSession DEF auth_passkey_confirm, pairing_failed, security_changed,
       hids_pm_evt_handler, stackVars, searchVars, historyVars
  <1>8. CASE Main
    BY <1>8, SameSession DEF Main, pairing_mode, GetEntry, num_comp_reply,
       LeavePairingMode, stackVars, searchVars, historyVars
  <1>9. CASE UNCHANGED vars
    BY <1>9, SameSession DEF vars, stackVars, searchVars, historyVars
  <1> QED
    BY <1>1, <1>2, <1>3, <1>4, <1>5, <1>6, <1>7, <1>8, <1>9 DEF Next

\* The hub keeps to its session, for every pool of at least two objects: the
\* object that advertising misses is always the left half's, never one that
\* a pairing or an interrupted reply of main's has left behind.
THEOREM SessionIsImplemented == Spec => ImplementsSession
  <1>1. IInv /\ Mode /\ [Next]_vars => [S!Next]_(S!vars)
    BY StepImplements DEF Mode
  <1> QED
    BY <1>1, InitSession, Invariance, ModeInvariance, PTL DEF Spec, ImplementsSession, S!Spec

-----------------------------------------------------------------------------
(* HubLinks makes no steps but those of HostFeed, on which HubKeys stands. *)

\* Main has an answer only while it gives it.
AnswerSound == main_pc = "idle" => ~answer

LEMMA AnswerInvariance == Spec => []AnswerSound
  <1>1. Init => AnswerSound
    BY DEF Init, AnswerSound
  <1>2. AnswerSound /\ [Next]_vars => AnswerSound'
    <2> SUFFICES ASSUME AnswerSound, [Next]_vars PROVE AnswerSound'
      OBVIOUS
    <2>1. CASE Main
      BY <2>1 DEF Main, pairing_mode, GetEntry, num_comp_reply, LeavePairingMode, AnswerSound
    <2>2. CASE ~Main
      <3>1. UNCHANGED mainVars
        BY <2>2 DEF Next, vars, scan_connecting, scan_connecting_error, LeftConnected,
           ConnectFailed, LeftDisconnected, EndOfSearchedLink, HostConnected,
           HostDisconnected, auth_passkey_confirm, pairing_failed, security_changed,
           hids_pm_evt_handler
      <3> QED
        BY <3>1 DEF mainVars, AnswerSound
    <2> QED
      BY <2>1, <2>2
  <1> QED
    BY <1>1, <1>2, PTL DEF Spec

\* A step that leaves the slots, the queue, the mode and main alone.
LEMMA SameFeed ==
  ASSUME UNCHANGED <<mitm_queue, in_pairing_mode, mainVars>>,
         conn_mode'[1].conn = conn_mode[1].conn
  PROVE  UNCHANGED H!vars
  BY DEF H!vars, Host, Pending, Answering, mainVars

LEMMA InitFeed == Init => H!Init
  BY FirstSlot DEF Init, H!Init, Host, Pending, Answering

LEMMA ConnectedFeeds ==
  ASSUME IInv, NEW c \in Conns, HostConnected(c)
  PROVE  H!Connected /\ Answering' = Answering
  <1> USE NullAssumption, FirstSlot DEF IInv, TypeOK
  <1>1. conn_mode[1].conn = NULL
    BY DEF HostConnected, OneHost, Links, HostsOK
  <1>2. conn_mode'[1].conn = c
    BY <1>1 DEF HostConnected
  <1>3. ~Host /\ Host'
    BY <1>1, <1>2 DEF Host
  <1>4. Pending' = Pending /\ in_pairing_mode' = in_pairing_mode /\ Answering' = Answering
    BY DEF HostConnected, Pending, Answering, mainVars
  <1> QED
    BY <1>3, <1>4 DEF H!Connected

LEMMA DisconnectedFeeds ==
  ASSUME IInv, NEW c \in Conns, HostDisconnected(c)
  PROVE  H!Disconnected /\ Answering' = Answering
  <1> USE NullAssumption, FirstSlot DEF IInv, TypeOK
  <1>1. conn_mode[1].conn = c
    BY DEF HostDisconnected, OneHost
  <1>2. conn_mode'[1].conn = NULL
    BY <1>1 DEF HostDisconnected, HostsOK
  <1>3. Host /\ ~Host'
    BY <1>1, <1>2 DEF Host
  <1>4. mitm_queue' = << >>
    <2>1. mitm_queue # << >> => Dropped(c) /\ Tail(mitm_queue) = << >>
      <3> SUFFICES ASSUME mitm_queue # << >> PROVE Dropped(c) /\ Tail(mitm_queue) = << >>
        OBVIOUS
      <3>1. Head(mitm_queue) \in Conns /\ Tail(mitm_queue) = << >>
        BY DEF AnswerOK, QueueSound
      <3>2. Head(mitm_queue) = c
        BY <1>1, <3>1 DEF QueueSound, OneHost
      <3> QED
        BY <3>1, <3>2 DEF QueueSound, Dropped, Pairing
    <2> QED
      BY <2>1 DEF HostDisconnected, Dequeued
  <1>5. in_pairing_mode'
    <2>1. ~AnyOther(c)
      BY <1>1 DEF AnyOther, OneHost
    <2> QED
      BY <2>1 DEF HostDisconnected
  <1>6. in_pairing_mode' \in BOOLEAN
    BY DEF HostDisconnected, AnswerOK
  <1>7. Answering' = Answering
    BY DEF HostDisconnected, Answering, mainVars
  <1> QED
    BY <1>3, <1>4, <1>5, <1>6, <1>7 DEF H!Disconnected, Pending

\* The callbacks of a pairing.
LEMMA PairingFeeds ==
  ASSUME IInv, NEW c \in Conns, auth_passkey_confirm(c) \/ pairing_failed(c)
  PROVE  [H!Next]_(H!vars)
  <1> USE NullAssumption, FirstSlot DEF IInv, TypeOK
  <1>1. st[c] = "host" /\ conn_mode[1].conn = c /\ conn_mode' = conn_mode
    BY DEF auth_passkey_confirm, pairing_failed, OneHost, hostVars
  <1>2. Host /\ Host' = Host
    BY <1>1 DEF Host
  <1>3. Answering' = Answering
    BY DEF auth_passkey_confirm, pairing_failed, Answering, mainVars
  <1>4. mitm_queue # << >> =>
            Head(mitm_queue) = c /\ smp[c] = "confirm" /\ Tail(mitm_queue) = << >>
    <2> SUFFICES ASSUME mitm_queue # << >> PROVE <1>4!2
      OBVIOUS
    <2>1. Head(mitm_queue) \in Conns /\ Tail(mitm_queue) = << >>
      BY DEF AnswerOK, QueueSound
    <2> QED
      BY <1>1, <2>1 DEF QueueSound, OneHost
  <1>5. CASE auth_passkey_confirm(c)
    <2>1. mitm_queue = << >>
      BY <1>4, <1>5 DEF auth_passkey_confirm, Pairing
    <2>2. mitm_queue' = Append(mitm_queue, c)
      BY <1>5, <2>1, ClientsAssumption DEF auth_passkey_confirm
    <2>3. mitm_queue' # << >>
      BY <2>1, <2>2
    <2> QED
      BY <1>2, <1>3, <1>5, <2>1, <2>3
      DEF auth_passkey_confirm, H!Next, H!Callback, H!Asked, Pending
  <1>6. CASE pairing_failed(c)
    <2>1. in_pairing_mode' = in_pairing_mode /\ mitm_queue' = Dequeued(c) /\ mainVars' = mainVars
      BY <1>6 DEF pairing_failed
    <2>2. CASE mitm_queue = << >>
      <3>1. mitm_queue' = mitm_queue
        BY <2>1, <2>2 DEF Dequeued, Dropped
      <3> QED
        BY <1>1, <2>1, <3>1, SameFeed
    <2>3. CASE mitm_queue # << >>
      <3>1. mitm_queue' = << >>
        BY <1>4, <1>6, <2>1, <2>3 DEF Dequeued, Dropped, pairing_failed
      <3> QED
        BY <1>2, <1>3, <2>1, <2>3, <3>1 DEF H!Next, H!Callback, H!Failed, Pending
    <2> QED
      BY <2>2, <2>3
  <1> QED
    BY <1>5, <1>6

\* A link that is secured, whoever is at its other end.
LEMMA SecuredFeeds ==
  ASSUME NEW c \in Conns, security_changed(c)
  PROVE  H!Next
  BY DEF security_changed, hostVars, mainVars, Host, Pending, Answering,
     H!Next, H!Callback, H!Secured

LEMMA AnswerFeeds ==
  ASSUME IInv, AnswerSound, Main
  PROVE  [H!Next]_(H!vars)
  <1> USE NullAssumption DEF IInv, TypeOK
  <1>1. conn_mode' = conn_mode
    BY DEF Main, pairing_mode, GetEntry, num_comp_reply, LeavePairingMode, hostVars
  <1>2. Host' = Host
    BY <1>1 DEF Host
  <1>3. CASE pairing_mode
    <2>1. Answering = "no" /\ Pending
      BY <1>3 DEF pairing_mode, AnswerSound, Answering, Pending
    <2>2. Answering' = IF answer' THEN "accept" ELSE "reject"
      BY <1>3 DEF pairing_mode, Answering
    <2>3. UNCHANGED <<Pending, in_pairing_mode>>
      BY <1>3 DEF pairing_mode, Pending
    <2> QED
      BY <1>2, <2>1, <2>2, <2>3 DEF H!Next, H!Main
  <1>4. CASE GetEntry
    <2>1. mitm_queue' = << >>
      BY <1>4 DEF GetEntry, QueueSound, AnswerOK
    <2>2. Answering = (IF answer THEN "accept" ELSE "reject")
      BY <1>4 DEF GetEntry, Answering
    <2>3. Answering' = (IF answer THEN "leave" ELSE "no")
      BY <1>4 DEF GetEntry, Answering
    <2>4. in_pairing_mode' = in_pairing_mode
      BY <1>4 DEF GetEntry
    <2> QED
      BY <1>2, <2>1, <2>2, <2>3, <2>4 DEF H!Next, H!Main, H!Taken, Pending
  <1>5. CASE num_comp_reply
    <2>1. Answering' = Answering
      BY <1>5 DEF num_comp_reply, Answering
    <2>2. UNCHANGED <<Pending, in_pairing_mode>>
      BY <1>5 DEF num_comp_reply, Pending
    <2> QED
      BY <1>2, <2>1, <2>2 DEF H!vars
  <1>6. CASE LeavePairingMode
    <2>1. Answering = (IF answer THEN "leave" ELSE "no") /\ Answering' = "no"
      BY <1>6 DEF LeavePairingMode, Answering
    <2>2. Pending' = Pending
      BY <1>6 DEF LeavePairingMode, Pending
    <2>3. answer => in_pairing_mode' = FALSE
      BY <1>6 DEF LeavePairingMode
    <2>4. ~answer => in_pairing_mode' = in_pairing_mode
      <3>1. ~answer => (in_pairing_mode' <=> in_pairing_mode)
        BY <1>6 DEF LeavePairingMode
      <3>2. in_pairing_mode \in BOOLEAN /\ in_pairing_mode' \in BOOLEAN
        BY <1>6 DEF LeavePairingMode, AnswerOK
      <3> QED
        BY <3>1, <3>2
    <2>5. CASE answer
      BY <1>2, <2>1, <2>2, <2>3, <2>5 DEF H!Next, H!Main, H!Left
    <2>6. CASE ~answer
      BY <1>2, <2>1, <2>2, <2>4, <2>6 DEF H!vars
    <2> QED
      BY <2>5, <2>6
  <1> QED
    BY <1>3, <1>4, <1>5, <1>6 DEF Main

LEMMA StepFeeds == IInv /\ AnswerSound /\ [Next]_vars => [H!Next]_(H!vars)
  <1> SUFFICES ASSUME IInv, AnswerSound, [Next]_vars PROVE [H!Next]_(H!vars)
    OBVIOUS
  <1>1. CASE scan_connecting \/ scan_connecting_error
    BY <1>1, SameFeed DEF scan_connecting, scan_connecting_error, hostVars
  <1>2. ASSUME NEW c \in Conns, LeftConnected(c) \/ ConnectFailed(c) \/ LeftDisconnected(c)
        PROVE  UNCHANGED H!vars
    BY <1>2, SameFeed DEF LeftConnected, ConnectFailed, LeftDisconnected, EndOfSearchedLink,
       hostVars
  <1>3. ASSUME NEW c \in Conns, HostConnected(c) PROVE H!Next
    BY <1>3, ConnectedFeeds DEF H!Next, H!Callback
  <1>4. ASSUME NEW c \in Conns, HostDisconnected(c) PROVE H!Next
    BY <1>4, DisconnectedFeeds DEF H!Next, H!Callback
  <1>5. ASSUME NEW c \in Conns, NEW boot \in BOOLEAN, hids_pm_evt_handler(c, boot)
        PROVE  UNCHANGED H!vars
    <2>1. conn_mode'[1].conn = conn_mode[1].conn
      BY <1>5, FirstSlot DEF hids_pm_evt_handler, IInv, TypeOK, HostsOK
    <2> QED
      BY <1>5, <2>1, SameFeed DEF hids_pm_evt_handler
  <1>6. CASE UNCHANGED vars
    BY <1>6, SameFeed DEF vars, hostVars
  <1> QED
    BY <1>1, <1>2, <1>3, <1>4, <1>5, <1>6, PairingFeeds, SecuredFeeds,
       AnswerFeeds DEF Next

\* Every behaviour of the links is one that HubKeys reckons with, for every
\* pool and every number of slots: what is proved of the pipeline does not
\* rest on a passkey, a slot or a mode that moves as the links never do.
THEOREM HostFeedIsImplemented == Spec => ImplementsHostFeed
  <1> QED
    BY StepFeeds, InitFeed, Invariance, AnswerInvariance, PTL
    DEF Spec, ImplementsHostFeed, H!Spec
=============================================================================
