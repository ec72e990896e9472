------------------------------ MODULE HubLinks ------------------------------
(***************************************************************************)
(* The links of the hub: it advertises for one host and scans for the left *)
(* half, both with connection objects from one small pool, and lets its    *)
(* user confirm the passkey of a pairing with two keys.                    *)
(*                                                                         *)
(* The Bluetooth callbacks run in cooperative threads, so each is atomic;  *)
(* pairing_mode() and num_comp_reply() run in the main thread and can be   *)
(* interrupted between any two of their calls.  The stack is modelled from *)
(* how the application uses it: an object is allocated by advertising or   *)
(* by creating a connection, is held by one reference of the stack's own   *)
(* until the callback for its end has returned, and is free when the last  *)
(* reference is dropped.                                                   *)
(***************************************************************************)
EXTENDS Integers, Sequences

CONSTANTS
    Conns,            \* the pool of connection objects, CONFIG_BT_MAX_CONN
    MaxClients,       \* CONFIG_BT_HIDS_MAX_CLIENT_COUNT, slots and queue length
    NULL

ASSUME NullAssumption == NULL \notin Conns
ASSUME PoolAssumption == \E a, b \in Conns : a # b
ASSUME ClientsAssumption == MaxClients \in Nat \ {0}

VARIABLES
    st,               \* the link of each object, "none" if it has none
    refs,             \* the reference count of each object
    smp,              \* how far pairing is on each link
    scanning,         \* the scan for the left half is running
    default_conn,     \* the object of the left half's link, a counted reference
    conn_mode,        \* slots of connected hosts, not counted as references
    is_adv,
    mitm_queue,       \* objects whose passkey waits for an answer, counted
    in_pairing_mode,
    main_pc, main_conn, answer,   \* pairing_mode and num_comp_reply
    refused,          \* history: what the stack would not start
    ended             \* history: what may have ended the pairing mode without a host

stackVars == <<st, refs, smp>>
searchVars == <<scanning, default_conn>>
hostVars == <<conn_mode, is_adv>>
mainVars == <<main_pc, main_conn, answer>>
historyVars == <<refused, ended>>
vars == <<stackVars, searchVars, hostVars, mitm_queue, in_pairing_mode, mainVars,
          historyVars>>

Slots == 1..MaxClients
Free == { c \in Conns : refs[c] = 0 }
Links(kind) == { c \in Conns : st[c] = kind }
Searching == scanning \/ Links("initiating") # {}

StackOK ==
    /\ st \in [Conns -> {"none", "adv", "host", "initiating", "left"}]
    /\ refs \in [Conns -> Nat]
    /\ smp \in [Conns -> {"none", "confirm", "confirmed", "secured"}]

SearchOK ==
    /\ scanning \in BOOLEAN
    /\ default_conn \in Conns \cup {NULL}

HostsOK ==
    /\ conn_mode \in [Slots -> [conn : Conns \cup {NULL}, in_boot_mode : BOOLEAN]]
    /\ is_adv \in BOOLEAN

AnswerOK ==
    /\ mitm_queue \in Seq(Conns)
    /\ in_pairing_mode \in BOOLEAN
    /\ main_pc \in {"idle", "seen", "got", "replied"}
    /\ main_conn \in Conns \cup {NULL}
    /\ answer \in BOOLEAN

HistoryOK ==
    /\ refused \in SUBSET {"create", "scan", "adv"}
    /\ ended \in SUBSET {"accepted", "left"}

TypeOK == StackOK /\ SearchOK /\ HostsOK /\ AnswerOK /\ HistoryOK

\* main() up to its loop: advertising first, which takes an object, then the scan.
Init ==
    /\ \E a \in Conns :
           /\ st = [c \in Conns |-> IF c = a THEN "adv" ELSE "none"]
           /\ refs = [c \in Conns |-> IF c = a THEN 1 ELSE 0]
    /\ smp = [c \in Conns |-> "none"]
    /\ scanning = TRUE /\ default_conn = NULL
    /\ conn_mode = [i \in Slots |-> [conn |-> NULL, in_boot_mode |-> FALSE]]
    /\ is_adv = TRUE
    /\ mitm_queue = << >>
    /\ in_pairing_mode = TRUE
    /\ main_pc = "idle" /\ main_conn = NULL /\ answer = FALSE
    /\ refused = {} /\ ended = {}

-----------------------------------------------------------------------------
(* The search for the left half.                                           *)

\* A report with the service, or a directed one from anybody: the scan stops
\* and a connection is created.
scan_connecting ==
    /\ scanning
    /\ scanning' = FALSE
    /\ \E c \in Free :
           /\ st' = [st EXCEPT ![c] = "initiating"]
           /\ refs' = [refs EXCEPT ![c] = 2]
           /\ default_conn' = c
    /\ UNCHANGED <<smp, hostVars, mitm_queue, in_pairing_mode, mainVars, historyVars>>

\* The stack refuses, for want of an object or for reasons of the
\* controller's; the callback does nothing and the scan stays stopped.
scan_connecting_error ==
    /\ scanning
    /\ scanning' = FALSE
    /\ refused' = refused \cup {"create"}
    /\ UNCHANGED <<stackVars, default_conn, hostVars, mitm_queue, in_pairing_mode, mainVars,
                   ended>>

\* connected() of a link the hub created: security 1 and the discovery.
LeftConnected(c) ==
    /\ st[c] = "initiating"
    /\ st' = [st EXCEPT ![c] = "left"]
    /\ UNCHANGED <<refs, smp, searchVars, hostVars, mitm_queue, in_pairing_mode, mainVars,
                   historyVars>>

\* The stack may refuse to scan, which is printed and forgotten.
bt_scan_start ==
    \E err \in BOOLEAN :
        /\ scanning' = ~err
        /\ refused' = IF err THEN refused \cup {"scan"} ELSE refused

\* MUTANT: default_conn is not reset.
Mut_EndOfSearchedLink(c) ==
    /\ st' = [st EXCEPT ![c] = "none"]
    /\ smp' = [smp EXCEPT ![c] = "none"]
    /\ refs' = [refs EXCEPT ![c] = IF default_conn = c THEN @ - 2 ELSE @ - 1]
    /\ IF default_conn = c THEN bt_scan_start ELSE UNCHANGED <<scanning, refused>>
    /\ UNCHANGED <<default_conn, hostVars, mitm_queue, in_pairing_mode, mainVars, ended>>

\* MUTANT: the scan is not started again.
Mut_EndOfSearchedLink_idle(c) ==
    /\ st' = [st EXCEPT ![c] = "none"]
    /\ smp' = [smp EXCEPT ![c] = "none"]
    /\ refs' = [refs EXCEPT ![c] = IF default_conn = c THEN @ - 2 ELSE @ - 1]
    /\ default_conn' = IF default_conn = c THEN NULL ELSE default_conn
    /\ UNCHANGED <<scanning, hostVars, mitm_queue, in_pairing_mode, mainVars,
                   historyVars>>

\* The stack's reference and, if it is the left half's, default_conn's.
EndOfSearchedLink(c) ==
    /\ st' = [st EXCEPT ![c] = "none"]
    /\ smp' = [smp EXCEPT ![c] = "none"]
    /\ IF default_conn = c
       THEN /\ refs' = [refs EXCEPT ![c] = @ - 2]
            /\ default_conn' = NULL
            /\ bt_scan_start
       ELSE /\ refs' = [refs EXCEPT ![c] = @ - 1]
            /\ UNCHANGED <<default_conn, scanning, refused>>
    /\ UNCHANGED <<hostVars, mitm_queue, in_pairing_mode, mainVars, ended>>

\* connected() with an error, after CONFIG_BT_CREATE_CONN_TIMEOUT at the latest.
ConnectFailed(c) == st[c] = "initiating" /\ EndOfSearchedLink(c)

LeftDisconnected(c) == st[c] = "left" /\ EndOfSearchedLink(c)

-----------------------------------------------------------------------------
(* The link to the host.                                                   *)

\* A pairing or a connection takes connection events; main_pc leaves "idle"
\* for some microseconds only, so neither begins and gets far in between.
MainAsleep == main_pc = "idle"

\* MUTANT: without BT_LE_ADV_OPT_ONE_TIME the advertising goes on.
Mut_HostConnected(c) ==
    /\ st[c] = "adv" /\ MainAsleep
    /\ \E a \in Free :
           /\ st' = [st EXCEPT ![c] = "host", ![a] = "adv"]
           /\ refs' = [refs EXCEPT ![a] = 1]
    /\ conn_mode' = [i \in Slots |->
           IF /\ conn_mode[i].conn = NULL
              /\ \A j \in 1..(i - 1) : conn_mode[j].conn # NULL
           THEN [conn |-> c, in_boot_mode |-> FALSE] ELSE conn_mode[i]]
    /\ is_adv' = FALSE
    /\ UNCHANGED <<smp, searchVars, mitm_queue, in_pairing_mode, mainVars, historyVars>>

\* connected() of a link to the advertising hub: the first free slot is its.
HostConnected(c) ==
    /\ st[c] = "adv" /\ MainAsleep
    /\ st' = [st EXCEPT ![c] = "host"]
    /\ conn_mode' = [i \in Slots |->
           IF /\ conn_mode[i].conn = NULL
              /\ \A j \in 1..(i - 1) : conn_mode[j].conn # NULL
           THEN [conn |-> c, in_boot_mode |-> FALSE] ELSE conn_mode[i]]
    /\ is_adv' = FALSE
    /\ UNCHANGED <<refs, smp, searchVars, mitm_queue, in_pairing_mode, mainVars,
                   historyVars>>

\* pairing_failed takes the head of the queue out if it is the link's, with
\* its reference: what it drops of either.
Pairing(c) == smp[c] \in {"confirm", "confirmed"}
Dropped(c) == Pairing(c) /\ mitm_queue # << >> /\ Head(mitm_queue) = c

\* MUTANT: the head of the queue is only looked at.
Mut_Dequeued(c) == mitm_queue
Dequeued(c) == IF Dropped(c) THEN Tail(mitm_queue) ELSE mitm_queue

\* MUTANT: the reference of the entry is forgotten.
Mut_Unref(c) == refs
Unref(c) == [refs EXCEPT ![c] = IF Dropped(c) THEN @ - 1 ELSE @]

\* MUTANT: the slot of the link that ends counts as a host.
Mut_AnyOther(c) == \E i \in Slots : conn_mode[i].conn # NULL

\* is_any_dev_connected of disconnected().
AnyOther(c) == \E i \in Slots : conn_mode[i].conn \notin {c, NULL}

\* MUTANT: advertising is not started again.
Mut_advertising_start(others, counts) ==
    /\ st' = others /\ refs' = counts
    /\ UNCHANGED <<is_adv, refused>>

\* Advertising needs an object, and may be refused for another reason; either
\* is printed and forgotten.  The rest of the objects becomes `others'.
advertising_start(others, counts) ==
    \/ /\ st' = others /\ refs' = counts
       /\ UNCHANGED is_adv
       /\ refused' = IF Free = {} THEN refused ELSE refused \cup {"adv"}
    \/ \E a \in Free :
          /\ st' = [others EXCEPT ![a] = "adv"] /\ refs' = [counts EXCEPT ![a] = 1]
          /\ is_adv' = TRUE
          /\ UNCHANGED refused

\* The end of the pairing, then disconnected(), which advertises while the
\* ended link still has its object; last the stack's unref.
HostDisconnected(c) ==
    /\ st[c] = "host"
    /\ mitm_queue' = Dequeued(c)
    /\ smp' = [smp EXCEPT ![c] = "none"]
    /\ conn_mode' = [i \in Slots |->
           IF conn_mode[i].conn = c THEN [conn_mode[i] EXCEPT !.conn = NULL]
                                    ELSE conn_mode[i]]
    /\ in_pairing_mode' = (in_pairing_mode \/ ~AnyOther(c))
    /\ advertising_start([st EXCEPT ![c] = "none"], [Unref(c) EXCEPT ![c] = @ - 1])
    /\ ended' = IF main_pc # "idle" /\ answer THEN {"accepted"} ELSE {}
    /\ UNCHANGED <<searchVars, mainVars>>

hids_pm_evt_handler(c, boot) ==
    /\ st[c] = "host"
    /\ conn_mode' = [i \in Slots |->
           IF /\ conn_mode[i].conn = c
              /\ \A j \in 1..(i - 1) : conn_mode[j].conn # c
           THEN [conn_mode[i] EXCEPT !.in_boot_mode = boot] ELSE conn_mode[i]]
    /\ UNCHANGED <<stackVars, searchVars, is_adv, mitm_queue, in_pairing_mode, mainVars,
                   historyVars>>

\* The reference is taken even if the queue is full.  Only the host asks: this
\* handler does not look at the role either, but the left half, on whose link
\* it could be called too, has no display to compare a passkey with.
auth_passkey_confirm(c) ==
    /\ st[c] = "host" /\ ~Pairing(c) /\ MainAsleep
    /\ smp' = [smp EXCEPT ![c] = "confirm"]
    /\ refs' = [refs EXCEPT ![c] = @ + 1]
    /\ mitm_queue' = IF Len(mitm_queue) < MaxClients
                     THEN Append(mitm_queue, c) ELSE mitm_queue
    /\ UNCHANGED <<st, searchVars, hostVars, in_pairing_mode, mainVars, historyVars>>

\* The host cancels, or a check fails after the confirmation.  For another link
\* than that of the entry nothing happens.
pairing_failed(c) ==
    /\ st[c] = "host" /\ Pairing(c)
    /\ smp' = [smp EXCEPT ![c] = "none"]
    /\ mitm_queue' = Dequeued(c)
    /\ refs' = Unref(c)
    /\ UNCHANGED <<st, searchVars, hostVars, in_pairing_mode, mainVars, historyVars>>

\* A link is encrypted, after a pairing or with the bond of an earlier one, be
\* it the host's or the searched one: the handler does not look at the role.
\* A change with an error is only printed.
security_changed(c) ==
    /\ st[c] \in {"host", "left"} /\ smp[c] # "confirm"
    /\ smp' = [smp EXCEPT ![c] = "secured"]
    /\ in_pairing_mode' = FALSE
    /\ ended' = IF st[c] = "left" THEN ended \cup {"left"} ELSE ended
    /\ UNCHANGED <<st, refs, searchVars, hostVars, mitm_queue, mainVars, refused>>

-----------------------------------------------------------------------------
(* The main thread answers.                                                *)

\* pairing_mode sees a waiting passkey and a press of one of the two keys.
pairing_mode ==
    /\ main_pc = "idle" /\ in_pairing_mode /\ mitm_queue # << >>
    /\ main_pc' = "seen"
    /\ answer' \in BOOLEAN
    /\ UNCHANGED <<stackVars, searchVars, hostVars, mitm_queue, in_pairing_mode, main_conn,
                   historyVars>>

\* num_comp_reply: k_msgq_get, which may find the queue empty by now.
GetEntry ==
    /\ main_pc = "seen"
    /\ IF mitm_queue # << >>
       THEN /\ main_conn' = Head(mitm_queue) /\ mitm_queue' = Tail(mitm_queue)
            /\ main_pc' = "got"
       ELSE main_pc' = "replied" /\ UNCHANGED <<main_conn, mitm_queue, historyVars>>
    /\ UNCHANGED <<stackVars, searchVars, hostVars, in_pairing_mode, answer,
                   historyVars>>

\* MUTANT: the entry's reference is kept.
Mut_num_comp_reply ==
    /\ main_pc = "got"
    /\ smp' = [smp EXCEPT ![main_conn] =
           IF answer /\ @ = "confirm" THEN "confirmed"
           ELSE IF ~answer /\ Pairing(main_conn) THEN "none" ELSE @]
    /\ main_conn' = NULL
    /\ main_pc' = "replied"
    /\ UNCHANGED <<refs, st, searchVars, hostVars, mitm_queue, in_pairing_mode, answer,
                   historyVars>>

\* MUTANT: after a rejection pairing_failed drops the reference too.
Mut_num_comp_reply_twice ==
    /\ main_pc = "got"
    /\ smp' = [smp EXCEPT ![main_conn] =
           IF answer /\ @ = "confirm" THEN "confirmed"
           ELSE IF ~answer /\ Pairing(main_conn) THEN "none" ELSE @]
    /\ refs' = [refs EXCEPT ![main_conn] = IF answer THEN @ - 1 ELSE @ - 2]
    /\ main_conn' = NULL
    /\ main_pc' = "replied"
    /\ UNCHANGED <<st, searchVars, hostVars, mitm_queue, in_pairing_mode, answer,
                   historyVars>>

\* Confirm or cancel, which do nothing to a link that is gone or does not
\* pair any more, and drop the reference of the entry.
num_comp_reply ==
    /\ main_pc = "got"
    /\ smp' = [smp EXCEPT ![main_conn] =
           IF answer /\ @ = "confirm" THEN "confirmed"
           ELSE IF ~answer /\ Pairing(main_conn) THEN "none" ELSE @]
    /\ refs' = [refs EXCEPT ![main_conn] = @ - 1]
    /\ main_conn' = NULL
    /\ main_pc' = "replied"
    /\ UNCHANGED <<st, searchVars, hostVars, mitm_queue, in_pairing_mode, answer,
                   historyVars>>

\* Back in pairing_mode; only an accepted passkey ends the pairing mode.
LeavePairingMode ==
    /\ main_pc = "replied"
    /\ in_pairing_mode' = (in_pairing_mode /\ ~answer)
    /\ main_pc' = "idle"
    /\ answer' = FALSE
    /\ UNCHANGED <<stackVars, searchVars, hostVars, mitm_queue, main_conn, historyVars>>

Main == pairing_mode \/ GetEntry \/ num_comp_reply \/ LeavePairingMode

Next ==
    \/ Main \/ scan_connecting \/ scan_connecting_error
    \/ \E c \in Conns :
          \/ LeftConnected(c) \/ ConnectFailed(c) \/ LeftDisconnected(c)
          \/ HostConnected(c) \/ HostDisconnected(c)
          \/ auth_passkey_confirm(c) \/ pairing_failed(c) \/ security_changed(c)
          \/ \E boot \in BOOLEAN : hids_pm_evt_handler(c, boot)

(* The main thread runs on once it has begun to answer; no peer need act.  *)
Spec ==
    /\ Init /\ [][Next]_vars
    /\ WF_vars(GetEntry \/ num_comp_reply \/ LeavePairingMode)

-----------------------------------------------------------------------------
Count(cond) == IF cond THEN 1 ELSE 0

\* There is one host at most: an object serves the host or the advertising,
\* never two do (BT_LE_ADV_OPT_ONE_TIME, advertising_start only where the
\* host's link ends), and of the slots the first alone is ever used, as
\* main() takes for granted when it tests conn_mode[0].
OneHost ==
    /\ \A c, d \in Links("adv") \cup Links("host") : c = d
    /\ \A c \in Conns : conn_mode[1].conn = c <=> st[c] = "host"
    /\ \A i \in Slots \ {1} : conn_mode[i].conn = NULL

\* There is at most one link towards the left half, default_conn's, and the
\* hub never scans while it has one.
OneLeft ==
    /\ \A c \in Conns : st[c] \in {"initiating", "left"} <=> default_conn = c
    /\ scanning => default_conn = NULL

\* The queue never holds more than the pairing that is under way: what is to
\* be answered is what the host waits for (auth_passkey_confirm, pairing_failed).
QueueSound ==
    /\ Len(mitm_queue) <= 1
    /\ mitm_queue # << >> =>
           st[Head(mitm_queue)] = "host" /\ smp[Head(mitm_queue)] = "confirm"

\* Every reference the application takes it gives back: an object is held by
\* its link and by the three places that keep a reference, no more, no less.
RefsBalanced ==
    \A c \in Conns :
        refs[c] = Count(st[c] # "none") + Count(default_conn = c)
                  + Count(mitm_queue # << >> /\ Head(mitm_queue) = c)
                  + Count(main_conn = c)

\* A scan that finds the left half has an object for it: the pool of two is
\* only short while main still holds the object of a host that has gone.
ObjectForLeft ==
    scanning => Free # {} \/ main_conn # NULL

\* The hub looks for the left half whenever it has none, unless the stack
\* once refused to create a connection (connected, disconnected).
SearchGoesOn == Links("left") = {} /\ refused \cap {"create", "scan"} = {} => Searching

\* Without a host the hub is in pairing mode, where the next passkey can be
\* answered, with two exceptions: the last host left while main was accepting
\* its passkey, which ends the mode after disconnected() had begun it, or the
\* searched link has been secured since (security_changed, pairing_mode).
PairingModeKept == Links("host") = {} /\ ended = {} => in_pairing_mode

\* The object of a link that has ended is free again in the end, also when
\* the link ended in the middle of num_comp_reply.
ObjectsComeBack ==
    \A c \in Conns : (refs[c] > 0 /\ st[c] = "none") ~> refs[c] = 0

\* What it rests on: an object whose link has ended is kept by main alone, in
\* num_comp_reply, whose next step gives it back.
MainKeepsIt ==
    \A c \in Conns : refs[c] > 0 /\ st[c] = "none" =>
        main_pc = "got" /\ main_conn = c /\ refs[c] = 1

-----------------------------------------------------------------------------
(* What the links are to the user: HubSession.                             *)

HostPhase ==
    IF Links("host") # {} THEN "connected"
    ELSE IF Links("adv") # {} THEN "advertising" ELSE "off"

SearchPhase ==
    IF scanning THEN "scanning"
    ELSE IF Links("initiating") # {} THEN "connecting"
    ELSE IF Links("left") # {} THEN "linked" ELSE "idle"

S == INSTANCE HubSession WITH host <- HostPhase, search <- SearchPhase

\* Objects, references, slots and the interrupted reply are details: the hub
\* keeps to the session of HubSession, where a host that goes leaves the hub
\* advertising unless the left half takes part or the stack refuses, and the
\* search goes on unless the stack refuses.
ImplementsSession == S!Spec

-----------------------------------------------------------------------------
(* What HubKeys assumes of the host's side: HostFeed.                      *)

Host == conn_mode[1].conn # NULL
Pending == mitm_queue # << >>

\* Once the entry is taken a rejection has nothing more to do.
Answering ==
    IF main_pc = "seen" THEN IF answer THEN "accept" ELSE "reject"
    ELSE IF answer THEN "leave" ELSE "no"

H == INSTANCE HostFeed WITH host <- Host, pending <- Pending, answering <- Answering

\* conn_mode[0], the queue and the pairing mode move as HubKeys takes them to,
\* whatever is between k_msgq_num_used_get, k_msgq_get and the write of
\* in_pairing_mode: one host and one passkey at a time, none without its host,
\* and a pairing mode that only the end of a host's link begins.
ImplementsHostFeed == H!Spec

-----------------------------------------------------------------------------
(* What the documentation says of the links and the code does not keep.    *)

\* README.rst, testing: after a disconnection "you can immediately reconnect
\* to the device".  Without a host the hub must be advertising, unless the
\* stack refused although there was an object.
HostCanReconnect == Links("host") = {} /\ refused = {} => Links("adv") # {}

\* README.rst, user interface: "When pairing, press this button to confirm
\* the passkey value".  The keys are only looked at in pairing mode.
ConfirmAnswerable == mitm_queue # << >> => in_pairing_mode
=============================================================================
