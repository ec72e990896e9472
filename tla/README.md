# Verification of the split keyboard firmware

TLA+ models, TLC runs and TLAPS proofs for the firmware of a two-piece
Bluetooth keyboard (`src/peripheral_hids_keyboard`, `src/peripheral_kbds`,
`src/central_kbds`).

## 1. The system

The keyboard has two halves.  The **left half** (`peripheral_kbds`) scans its
4x6 key matrix every 3 ms and notifies its *key state word*, one bit per key,
whenever it changes.  The **hub** (`peripheral_hids_keyboard`, the right half,
running on a dongle) is a central of the left half and at the same time a HID
keyboard, a peripheral of the user's computer, the **host**.  It scans its own
matrix, merges both halves, looks the keys up in four layers of key tables and
sends HID reports.  A third program, `central_kbds`, is a development tool that
connects to the left half and prints its words.

    left half --notification/read--> hub (kbds client) --HID report--> host
                                      ^ own matrix

### 1.1 Components, their state and operations

| component | state | operations | interacts with |
|---|---|---|---|
| key tables (`keys.h`) | constant tables | lookups, `is_mod_chr`, `set_or_clear_mod_byte` | used by the key pipeline |
| key pipeline (`main.c` 600-669, 965-1210, 1346-1472, loop of `main`) | `last_keystate_left/right`, `right_keystate_change`, `has_changed`, `layer_selection`, `hid_keyboard_state` | `call_key_report`, `create_report`, `hid_kbd_state_key_set/clear`, `key_report_send`, `get_keystate`, `pairing_mode` | reads `kbds.keystates`, `conn_mode`, `in_pairing_mode`, which callbacks write |
| links and pairing of the hub (`main.c` 114-173, 325-569, 744-777, 875-941, 1223-1341) | `default_conn`, `conn_mode`, `is_adv`, `mitm_queue`, `in_pairing_mode`, reference counts of the connection objects | scan callbacks, `connected`, `disconnected`, `security_changed`, `auth_passkey_confirm`, `pairing_failed`, `hids_pm_evt_handler`, `num_comp_reply` | the stack calls it; `main` answers passkeys |
| KBDS client (`kbds_client.c`) | `struct bt_kbds_client` | assign handles, subscribe, read, periodic read, notifications | between the stack and the hub (or the test central) |
| KBDS service (`kbds.c`) | `notify_enabled`, `keystate` | CCC write, read, notify | between the stack and the left half |
| left half (`peripheral_kbds/src/main.c`) | `app_keystate`, `button_state` | scan loop, connection callbacks | calls the service |
| test central (`central_kbds/src/main.c`) | `default_conn`, its client | scan, connect, discover (twice) | uses the KBDS client |
| HID service setup, Caps Lock LED, GPIO setup | constants, one LED | initialisation, output reports | - |

### 1.2 What is hard here

* **Two priorities.**  `main` is a preemptible thread; the Bluetooth callbacks
  run in cooperative threads.  A callback is never interrupted by `main`, but it
  can come between any two instructions of `main`: between two loads of
  `kbds.keystates` in `call_key_report`, and between two calls of
  `num_comp_reply`.
* **One piece of state, several writers.**  `kbds.keystates` is written by
  notifications, by the answer of the read at attach, by a discovery and by
  `disconnected`; `last_keystate_left` by `main` and by the read's callback;
  `in_pairing_mode` by `main` and three callbacks; an entry of `mitm_queue` is
  taken out by `main` and by `pairing_failed`.
* **Long sequences.**  The code of a key depends on the layer, which may change
  between its press and its release; one Shift bit serves the Shift key and the
  digits of the symbol layer.
* **Limits.**  Six slots in a report, two connection objects for one host, one
  left half and the advertising.
* **Partial failure.**  A report that is refused, an advertising or a connection
  that cannot be started: each is printed and forgotten.

`PROJECT.json` lists every hazard at its line with the property that would catch
it.  Some have none and a note instead: there the code does the thing in question
(it forgets what the stack refuses, it drops edges in pairing mode), no sentence of
the sources says that it does not, and the properties except it by name and say
that nothing else has the same effect.

### 1.3 What makes each component correct

* Key pipeline: the report is at every step exactly the keys whose edges have
  been done, in one slot each; it changes by one key at a time, in the direction
  of the newest word; the host has the current report; released keys leave it; a
  word of the left half that stands is taken in.
* Links: at most one host and one left half; every reference taken is given
  back; the queue holds what the host waits for; the hub searches while it has
  no left half; a scan that finds it has an object for it; an object comes back.
* Client, service, left half: a subscription follows the link; the hub's word is
  the left half's in the end unless a notification was refused.

## 2. Modules

| module | models | composition |
|---|---|---|
| `KeyState` | key state words, the sentinel and the byte of a read | extended by `KeyMaps`, `KbdsClient`, `LeftHalf`, `LeftFeed` |
| `KeyMaps` | `keys.h`: tables and predicates on positions | extended by `HubKeys` |
| `HubKeys` | the key pipeline, the loop of `main`, all callbacks that write what it reads | extended by `MCHubKeys`, `HubKeysProofs`; built on `LeftFeed` and `HostFeed` |
| `Keyboard` | abstract: what the keyboard promises whoever types on it | implemented by `HubKeys` (instance `K`) |
| `LeftFeed` | abstract: what the hub may rely on of the left half | steps of `HubKeys` (instance `F`), implemented by `SplitLink` |
| `HostFeed` | abstract: what the pipeline may rely on of the host, its passkey and the pairing mode | steps of `HubKeys` (instance `H`), implemented by `HubLinks` |
| `HubSession` | abstract: what the links promise the user | implemented by `HubLinks` |
| `HubLinks` | links, connection objects, pairing dialogue | extended by `MCHubLinks`, `HubLinksProofs` |
| `KbdsClient` | `kbds_client.c` with its two users, the hub and the test central | extended by `MCKbdsClient`, `KbdsClientProofs`; instantiated by `SplitLink` |
| `LeftHalf` | left half: main loop and KBDS service | extended by `SplitLink` |
| `SplitLink` | left half, link and the hub's client together | `LeftHalf` by EXTENDS, `KbdsClient` as instance `C` |
| `MCHubKeys`, `MCHubLinks`, `MCKbdsClient`, `MCSplitLink` | constants of the runs | |
| `HubKeysProofs`, `HubKeysReportProofs`, `HubKeysKeyboardProofs`, `HubKeysProgressProofs` | theorems about `HubKeys`, each extending the one before | |
| `HubLinksProofs`, `KbdsClientProofs`, `SplitLinkProofs` | theorems about the others | |

The parts are checked apart and joined by the two feeds.  `HubKeys` has the
pipeline in full and takes the left half as `LeftFeed` and the host as
`HostFeed` gives it; `SplitLink` has the left half, the link and the client in
full, `HubLinks` the links and the pairing, and `ImplementsFeed` and
`ImplementsHostFeed` say that they make no other steps.  So the one pairing
dialogue, which `HubKeys` and `HubLinks` both need, has one account.

    LeftHalf + KbdsClient = SplitLink  --implements-->  LeftFeed  <--steps of--  HubKeys
                            HubLinks   --implements-->  HostFeed  <--steps of--  HubKeys
                            HubLinks   --implements-->  HubSession
                            HubKeys    --implements-->  Keyboard

### 2.1 `HubKeys`

A key state word is the set of its one bits; a key code is the name of its
constant; the modifier byte is the set of its bits.  The loop of `main` and
`call_key_report` are cut where a callback can make a difference:

| action | code |
|---|---|
| `LoopTest` | the tests of `conn_mode[0].conn` and `in_pairing_mode` |
| `Sample` | difference to the last word and choice of the layer.  The compiler loads `kbds.keystates` once for these lines (image in `build_1`), so they are one step |
| `TestLeft` | the second test for the sentinel, a new load |
| `LeftBit` | one changed bit of the left half, a new load each; `create_report` for it |
| `LatchLeft` | `last_keystate_left = kbds.keystates`, one more load |
| `RightBit` | one changed bit of the right half |
| `Scan`, `PairScan` | `get_keystate`; any subset of `RightKeys` may be down |
| `pairing_mode` | what the keys of the scan say to a waiting passkey |
| `num_comp_reply`, `LeavePairingMode` | the entry is taken, if a callback has not emptied the queue by then; after an accepted passkey the pairing mode ends |
| `LeftConnected` ... `LeftDisconnected` | callbacks of the link to the left half: the steps of `LeftFeed` with what they do to `last_keystate_left` and to the history |
| `HostConnected` ... `pairing_failed` | callbacks of the link to the host: the steps of `HostFeed` with what they do to the report's neighbour `is_adv` and to the history |

`keys_state` has one cell more than the report has slots: both search loops run
to 231 over an array of six, and in the image `is_adv` is the next byte.  Beyond
that byte the model only records (`stray`) that one was written.

`read_process` gets the low byte of the left half's word (the service's read is
one byte wide), and a byte above 100 becomes the sentinel for the callback only.
The sentinel, 0xff, is also the word of the first eight keys.  While it is the
last word heard the code passes over the left half, so `LeftSettles` and
`LatchNearer` except it; but it may come, by a notification or through the
callback of a read, and even be latched, if it comes between the tests and the
latch, and the words after it are among those the two are about.

Two variables are history and no guard reads them.  `told` says that the last
report the host got is the current one.  `hazards` collects what has happened
that the code is known not to survive: `race` (`kbds.keystates` written while
`call_key_report` works on it), `read` (the attach read changed
`last_keystate_left`), `layer` (a layer change gave a held key another meaning),
`unheard` (edges dropped in pairing mode), `overflow` (a press without a slot),
`send` (a report refused), `attach` (a host came while keys were down).  The
report is followed on behaviours without the first five (`Intact`): a report that
is refused and a host that comes late only concern what the host knows, which
`HostUpToDate` says, and that one in turn minds no other hazard.  Each class that
contradicts a sentence of the documentation has a run of its own that shows it.

`ShownKeys` is what the report is to show at any step: the keys of the last
latched words, with the edges toggled that the loops of `call_key_report` have
come to.  The layer keys are not among them.  `ReportFollowsKeys` compares slots
and modifiers with it.

`Keyboard` is what remains of the pipeline for the user: the keys that are down
as last heard, the keys the report shows, the layer, the report and whether the
host has it.  Its steps are one key pressed or released in the report, which
must go the way of the newest word, a turn of the layer on which the shown keys
mean the same, and a host that comes or goes; once something is `lost`, it
promises nothing.  Words, edges, rounds and slots are gone: `HeardKeys`,
`ShownKeys`, `SlotsSent` and `~Intact` are the mapping.  A report that changes by
two keys, a change that is not sent, a modifier that is toggled instead of set,
or a key taken in that is already up would each break the refinement.

### 2.2 `HubLinks`

The pool of connection objects is modelled with reference counts: an object's
link holds one while it lasts (the stack's own, or the advertiser's),
`default_conn` one, each entry of `mitm_queue` one, `main` one in the middle of
`num_comp_reply`.  `conn_mode` holds none.  `disconnected` runs before the
stack gives up its own reference, which is why `advertising_start` in it cannot
use the object that is about to be free.  `num_comp_reply` is three steps
(`pairing_mode` saw the queue not empty, the entry is taken, the answer given
and the reference dropped) and `LeavePairingMode` a fourth, so that every
callback can come in between.

*Timing assumption.*  `HostConnected` and `auth_passkey_confirm` require
`MainAsleep`, that `main` is not within these steps.  They last some
microseconds of `main`'s own time; a connection or a pairing that begins takes
several connection events of at least 7.5 ms each.  The end of a pairing and of
a link, for which one event suffices, are not restricted.

*The role of a link.*  `security_changed` does not look at the role, so the
searched link, too, ends the pairing mode when it is secured: its peer may ask
for that at any time, host or no host.  The model has this for whoever answered
the scan.  `auth_passkey_confirm` and `pairing_failed` do not look at the role
either.  Here the model makes an assumption: only the host compares a passkey.
The left half has no display, and its firmware is built without SMP
(`peripheral_kbds/prj.conf`).  If something in its place did, `pairing_failed`,
which looks at the head of the queue only, could leave an entry of a link that
has gone.

The stack may refuse to create a connection, to scan, or to advertise even with
a free object.  The code prints each refusal and forgets it.  `refused` is the
history of these.  `ended`, history too, holds the two ways in which the pairing
mode ends without a host: `accepted`, the last host left while `main` was
accepting its passkey, so that `disconnected` sets `in_pairing_mode` and
`pairing_mode` then clears it; and `left`, the searched link has been secured
since.  `PairingModeKept` says that there is no third.  What both lead to, the
passkey of a later host that no key can answer, is the finding `confirm`.

`HubSession` is what remains of all that for the user: a host side
(`advertising`, `connected`, `off`), a search (`scanning`, `connecting`,
`linked`, `idle`) and the refusals.  `off` and `idle` are where the hub stays for
good; the specification names the only ways into them.  `HostPhase` and
`SearchPhase` are the refinement mapping.

`HostFeed` is what remains for the pipeline: `host`, whether slot 0 is taken;
`pending`, whether the queue holds an entry; the pairing mode; and how far `main`
is with an answer.  `Host`, `Pending` and `Answering` are the mapping; a callback
may part any two steps of the answer, and a host that leaves in the middle of
one, or a searched link that is secured, is how the hub gets out of pairing mode
without a host.  A second passkey while one waits, a passkey without a host, a
host beside another, or a pairing mode that begins otherwise than with the end of
a host's link would each break the refinement.

*Deadlock.*  The run of `HubLinks` does not check deadlock because the program
can really come to a state in which nothing happens any more: the host leaves
while the left half is connected, so no object is free and there is no
advertising; then the left half leaves, is found again, and the connection
cannot be created, so there is no scan either.

### 2.3 `KbdsClient`

The state is `struct bt_kbds_client`: `conn` and the two callbacks as "is set",
`interval` as "is not zero", `work` for the delayable work, and `keystates`.
The stack's part is the subscription list (`subscribed`) and the reads that wait
for an answer, those of `read_params` (`reads`) and of `periodic_read.params`
(`polls`).  `user` says which program runs: the hub reads once after every
discovery, the test central discovers again in `security_changed`.  Peers
notify, or lack the CCC descriptor, or lack the characteristic.  Callbacks and
the work queue are cooperative threads, so a handler is one action.  At the end
of a link the stack answers waiting reads with an error and ends the
subscription with a notification without data, before `disconnected` runs; the
model does all of that in `disconnected`.  `kbds.conn` is not cleared, and a new
link may get the same object, so the work that is left from an old link may read
on the new one: the model lets it.  `refused` is history: since the last
discovery the stack refused a periodic read.

`bt_kbds_unsubscribe_keystates` and `bt_kbds_stop_per_read_keystates` are not
modelled: no program of the repository calls them.

### 2.4 `LeftHalf`, `SplitLink` and `LeftFeed`

`get_keystate` is two steps, the scan with the store of `app_keystate` and the
notification, since the stack may answer a read between them.  `button_state`,
which `main` does not initialise, starts anywhere.  A notification can be
refused, or is not sent because `notify_enabled` is not set; the loop does not
look at the result.  A read is answered with the low byte of the last scan.

`SplitLink` joins it with the hub's client.  `requests` holds what the hub has
asked (the CCC write, then the read, one at a time as ATT does) and `air` what
the left half has sent, both in order.  The link begins for both at once; each
side notices its end at a time of its own, a part of what is on the way may then
still arrive, and a new link begins empty.  The left half notifies, so the
periodic read of `KbdsClient` never runs and has no action here.  `informed` is
history: the last packet told the whole of `app_keystate`.  A refused
notification or a truncated answer leaves it false: what the hub has then is an
older word until the next change, and this is what the code does.

`LeftFeed` has three variables: the hub's copy, the phase of the link (`down`,
`up`, `assigned` once discovered) and whether the read at attach waits.
`LeftPhase` and `reads > 0` map `SplitLink` to it.  A packet that arrives before
the discovery, a second answer, or a copy that outlives its link would each
break the refinement.

## 3. Runs

| run | checks | bounds |
|---|---|---|
| `layers` | `TypeOK`, `ReportFollowsKeys`, `HostUpToDate`, `ReleasedKeysLeave` | one ordinary key and the layer key on each half, 2 slots |
| `shift` | `ReportFollowsKeys`, `ImplementsKeyboard`, `EmptyNearer` | left Shift and Q; U and the symbol-layer key; 2 slots |
| `settle` | `LeftSettles`, `LatchNearer` | left Ctrl and the layer key of the left half, and the first eight keys at once, whose word is the sentinel; 1 slot, every hazard |
| `links` | `TypeOK`, `OneHost`, `OneLeft`, `QueueSound`, `RefsBalanced`, `ObjectForLeft`, `SearchGoesOn`, `PairingModeKept`, `MainKeepsIt`, `ObjectsComeBack`, `ImplementsSession`, `ImplementsHostFeed` | two objects and two client slots, as in `prj.conf` |
| `client` | `TypeOK`, `OneRead`, `HubReports`, `PollingGoesOn`, `PollingStops`, `PollingWinds` | both programs, three kinds of peers, three words, two periodic reads |
| `split` | `TypeOK`, `HubHasWord`, `HubLearns`, `NewsArrives`, `ImplementsFeed` | four words, two packets on their way |
| `layer_release`, `race_release`, `slots_busy` | the three sentences of section 5 about keys | as `layers`; `slots_busy` with 1 slot |
| `reconnect`, `confirm` | the two about links | as `links` |
| `reports` | the one about the test central | as `client` |

*Why the bounds are enough.*  The pipeline treats ordinary positions alike, so
one key per half is enough for the order of press, layer and release; the layer
keys of both halves together reach all four layers.  The Shift run has the keys
that compete for one bit.  Two slots hold all ordinary keys of `layers`, and
with one slot the second key is the "seventh".  `layers` and `shift` follow a
behaviour up to the first hazard that the report minds (`CONSTRAINT Intact`),
which is exact, since hazards are never taken back and the properties say nothing
after one; their view forgets which of the two other hazards has come (and
`HostUpToDate` is checked up to there only; its theorem goes on), and the
difference that `call_key_report` keeps in a static variable between two rounds:
without a race the next sample replaces it before it is looked at.
`settle` has no such constraint; its view leaves the history out.  The links run
has exactly the program's numbers.  The client can tell words apart only by
whether their low byte is above 100 and whether a byte holds them; `client` and
`split` have a word of each kind.  Two packets let the answer to the read pass
between notifications in every order.  A second discovery while a
periodic read waits starts a second chain of reads; two chains show what they do
to each other, and a third would take one more discovery before an answer.

*Fairness.*  `HubKeys` assumes weak fairness of the main thread only: it wakes
from `k_sleep` in every round and the callbacks are short.  No peer has to act.
`HubLinks` assumes that `main` finishes `num_comp_reply` once it has begun; it
does not assume that anybody presses a key.  `KbdsClient` assumes that the work
queue runs what is due; no answer need come.  `SplitLink` assumes that the hub's
stack hands over what has arrived while the link lasts; `HubLearns` is about
words that stand.

*Action coverage.*  `settle` and `links` leave out nothing: in `HubKeys` every
callback fires in `layers` up to the first hazard and in `settle` beyond it.

## 4. Proofs

`HubKeysProofs` proves `TypeOK` for any key tables that satisfy
`KeyMapAssumption`, any keys, any number of slots.  It is inductive as it
stands.  What it says beyond types: the modifier byte holds modifier bits only
(so `create_report` never ORs a key code into it), and no cell of the report
ever holds anything but a code of the tables (or, in the cell of `is_adv`,
`true`).  `KeyMapAssumption` (a modifier stands on the modifier positions and
nowhere else, and no key sends the byte `true`) is evaluated by TLC for the
program's tables.

`HubKeysReportProofs` proves `ReportFollowsKeys` and `HostUpToDate` for the same
constants.  The invariant is `Follows`: `ReportSound` says that slots and
modifier byte show `ShownKeys`, `WordsSound` that the edges still to be done are
those of the words that were sampled.  A pass of a loop toggles one key in
`ShownKeys` (`Toggles`), and `create_report` adds or removes its code: the lemmas
about one key more and one key less (`AddCode`, `DropCode`, `AddMods`,
`DropMods`) are statements about the report alone.  They need
`DistinctAssumption`, that no two keys have the same code on one layer, since
otherwise a release would take the other key's code; TLC evaluates it for the
keys of each run and, as `AllDistinct` of `MCHubKeys`, for all positions of the
program's tables.  `Sample` may change the layer, to one on which the shown keys
mean the same or else `layer` is among the hazards.  All other steps are `Quiet`,
they leave `ShownKeys` and the report alone, or are a hazard: a callback that
writes `keystates` within the pass is `race`, edges dropped in pairing mode are
`unheard`.  That is why the theorem holds for every interleaving up to the first
of these.

`HubKeysKeyboardProofs` proves that `HubKeys` implements `Keyboard` for the same
constants.  The same case split does it: `Quiet` steps are `Hear` or nothing, a
pass of a loop is `Press`, `Release` or, for a layer key, nothing, `Sample` is
`Turn`, and a step that brings a hazard is `Lose`.  `ReportSound` before and after
a step turns "what the slots send" into "what the shown keys send", so the cells
never appear in the step proofs.  One more invariant is needed, `NoByteInSlots`:
the `true` of `is_adv` never stands in a slot, without which a report could be
empty of codes and yet not empty for the new host.

`HubKeysProgressProofs` proves the two measures of progress.  `LatchNearer` needs
only the types and `TodoSound` (outside its loops main has no bits left), so it
holds after any hazard: the number of steps to the latch is at most 52 and falls
with each step of `main`, from wherever `main` was when the word came.
`EmptyNearer` needs `Follows` and `NoByteInSlots`, for two things: that no step
shows a key more while all are up (`NoneComesBack`), and that `main` cannot start
its next scan with the last edge of the right half done and the report not empty
(`LastEdgeEmpties`).  The measure is that to the latch of the empty word, and then
the edges left of the loop after it.

`HubLinksProofs` proves all safety invariants of `HubLinks` for every pool of at
least two objects and every number of client slots.  They are proved together:
the conjunction `IInv` of `TypeOK`, `OneHost`, `OneLeft`, `QueueSound`,
`RefsBalanced` and three facts about the main thread's position, the pairing
mode and the search is inductive, none of the parts alone is.  `RefsBalanced`
needs `OneLeft` (a link that ends drops two references exactly if it is
`default_conn`'s) and `QueueSound` (an entry that `pairing_failed` takes out is
the only one); `OneHost` needs `RefsBalanced` (an object taken from the free
ones is nobody's); `ObjectForLeft` counts the objects that are held through
`RefsBalanced`.  The step lemma has one step per action and under it one per
conjunct the action disturbs.  `SessionIsImplemented` maps every step to one of
`HubSession` or to none.  Its hard case is `HostGoes`: if no object is free when
the host's link ends, one is the ended link's and the other must be the left
half's, because whatever object `main` holds while there is a host is the host's
own (`MainHost`).  `HostFeedIsImplemented` does the same for `HostFeed`: the
queue can only hold the passkey of the host in slot 0 (`QueueSound`, `OneHost`),
so its end empties the queue; a change of security, of whichever link, is
`Secured`, which may come at any time (`SecuredFeeds`).  `PairingModeIsKept` rests
on `Mode`, which is inductive beside `IInv` and adds `ModeSound`: without a host
`main` is not in the steps of an accepted passkey unless `accepted` is in `ended`.
`OnlyMainKeepsIt` is the safety half of `ObjectsComeBack`, from `RefsBalanced`:
with its link gone an object is not `default_conn`, not in the queue and not
advertised, so the one count left is main's.

`KbdsClientProofs` proves the four safety invariants of `KbdsClient` for all
words, programs, kinds of peers and any bound of periodic reads.  The
strengthening: what belongs to a link (a discovery, its result, the
subscription) ends with it (`LinkInv`); the hub reads and subscribes only after
its one discovery, and the test central never reads (`UserInv`); a discovered
peer without notifications has the interval and the connection set (`PollInv`).
`OneRead` rests on `UserInv`: a second discovery in the hub would clear the
callback of a read that still waits.  `PollingWindsDown` rests on `LinkInv`:
without a link no periodic read is under way and no discovery either, and these
two are all that schedules the work.

`SplitLinkProofs` proves `HubHasWord` for all words and any number of packets on
their way.  `HubHasWord` speaks of an empty channel only; the invariant extends
it to any (`Tells`): the last packet that takes effect, or the client's copy if
there is none, is the word of the left half.  Three lemmas say what a packet
that is sent and one that is handled do to that.  Two more facts are needed: an
answer that is on its way finds the callback it was sent for (`ReadInv`: at most
one request or answer of a read is about, and `reads` counts it), and a link on
which nothing has been discovered carries nothing (`NewLinkInv`), so the reset
by the discovery overwrites no word that was told.  `WordsAssumption`, that a
word is a set of key positions and that a scan may find no key, is all that is
asked of the words.  The same invariant gives `TypeOK`, with the types of the
client in its environment (`ClientTyped`) and the bound of the channel
(`RestOK`), and `FeedIsImplemented`: `NewLinkInv` says that nothing arrives
before the discovery, `ReadInv` that an answer is the one answer of its link.  `NewsIsOnItsWay` counts
the packets still to arrive; it needs besides that the left half is about to send
only what differs from what it sent last (`SendIsDue`), so that it sends a word
that stands once.

Only model-checked: the liveness properties `ReleasedKeysLeave`, `LeftSettles`,
`ObjectsComeBack`, `PollingStops` and `HubLearns`, since fairness and ENABLED are
out of the prover's reach.  What each rests on is a theorem for all constants:
`EmptyNearer`, `LatchNearer`, `MainKeepsIt`, `PollingWinds` and `NewsArrives` say
that the steps of the fair action bring the goal nearer and no other step puts it
off.  What is left to TLC is that the fair action is enabled until then.  Every
safety invariant and action property of the passing runs and all four refinements
are theorems.

## 5. What the code does not keep

Each is a run that ends in a violation and a finding in `PROJECT.json`.

| property | sentence | what the code does |
|---|---|---|
| `LayerReleaseClears` | README of the hub: a press and a release give two notifications, the second all zeroes | the release of a key is looked up on the layer selected then |
| `RaceReleaseClears` | the same | a notification in the middle of `call_key_report` loses edges |
| `SlotsBusyRefused` | comment "All slots busy" | the search runs past the array |
| `HostCanReconnect` | README: one can immediately reconnect | no object is free for the advertising |
| `ConfirmAnswerable` | README: press this button to confirm the passkey | the keys are looked at in pairing mode only |
| `NotificationsReported` | README of the test central: every notification that is received is printed | a second discovery on a link loses the callback and keeps the subscription |

Not a run but seen in the same model: the release of a symbol-layer digit clears
the Shift bit under a Shift key that is still held.  `ReportFollowsKeys` allows
just that, and nothing else, of Shift.

Nor is this one: a discovery cancels the periodic read that is scheduled
(comment at `kbds_client.c` 269) but not one that waits for its answer, and that
answer schedules the next.  So after a second discovery in the test central two
chains of reads run until they meet at the next delay, and a chain begun for a
peer without notifications can go on at a peer with them.  `KbdsClient` has the
behaviour; the left half always notifies, so the shipped pair of programs does
not.

## 6. State of the plan

Done: all modules of section 2 with their runs and proofs; the invariants of the
key pipeline, of the links, of the client and of the composed left half are
proved for all constants; the four abstract specifications are implemented, and
the measures behind the liveness properties are proved.

What could follow, the most useful first:

1. Both halves in one specification, `HubKeys` on the steps of `SplitLink` itself
   and not of `LeftFeed`: from the key of the left half to the report.  The two
   feeds make it a matter of putting theorems together; TLC would need fewer keys.
2. The scan of the test central, with a peer that asks for security at a time of
   its own.

Not modelled, and why:

* `hid_init`, the report map and the Caps Lock LED: constants and one output, no
  state that the rest reads.
* `gpio_init` and the electrical side of the matrix scan: wiring.
* `button_changed`, `button_text_changed` and the other parts outside `dev_mode`:
  not compiled.
* `bt_kbds_unsubscribe_keystates`, `bt_kbds_stop_per_read_keystates`,
  `get_mod_chr`, the test central's `button_readval`: never called.
* The scan of the test central: the hub's, line by line.
* A passkey compared with a peer on the searched link (section 2.2).
* A write of the CCC that the peer refuses later: the stack would end the
  subscription and call `notify_process` without data while the link is up.  The
  left half grants every write (`kbds.c` 78-79).
* Build outputs.  Two build directories, with device tree headers, system call
  tables and compiler probes, are about nine tenths of the C in the
  repository; none of it was written for this program.  Of the six source files
  that were, the models cover the parts with state.
