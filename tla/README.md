# TorCall, modelled and proved

TLA+ models of TorCall, the encrypted voice-call application over Tor
(`torcall/`), the TLC configurations that check them on small instances, and
proofs, checked by TLAPS, that their main invariants hold for every value of
the parameters. Paths are relative to the repository; `cm` stands for
`torcall/core/call_manager.py`.

    tlc -workers 2 -config MCCallManager_races.cfg MCCallManager
    tlapm CallManagerProofs.tla

## 1. The system

### Parts, their state and how they interact

| part | state | operations | talks to |
|---|---|---|---|
| `CallManager` (`cm`) | `_state`, peer, caller flag, re-dial bookkeeping, socket, keys, counters, SAS gate | place, cancel, accept, reject, end call; confirm SAS; dial outcomes; incoming call; disconnect notice; re-dial timer; ping timer | everything below |
| send thread (`_send_loop`) | send queue, `_send_seq` | encode, encrypt, `sendall` | network; posts disconnect notices |
| receive thread (`_recv_loop`) | `_last_recv_seq` | read, dispatch, decrypt, play | jitter buffer; writes `_user_ended`; posts notices |
| `CallClient` / `_ClientWorker` | a socket, a cancelled flag | dial through SOCKS, handshake, one of four signals | Tor, `CallManager` slots |
| `CallServer` / `_ServerWorker` | listening socket, busy flag | accept loop, one thread per connection | `incoming_call` signal |
| `protocol.py` | none | framing, handshake encoding | sockets |
| `Identity`, `ContactStore` | key pair; pinned contacts; two files | load or create; check, repin, rename, remove, purge, save | handshake verification, contacts dialog |
| `TorManager` | Tor process, hidden service, key and address files | start, create, load, regenerate, stop | application |
| `AudioEngine`, `JitterBuffer` | sound stream, mute, codec; frames, target, counters | start, stop, encode, decode; push, pop, clear | send queue, receive thread |
| UI (`ui/`) | in-call view, incoming overlay, buttons, mute button | clicks; show, hide | `CallManager` through `app.py` |

Qt delivers clicks, signals, timers and posted calls to one GUI thread, one at
a time and each to its end. Beside it run, for each session, a send and a
receive thread, for each dial a worker, for the server an accept loop with a
thread per connection, and the sound card's callback. The threads and the GUI
thread share the manager's fields without a lock; a lock exists only around
`sendall`, the busy flag and the jitter buffer.

### What is hard

* **One loss, many reports.** Receive thread, send thread and ping timer each
  post a notice (`cm:866`) that names no session, and it is handled later.
* **Re-dialling.** A timer (`cm:912`) and an old `CallClient`'s signal outlive
  the call they belong to.
* **Threads that outlive their session.** `join(2.0)` may expire; the receive
  thread is not joined at all; both read the flags of the next session.
* **A counter that is a nonce** (`cm:705`), advanced after the send, reset by
  another thread.
* **A busy flag read on one thread and acted on by another** (`cm:503`,
  `server.py:148`).
* **Sessions on top of each other.** No handler of an answered dial looks at the
  state (`cm:427-462`), so one left over from an earlier attempt begins a
  session while another is under way, and its threads run on.
* **Rarely taken error paths**: a rejected re-dial, a handshake that fails
  while accepting, a key that the exchange refuses (`cm:443`, `cm:562`), an
  exception in the receive thread.
* **Files** that are truncated and rewritten, pairs of files written one after
  the other, stores that start empty when they cannot be read.

### What makes each part correct

* Call manager: a session exists exactly in `IN_CALL`; an endpoint without a
  call is not busy; a ringing call can be answered; a dial always has something
  left that ends it, and ends; a dead session is torn down; of a call whose peer
  is forgotten nothing is left with which it could go on.
* Audio channel: no nonce twice; nothing of another session; nothing before
  the SAS is confirmed; every frame heard at most once and in order.
* Jitter buffer and engine: bounds, continuity, a cushion before sound, and
  sound again; what shows as muted is silent; of an ended session nothing is
  heard in the next but the frames its receive threads were holding.
* Contact store: the key first seen stays pinned over restarts; a name follows
  the identity to every address; a removed contact is gone.
* Handshake: an identity is compared or pinned only if its owner signed this
  ephemeral key, recently, for this address; every version of the program is
  understood.
* Own identity: service and key last as long as their files; the address shown
  is the one served; no failure replaces a whole key file.
* Connection: packets arrive whole and in order although four threads write
  them and the reader gets them in pieces; both ends derive the same keys and
  words; neither end stays behind in a call; no wait for the lock is for ever.

`PROJECT.json` lists every component and every hazard with its line.

## 2. The modules

### `CallManager`, `CallHistory` (`MCCallManager`, `MCCallHistory`)

One endpoint. State: the fields of `CallManager` under their own names
(`callState`, `sock`, `attempts`, ...), the server's busy flag, the progress of
each dial, what each socket is attached to, a program counter for each receive
and send thread, the numbers of posted notices and armed timers, and the three
user-interface facts that decide what can be clicked (`widget`, `overlay`,
`confirmPrompt`). One action per slot, click or timer; one per point where a
thread reads or writes a shared field. `_teardown_connection`,
`_cleanup_call`, `_dial`, `_attempt_reconnect` and `_start_call_session` are
operators used by the handlers that call them, so an action is a whole handler,
its signals and what `app.py` connects to them included.

`CallHistory` adds two facts the program does not record (has the user hung up,
were this session's words confirmed) for the two runs that need them.

What is abstracted, and how:

* Keys are `"agreed"` or `"mismatched"`: derived with the ephemeral key the
  peer received, or with another (`_dial` replaces `_my_private` while an older
  dial may still answer).
* Time does not pass. A timeout is an event that may come when its cause is
  there: a join expires only while the thread is blocked in `sendall`, the
  watchdog fires only when the link is not open or nobody reads. A read error
  may come at any time; the callee's 30 s timeout kept from `server.py:128`
  (shorter than the 45 s watchdog) is one cause of it.
* Notices and timers are counts and signals carry no order: no FIFO between
  threads is assumed. A signal of a replaced `CallClient` may be lost. A posted
  `singleShot` from a thread reaches the GUI thread, as the comment at `cm:867`
  says.
* A closed socket makes a blocked read or send on it fail.
* `drops = 0` in `PingFails`: posted calls run well within the 15 s between
  pings, so notices do not pile up from the ping timer.
* `shutdown()` is left out: nothing follows it.

* Which peer key the X25519 exchange refuses is left open:
  `derive_session_keys` may raise wherever it is called (`AcceptRaises`,
  `OnConnectedRaises`). The slot ends there, and the state stays `RINGING` with
  no pending call, or `DIALING` with nothing behind it; `refused` records that.
  (It may raise for an own key that was wiped, too.)

Named parameters of an instance: `UserMay` (which clicks), `MaxDrops` and
`MaxTimers` (how many unhandled notices and timers there may be when a session
or a call begins).

### `AudioStream`, `AudioChannel` (`MCAudioChannel`)

`AudioStream` is the promise: frames spoken in a session are heard there, each
at most once, in the order spoken; any may be lost. To a session mixed up with
another it promises nothing. `AudioChannel` is the code:
the capture handler with its gate, the bounded queue and its sentinel, the send
thread at the granularity of its queue, encryption, `sendall` and counter
steps, teardown split at the join, the network as the set of all packets ever
encrypted (so that a packet may arrive never, late, twice or out of order), and
the anti-replay test of the receiver, whose sessions begin and end on their
own. Sessions follow one another with fresh keys. A damaged packet does not
authenticate and is dropped, which changes nothing. A packet whose header was
altered is not modelled. `_send_seq += 1` is one step, and so are the reads of
the counter between the test of its limit and the packet.

Sessions may overlap. `StartSession` has no guard on the session under way,
because `cm:427-462` has none: it overwrites key and counter, drains the queue
and starts a second send thread; the first goes on with the new key, the old
socket stays open, the gate stays as it was. At the peer two receive threads
may work on one session in the same way. Three history variables say what a
session got into: `shared` (two threads worked on it), `early` (it may have
found the gate open: begun over another, or after a confirmation that came
during no session), `vouched` (its words were confirmed in it). The safety
properties speak of the sessions that are not shared, and run `nonce` shows
what happens in the others. Not followed: what is encrypted with a key wiped
meanwhile, and what the peer hears of a shared session. A session start is one
step of the GUI thread.

### `JitterBuffer`, `AudioEngine` (`MCAudioEngine`)

`JitterBuffer`: `push`, `pop` and `clear`, each atomic because each holds the
lock throughout. Frames are numbered modulo `Wrap` in order of arrival; the
adaptation counters stop at the limits they are compared with.

`AudioEngine` puts it to use: sessions that start and stop the sound device (a
start may fail at either of its two calls and is only logged), the callback in
two steps, reading `_muted` and later posting what it captured and popping a
frame, the receive thread that decodes and pushes, the mute button of the
in-call view on its way to the engine. `stream.stop()` waits for a callback in
progress; nothing waits for the receive thread, so a frame it holds is pushed
after `clear` (`PlayLate`), and the thread goes on reading for the next session
if one has begun. There may be `MaxThreads` of them. A session that begins on
top of another finds the engine running: nothing is cleared, and everything in
the buffer is then an old session's (`old`, `overrun`). The codec and the choice of devices are library
calls that change nothing the control looks at.

### `ContactStore` (`MCPeerIdentity`, `MCContactStore`)

The dictionary of pinned contacts, its file, and any number of starts of the
application. One action per call of the store: `Start` is the load and the
purge of loopback entries in `CallManager.__init__`, `Check` the three ways
`check` ends for an address and a verified identity, `SetName` and `Remove` the
clicks of the contacts dialog. They run on the GUI thread, so each is one step,
its save included. `Save` may work, fail before it opens the file, or fail
after it truncated it; a crash inside a save is the last of these and `Quit`.
`WritesFail` switches the failures off for run `pins`, whose subject is another.

Four history variables state what the store should remember: the key first
seen at each address, the name last given to each identity, the identities
removed by a save that worked, and whether every load and save so far worked.
The dictionary's order is dropped; where the code takes the first entry the
model takes any. Entry texts are abstract; which address a handshake is pinned
under (`cm:344-363`) is any address. The initial file is none, or one in
plaintext from an earlier version with loopback entries and names at some of
an identity's addresses, no two of them different. `repin` has no caller and
is left out, and so are the status strings.

### `Crypto`, `Handshake`, `PeerIdentity` (`MCPeerIdentity`)

`Crypto` holds the functions of `crypto.py` over ideal primitives: a derived
key or a hash is what it was made of, a signature is its maker and what it
covers. `Handshake` is the encoding: a payload is its length and the fields at
their offsets, and decoding goes by the length alone, as the code does.
`PeerIdentity` adds `_verify_peer_identity` to `ContactStore`: any payload that
any of the four versions of the program can build, at any time, whole, with one
field changed, or cut short, from an onion or a loopback address, is decoded,
verified against the clock, given the address to pin under, and handed to the
store, in one step, because it all happens on the GUI thread. Verification is a
pure function, so the next-state relation ranges over what the store sees of
it (`Verifications`).

### `LocalIdentity` (`MCLocalIdentity`)

Three files (service key, service address, signing key), the worker's slots
from their queue, each call to Tor and each write a step of its own, the
signals to the GUI thread, the passphrase of the session and the dialog's test
of it, `New Address` at any time, `stop_tor` on the GUI thread while the worker
is inside a slot, and a crash anywhere. A write that fails leaves the file as
it was, empty, or with its beginning; the beginning of a vault still passes for
one. Which passphrases open a vault is equality. A fresh service is one that
nothing in the state mentions.

### `PacketChannel`, `SharedSocket`, `CallLink` (`MCCallLink`)

`PacketChannel` is the promise: packets, each read once, in order; the end of
the connection may swallow the last; nothing is promised of a direction in
which a packet was given up halfway. `SharedSocket` is one connection: in each
direction a buffer of pieces, two to a packet, the lock that a writer takes
before the first and releases after the last, and a reader that takes one piece
at a time. `CallLink` runs both ends on it, four threads each: the dialling
worker or the connection thread, the GUI thread (accept, reject, hang-up, ping,
watchdog, notices), the send and the receive thread. One call over one
connection; the callee's user may be dialling or in another call when it
arrives. When `derive_session_keys` raises, that end is stranded (`Strands`):
neither in the call nor out of it, its socket open and nobody reading. `sendall` and `recv` fail when the socket or the circuit is gone. They
time out only when they can never go on: nobody at the other end sends, or
reads, or each end waits for the other to read.

Header bytes, the length limit and the unused asynchronous reader are left out.
What a stray piece is read as (an unknown type, a length that never comes) has
one outcome: the receive thread reports nothing any more.

## 3. The runs

| run | instance | shows |
|---|---|---|
| `races` | 2 sockets, 2 dials, 1 attempt, every detector reports, threads outlive their session, a session or a call begins with no notice or timer pending; 3.6 M states | type; `SessionIffInCall`, `FreeEndpointNotBusy`, `RingingIsAnswerable`, `ForgottenIsQuiet`, `DialingIsDriven` whatever the interleaving |
| `live` | the same with 1 dial and the SAS gate on, the user calls, confirms and hangs up, fairness; 215 k states | `DialingEnds`, `BrokenSessionEnds` |
| `engine` | targets 1 to 3, capacity 6, numbers modulo 8, 2 receive threads, fairness; 2.0 M states | type, `NothingLostInside`, `ResumesFromCushion`, `ShownMutedIsSilent`, `OldAudioBounded`, `EngineResumes` |
| `audio` | 2 sessions of 2 frames, queue of 2, counter of 2, constant rate, gated, overlapping or not; 2.8 M states | type, `NonceUnique`, `NoStaleAudio`, `HeldUntilConfirmed`, `NoSilentStop`, refinement of `AudioStream` |
| `contacts` | 2 onions, 1 loopback address, 1 string that is no address, 2 identities with an ephemeral key each, 1 name, 1 passphrase, a clock of 3 and a window of 1; 618 k states | type, `PinsKept`, `NameFollowsIdentity`, `ForgottenStaysForgotten`, `OnlyVouched`, `GenuineIsUnderstood` |
| `identity` | 5 services, 2 signing keys, 2 passphrases, 2 pending events, 2 faults; 580 k states | type, `ShownIsServed`, `SelfKept`, `AddressFileFollowsKey`, `KeyFileSafe` |
| `link` | both ends, buffers of one piece, the callee may hang up, fairness; 130 k states | type, `SessionAgreed`, refinement of `PacketChannel`, `NobodyLeftBehind`, `DialEnds`, `LockIsReleased` |
| `pins` | as `contacts`, the store alone, no write fails | counterexample, see below |
| `nonce` | as `audio` | counterexample, see below |
| `view`, `hangup`, `sas` | as `races`, 1 dial, gated | counterexamples, see below |

**Why these bounds.** Two sockets are an old session and a new one (or a
session and a caller); a dial identifier is recycled as soon as nothing refers
to it, so one covers any sequence of calls and two an old dial beside a new
one. One attempt already has a first and a last. In `races` notices and timers
pile up without a limit except that a session and a call begin only when none
is pending; two dials at once and an answer in `IN_CALL` are reached, in 15
steps, when the notice of a call that was hung up is handled during the next
dial. (The proofs assume no such bound.) A queue of two is
full with one frame and a sentinel; a counter of two has a first packet, a
last, and the refusal. Two keys are an old session and a new one, one after the
other or one on top of the other; once both are shared nothing is claimed of
either, and the configuration stops there (`SomeUnmixed`). Two receive threads
are a late one beside that of the session. The buffer's adaptation distinguishes minimum,
between and maximum. Two onions let an identity rotate, a second identity and
the loopback address let it collide and be purged; one passphrase and none are
a file that can be read and one that cannot. A clock of three has a time inside
the window on either side of another and one outside it. Two faults spoil a
file and then its repair, and a click that waits behind another meets every slot and signal of
start-up; five services always leave one nobody mentions. Buffers of one piece
make every writer wait with half a packet written, so that two frames and two
pings block all four writers at once; larger ones only wait less.

Named bounds inside the modules: `Untorn` (`link`: after a packet was given up
halfway no new one is begun, only answers and waiting writers go on, and the
circuit holds), `Hangers` (who may hang up: the callee, the end that entered
the call first), `MaxFaults` and `MaxPending` (`identity`), `Wrap` and
`MaxThreads` (`engine`: frame numbers, receive threads), `MaxSpoken` (`audio`).

**Fairness.** `live` assumes weak fairness of the event loop (posted notices,
expired timers, delivered signals), of the worker of a dial (which has
`CALL_TIMEOUT_S`), of the receive and send threads (they run, and a blocked
call on a dead or closed socket returns), and of the ping timer. Nothing is
assumed of the user, the peer or the network. `engine` assumes that the sound
card keeps calling and the peer keeps sending, and promises sound only for a
stream that stays open. `link` assumes that every thread runs and that its
timeouts expire; for the GUI and the receive thread it assumes strong fairness,
because what they wait for, the lock, is free again and again but not
continuously: the send thread takes it for every frame and sleeps up to 20 ms
between two. Users and the circuit owe nothing there either.

`audio` and `nonce` do not check deadlock: with its keys used up the instance
stops. Nor does `link`: its one call ends, and so does the model. Nor do `live`,
`view`, `hangup` and `sas`, whose users do not call `cancel_call`: a dial whose
answer the exchange refused is never left again.

**What the runs do not show.** Some things one might expect of the program are
false in it, and the models keep them so. A single loss is reported by two or
three detectors; the second notice is handled while `DIALING`, spends another
attempt and arms a second timer. Two dials then run for one call; the older
answer may be combined with the newer ephemeral key, which gives keys the peer
does not have; the later answer begins a session on top of the first; a timer
left over from an abandoned call can dial while another rings. So there is no
property that a call has one re-dial at a time, that its keys match the peer's,
or that nothing of it is left once the state is `IDLE` (of that,
`ForgottenIsQuiet` says what is true). The properties of `races` survive all
this, which is their point; those of `audio` and `engine` say for which
sessions they hold.

### Where the code and its comments disagree

* **`ViewClosesWithCall`** (run `view`). `cm:104` says `call_ended` is
  "Emitted when the call ends (any reason)." `_on_outgoing_rejected`
  (`cm:464-466`) and the malformed-handshake path become `IDLE` without it;
  during a re-dial the in-call view stays up and the Call button disabled.
* **`HangUpSticks`** (run `hangup`). `cm:198-201` says a hang-up by the user
  prevents reconnection; `end_call` returns at `cm:645` in `DIALING`, so Hang
  Up during a re-dial does nothing.
* **`SasGate`** (run `sas`). `cm:192-195` says no audio until the SAS words are
  confirmed; a click on the confirm button left from the lost session opens
  the gate (`cm:1002`) of the next.
* **`NonceNeverReused`** (run `nonce`). `cm:696-699` refuses to go on when the
  counter runs out, because "reusing an AES-GCM nonce would be catastrophic",
  and `crypto.py:448` asks for a nonce "unique per key". When a dial left over
  is answered in a call, two send threads share the key and the counter; each
  reads the counter before the other advances it, and two frames are encrypted
  with one nonce.
* **`PinnedIdentitySticks`** (run `pins`). `README.md:22` promises a warning
  when the identity at a pinned address changes. A contacts file that cannot be
  decrypted makes the store start empty (`identity.py:160-162`), the address is
  pinned again as new, and the next save overwrites the old file. The start-up
  dialog does not prevent it: it tests the passphrase against the Tor key file
  only (`passphrase_dialog.py:38-47`), and a passphrase from the environment is
  not tested.

Smaller ones, without a run:

* Contacts. `README.md:25` says that names of purged loopback entries are
  preserved, which holds only when the identity has another address; a removal
  whose save fails is logged and undone by the next start. The status of an
  invalid signature (`README.md:22`) is never shown: the status is emitted when
  a session starts, and none starts.
* Keys at rest. The dialog tests a passphrase against the service key only.
  With that file absent any passphrase is accepted, and a signing key and
  contacts kept under another are replaced without a word, though
  `Identity.load_or_create` speaks of creating the key "if absent". A vault cut
  short is still taken for one, and the dialog then accepts no passphrase.
* New Address. When it runs after `stop_tor`, or Tor cannot create a service,
  the old key is deleted and nothing replaces it, and the window and the
  handshakes keep announcing the address that was removed (`ShownIsServed` is
  about sessions in which nothing failed). A `load_identity` queued behind it
  asks Tor for a service it already serves. A crash between the two writes
  leaves the old address beside the new key; nothing reads that file.
* Calls. `CONNECTING` of the documented state diagram (`cm:8-12`) is never
  entered and a re-dial goes from `IN_CALL` to `DIALING`; `cancel_call` has no
  caller. A hang-up may be re-dialled: the peer's send thread can find the
  socket closed before its receive thread has read `CALL_END`, whose purpose
  (`cm:800`) is to prevent that. A thread blocked in `sendall` keeps
  `_socket_lock` into the next session. A `PONG` or `CALL_END_ACK` that cannot
  be sent is not noticed. A peer key that the exchange refuses is not caught:
  it leaves the callee ringing without a pending call (`cm:562`), or the caller
  dialling for ever (`cm:443`). `reject_call` keeps `_peer_address`, so a
  re-dial timer left over then dials the rejected caller's loopback address from
  `IDLE`.
* Audio. `_underruns` is described as consecutive since the last refill
  (`audio_engine.py:81`) but a refill does not reset it; `clear` says it resets
  the adaptation state (`audio_engine.py:135`) and keeps the target; the view
  shows an unmuted microphone at every session while the engine keeps its mute
  switch.

## 4. The proofs

All are for arbitrary constants under the named `ASSUME`s of the modules
(`None` is no identifier; sizes and limits are naturals, positive where the
code divides or indexes by them; switches are Booleans).

* **`CallManagerProofs`**: `TypeCorrect`, `SessionsMatchTheState`,
  `FreeEndpointAccepts`, `RingingCanBeAnswered`. The three safety properties
  are inductive together with the type invariant and `OverlayNotBusy`:
  `reject_call` goes to `IDLE` from any state in which the overlay was left
  up, so that state must not be busy. The proof that a step preserves them
  has a lemma for each shared piece (teardown, cleanup, session start) and a
  step per action. No bound of the instances is assumed.

  `DialsAreDriven` is the safety half of `DialingEnds`: whatever late notices,
  timers and signals do, `DIALING` has the current worker or its undelivered
  signal, a timer or a notice behind it, unless the exchange refused the key of
  its answer. `DrivenInv` adds why the last of them does not vanish unused: the
  peer is known, and a set `_user_ended` has its own notice still to come.
  `ForgottenCallsAreOver`: with the peer's address go the ephemeral key, the
  socket, the dialler and the pending caller, so an answer that is still to
  come finds no key to begin a session with.

  `ViewClosesUnlessUnseen`, `HangUpSticksOtherwise` and `SasGateOtherwise`
  complement the runs `view`, `hangup` and `sas`: each assumes of the
  behaviour that the cases of the counterexample do not occur (as action
  formulas: `EndsUnseen` under an open view; Hang Up in `DIALING`; a
  confirmation outside `IN_CALL`; for the last two, a stale dial answered
  outside `DIALING`), and then the comment holds. So those cases are the only
  ones.
* **`JitterBufferProofs`**: `TypeCorrect`, `FramesContinuous`,
  `CushionBeforeSound`.
* **`AudioEngineProofs`**: `EngineImplementsBuffer` shows that the engine only
  ever moves the buffer by steps of the buffer, so that its theorems carry over
  (`EngineContinuous`, `EngineCushion`); `EngineTypeCorrect`, `MutedIsSilent`,
  `OldAudioIsCounted` for every size of the buffer and any number of threads. The
  last counts: what is old in the buffer, and what threads left over may still
  put there, is no more than these held when the last session ended, and only a
  session under way can be one that began over another (`OldCounted`).
* **`AudioChannelProofs`**: `TypeCorrect`, `NoncesUnique`, `NothingStale`,
  `GateHolds`, `StopsAreReported`, `ImplementsAudioStream`. The inductive
  invariant `Inv` adds three parts. `SessionOK`: in a session that is not
  shared only its own thread can come to encrypt, any other hangs in `sendall`
  or is gone, and an open gate was opened in it or is on record (`early`).
  `CounterOK`: the counter is ahead of every packet of such a session, except
  between `sendall` and the increment and after a failure that ended the
  thread. `FramesOK`: what is queued or in hand belongs to it. The refinement
  needs two more: `OrderOK` (frames are numbered in the order wire, hand, queue)
  and `HeardOK` (what was heard came from a packet the receiver has moved past).
  Then each step of the code is a `Speak`, a `Hear`, a `MixUp` or a stutter of
  `AudioStream`.
* **`ContactStoreProofs`**: `TypeCorrect`, `PinsSurvive`, `NamesSurvive`,
  `RemovalIsFinal`. What makes them inductive is `FileFollows`: until
  something fails, the file holds what the store holds, and both hold what the
  histories say; a file that is not whole holds nothing. Names are compared
  one address at a time (`NamesPointwise`), the purge has a lemma of its own
  (`PurgeFacts`), and the actions that save share `SavedInv`.

* **`PeerIdentityProofs`**: `HandshakesUseTheStore` (handshakes move the store
  only by its own steps, so its theorems hold of the composition),
  `PinsSurviveHandshakes`, `NamesSurviveHandshakes`,
  `RemovalSurvivesHandshakes`, `OnlyVouchedReachTheStore`,
  `EveryVersionIsUnderstood`, for any clock, window, identities and addresses.
* **`LocalIdentityProofs`**: `IdentityTypeCorrect`, `SelfStays`,
  `AddressFileAgrees`, `ShownServed`, `KeyFileIsSafe`, for any number of
  services, passphrases, pending events and faults. The invariant says, for
  each place a slot can be at, what the files and the session know of the
  service it works on, and that the last address in the inbox, or the one shown
  when it is empty, is the one served unless a slot that changes it is queued.
* **`CallLinkProofs`**: `LinkTypeCorrect`, `EndsAgree`, `NothingMisread`,
  `ImplementsPacketChannel`, `NoCircularWaits`, for buffers of any size and any
  two ephemeral keys. `WriterInv`: whoever has half a packet written holds the
  lock. `PhaseInv` and `FreshInv`: where the threads may be at each stage of
  the call. `KeyInv`, `ConsentInv`: which keys are in
  use, and that an acceptance in flight was given. `FramesInv`: the pieces in a
  direction alternate, and end in a first piece exactly if its writer is
  halfway; hence `NothingMisread`.

  `ImplementsPacketChannel` is the refinement: with the packets of a direction
  read off by `Whole`, every step of the threads is a `Send`, a `Receive`, a
  loss or a stutter of `PacketChannel`. `Whole` is a recursive function over a
  sequence, so the proof first shows that such a function exists for every
  sequence and what appending or removing a piece does to it. The induction it
  needs (`SetInduction`) is about a set instead of a predicate and follows from
  the minimal element of a well-founded relation.

  `NoCircularWaits` is the safety half of `LockIsReleased`: of a thread that
  holds a `_socket_lock`, either it can write or its timeout is due, or the
  reader at the other end takes a piece, is about to begin or end the session,
  or has an answer to write and waits in turn for such a one. It needs
  `RouteInv`: how the ends get from the connection to the call, that until the
  request is written the callee only reads it, and that an end whose receive
  thread has not begun finds whole packets.

  `PaddingIsReversed` is about the operators `PadFrame` and `UnpadFrame`: for
  every frame and block size the frame comes back, and the length shows nothing
  but the number of blocks.

**Only model-checked**: everything under fairness (`DialingEnds`,
`BrokenSessionEnds`, `EngineResumes`, `NobodyLeftBehind`, `DialEnds`,
`LockIsReleased`), which the prover cannot reach; of the first and the last the
safety half is proved, that something is always left to go on. That the model
stands for the code is not proved; each definition names its lines.

## 5. Not modelled

* Sound device and codec calls, the codec's packet loss concealment, the level
  meter; SOCKS, the Tor process and its bootstrap; style sheets, logging,
  library look-up: I/O, or no behaviour of their own over time.
* The accept loop of the server, which keeps no state of a call and for whose
  thread `stop` waits up to 5 s; what remains of it, a thread per connection and the busy
  flag, is in `CallLink` and `CallManager`.
* `contacts.repin` and the asynchronous packet reader, which nothing calls.
* Cryptographic primitives are ideal; that two pairs of keys may share their
  SAS words is excluded.
* Call quality, peer identity status and the lists of the dialogs: signals and
  texts that inform and change nothing.

## 6. What is left

`CallManager` (any number of sessions at one end) and `CallLink` (one session,
both ends) overlap in one session and are not composed: a re-dial as seen by
the callee, who may still be in the old session, would be the next step. After
that, two sockets sharing one `_socket_lock`, and the server's shutdown with
connection threads alive.
