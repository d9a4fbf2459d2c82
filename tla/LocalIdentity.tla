---------------------------- MODULE LocalIdentity ----------------------------
(***************************************************************************)
(* Who this installation is: its onion service and its Ed25519 key, the    *)
(* files both are kept in, and the session that reads and writes them      *)
(* (torcall/core/tor_manager.py, Identity in core/identity.py, the         *)
(* start-up dialog of ui/passphrase_dialog.py, the wiring of app.py).      *)
(*                                                                         *)
(* Tor is driven by slots on a worker thread, one after the other from a   *)
(* queue; each call to Tor and each file is a step, so that a crash, and   *)
(* the GUI thread's stop, may come between any two.  A write that fails or *)
(* is cut off leaves the file empty or with the beginning of its content,  *)
(* and the beginning of a vault is still recognised as one.                *)
(*                                                                         *)
(* A fresh service is one nobody remembers.                                *)
(***************************************************************************)
EXTENDS Naturals, Sequences

CONSTANTS
    Services,     \* keys of onion services
    Identities,   \* Ed25519 keys
    Passphrases,
    MaxPending,   \* bound: clicks are made while fewer events are pending
    MaxFaults,    \* bound: files and calls to Tor that fail
    Ready,        \* the signal status_changed(READY)
    Garbage,      \* what is read of a key cut short
    None

ASSUME DistinctAssumption ==
    /\ None \notin Services \cup Identities \cup Passphrases \cup {Garbage}
    /\ Ready \notin Services /\ Garbage \notin Services

VARIABLES
    app,         \* "off", "on", or "stopping": shutdown waits for the worker
    passphrase,  \* get_passphrase()
    asked,       \* it was asked for by the dialog, not set in the environment
    keyFile,     \* IDENTITY_KEY_FILE
    addrFile,    \* IDENTITY_ADDR_FILE
    signFile,    \* IDENTITY_SIGN_FILE
    identity,    \* Identity._private
    controller,  \* _controller is connected
    published,   \* the services Tor serves
    serviceId,   \* _service_id, _onion_address
    queue,       \* slots queued for the worker
    slot,        \* where the running slot is
    inbox,       \* the worker's signals, queued for the GUI thread
    shown,       \* the address in the window and in the call manager
    home,        \* history: the service saved or restored last
    self,        \* history: the identity saved or loaded first
    intact,      \* history: every file could be read and written so far
    failed,      \* history: something failed in this session
    faults       \* how often something has failed so far

luck    == <<intact, failed, faults>>
files   == <<keyFile, addrFile, signFile>>
session == <<app, passphrase, asked>>
tor     == <<controller, published, serviceId>>
events  == <<queue, slot, inbox>>
vars    == <<session, files, identity, tor, events, shown, home, self, luck>>

Known(x) == x \cup {None}

(* A file, and what is_vault_blob and decrypt_at_rest make of it.  A torn  *)
(* one is a vault if it keeps the beginning of one.                        *)
File(state, lock, secret) == [state |-> state, lock |-> lock, secret |-> secret]
NoFile       == File("absent", None, None)
Torn(p)      == File("torn", p, None)
Whole(p, s)  == File("whole", p, s)

IsVaultBlob(f)      == f.lock # None
DecryptAtRest(p, f) == f.state = "whole" /\ f.lock = p
Readable(p, f) ==
    IF IsVaultBlob(f) THEN DecryptAtRest(p, f) ELSE f.state = "whole"

(* What is left of a file written under passphrase p when that fails: the  *)
(* file as it was, if it could not even be opened, or a torn one.          *)
Spoilt(f, p) == {f, Torn(None), Torn(p)}

FilesOf(secrets) ==
    [state : {"absent", "torn", "whole"}, lock : Known(Passphrases), secret : Known(secrets)]

Slots   == {"start_tor", "load_identity", "regenerate_address"}
Pcs     == {"idle", "create", "save key", "save address", "emit", "forget key", "forget address"}

TypeOK ==
    /\ app \in {"off", "on", "stopping"} /\ passphrase \in Known(Passphrases)
    /\ asked \in BOOLEAN
    /\ keyFile \in FilesOf(Services) /\ addrFile \in FilesOf(Services)
    /\ signFile \in FilesOf(Identities)
    /\ identity \in Known(Identities)
    /\ controller \in BOOLEAN /\ published \subseteq Services
    /\ serviceId \in Known(Services)
    /\ queue \in Seq(Slots)
    /\ slot \in [pc : Pcs, key : Services \cup {None, Garbage}]
    /\ inbox \in Seq(Services \cup {Ready})
    /\ shown \in Known(Services) /\ home \in Known(Services) /\ self \in Known(Identities)
    /\ intact \in BOOLEAN /\ failed \in BOOLEAN /\ faults \in Nat

At(pc)     == [pc |-> pc, key |-> None]
Create(k)  == [pc |-> "create", key |-> k]
Idle       == At("idle")

(* A first start, or the plaintext files of an earlier one. *)
Init ==
    /\ app = "off" /\ passphrase = None /\ asked = FALSE
    /\ \E s \in Known(Services), i \in Known(Identities) :
          /\ keyFile  = IF s = None THEN NoFile ELSE Whole(None, s)
          /\ addrFile = keyFile
          /\ signFile = IF i = None THEN NoFile ELSE Whole(None, i)
          /\ home = s /\ self = i
    /\ identity = None /\ controller = FALSE /\ published = {} /\ serviceId = None
    /\ queue = <<>> /\ slot = Idle /\ inbox = <<>> /\ shown = None
    /\ intact = TRUE /\ failed = FALSE /\ faults = 0

-----------------------------------------------------------------------------
(* An operation fails, and says whether the files are still as they should *)
(* be; a refusal is no fault.                                              *)
Fault(harmless) ==
    /\ faults < MaxFaults /\ faults' = faults + 1
    /\ failed' = TRUE /\ intact' = (intact /\ harmless)

Refused == failed' = TRUE /\ UNCHANGED <<intact, faults>>

(* run: the passphrase is the environment's, which nothing tests, or the   *)
(* dialog's, which must open the key file if that is a vault.              *)
AcceptedUntested(p) == TRUE

Accepted(p) == IF IsVaultBlob(keyFile) THEN DecryptAtRest(p, keyFile) ELSE TRUE

Start(p, dialog) ==
    /\ app = "off"
    /\ IF dialog THEN Accepted(p) ELSE p # None
    /\ app' = "on" /\ passphrase' = p /\ asked' = dialog
    /\ queue' = <<"start_tor">>
    /\ intact' = (intact /\ \A f \in {keyFile, signFile} :
                              f.state = "absent" \/ Readable(p, f))
    /\ UNCHANGED <<files, identity, tor, slot, inbox, shown, home, self, failed, faults>>

(* shutdown: stop_tor runs on the GUI thread, under the worker's feet, and *)
(* then the GUI thread waits for the worker.                               *)
Stop ==
    /\ app = "on"
    /\ app' = "stopping" /\ controller' = FALSE /\ published' = {}
    /\ UNCHANGED <<passphrase, asked, files, identity, serviceId, events, shown,
                   home, self, luck>>

(* The end of the process: after Stop, or a crash.  Tor ends with it. *)
End ==
    /\ app # "off"
    /\ app' = "off" /\ passphrase' = None /\ asked' = FALSE /\ identity' = None
    /\ controller' = FALSE /\ published' = {} /\ serviceId' = None
    /\ queue' = <<>> /\ slot' = Idle /\ inbox' = <<>> /\ shown' = None
    /\ intact' = (intact /\ slot.pc # "save address")
    /\ failed' = FALSE /\ UNCHANGED faults
    /\ UNCHANGED <<files, home, self>>

(* Identity.load_or_create, on first use.  A key that is there and cannot  *)
(* be read is replaced like one that is not there.                         *)
LoadOrCreate ==
    /\ app = "on" /\ identity = None
    /\ IF Readable(passphrase, signFile)
       THEN /\ identity' = signFile.secret
            /\ self' = IF self = None THEN identity' ELSE self
            /\ UNCHANGED <<signFile, luck>>
       ELSE \E new \in Identities \ {self} :
            /\ identity' = new
            /\ \/ /\ signFile' = Whole(passphrase, new)
                  /\ self' = IF self = None THEN new ELSE self
                  /\ UNCHANGED <<luck>>
               \/ /\ signFile' \in Spoilt(signFile, passphrase)
                  /\ Fault(FALSE) /\ UNCHANGED self
    /\ UNCHANGED <<session, keyFile, addrFile, tor, events, shown, home>>

-----------------------------------------------------------------------------
(* The GUI thread: _on_tor_status, _on_address_changed, the New Address    *)
(* button.                                                                 *)
OnReadyCreatesNothing ==
    /\ app = "on" /\ inbox # <<>> /\ Head(inbox) = Ready
    /\ inbox' = Tail(inbox)
    /\ UNCHANGED <<session, files, identity, tor, queue, slot, shown, home, self,
                   luck>>

OnReady ==
    /\ app = "on" /\ inbox # <<>> /\ Head(inbox) = Ready
    /\ inbox' = Tail(inbox)
    /\ queue' = Append(queue, "load_identity")
    /\ UNCHANGED <<session, files, identity, tor, slot, shown, home, self, luck>>

OnAddressChanged ==
    /\ app = "on" /\ inbox # <<>> /\ Head(inbox) # Ready
    /\ inbox' = Tail(inbox) /\ shown' = Head(inbox)
    /\ UNCHANGED <<session, files, identity, tor, queue, slot, home, self, luck>>

NewAddress ==
    /\ app = "on" /\ Len(queue) + Len(inbox) < MaxPending
    /\ queue' = Append(queue, "regenerate_address")
    /\ UNCHANGED <<session, files, identity, tor, slot, inbox, shown, home, self,
                   luck>>

-----------------------------------------------------------------------------
(* The worker takes its next slot; it may still do so while stopping. *)
Takes(s) ==
    /\ app # "off" /\ slot = Idle /\ queue # <<>> /\ Head(queue) = s
    /\ queue' = Tail(queue)

StartTor ==
    /\ Takes("start_tor")
    /\ \/ controller' = TRUE /\ inbox' = Append(inbox, Ready) /\ UNCHANGED luck
       \/ Fault(TRUE) /\ UNCHANGED <<controller, inbox>>
    /\ UNCHANGED <<session, files, identity, published, serviceId, slot, shown, home, self>>

(* load_identity that takes every plaintext key for a broken one. *)
LoadVaultsOnly ==
    /\ Takes("load_identity")
    /\ slot' = IF DecryptAtRest(passphrase, keyFile) /\ IsVaultBlob(keyFile)
               THEN Create(keyFile.secret) ELSE Create(None)
    /\ UNCHANGED <<session, files, identity, tor, inbox, shown, home, self, luck>>

(* load_identity up to the call of create_hidden_service.  Of a plaintext  *)
(* key cut short either nothing is understood or a part that is no key.    *)
LoadIdentity ==
    /\ Takes("load_identity")
    /\ slot' \in IF Readable(passphrase, keyFile) THEN {Create(keyFile.secret)}
                 ELSE IF keyFile = Torn(None) THEN {Create(None), Create(Garbage)}
                 ELSE {Create(None)}
    /\ UNCHANGED <<session, files, identity, tor, inbox, shown, home, self, luck>>

Remembered ==
    published \cup {serviceId, shown, home, keyFile.secret, addrFile.secret}
              \cup {inbox[i] : i \in 1..Len(inbox)}

Fresh == Services \ Remembered

(* create_hidden_service up to the response.  Tor refuses a key that it    *)
(* serves already or that is none; it answers with a key only if it made   *)
(* one, and only then is there something to save.                          *)
SavesAlways(k) == TRUE

Saves(k) == k = None

CreateSucceeds ==
    /\ slot.pc = "create" /\ controller
    /\ \/ slot.key \in Services \ published /\ serviceId' = slot.key
       \/ slot.key = None /\ serviceId' \in Fresh
    /\ published' = published \cup {serviceId'}
    /\ IF Saves(slot.key)
       THEN slot' = At("save key") /\ UNCHANGED home
       ELSE slot' = At("emit") /\ home' = IF home = None THEN serviceId' ELSE home
    /\ UNCHANGED <<session, files, identity, controller, queue, inbox, shown, self,
                   luck>>

CreateFailsButEmits ==
    /\ slot.pc = "create"
    /\ slot' = At("emit")
    /\ IF controller /\ slot.key \in Known(Services \ published)
       THEN Fault(TRUE) ELSE Refused
    /\ UNCHANGED <<session, files, identity, tor, queue, inbox, shown, home, self>>

CreateFails ==
    /\ slot.pc = "create"
    /\ slot' = Idle
    /\ IF controller /\ slot.key \in Known(Services \ published)
       THEN Fault(TRUE) ELSE Refused
    /\ UNCHANGED <<session, files, identity, tor, queue, inbox, shown, home, self>>

(* _save_identity: the key, then the address; an error ends both, and is   *)
(* only logged.                                                            *)
SaveKey ==
    /\ slot.pc = "save key"
    /\ \/ /\ keyFile' = Whole(passphrase, serviceId) /\ slot' = At("save address")
          /\ home' = IF home = None THEN serviceId ELSE home
          /\ UNCHANGED <<luck>>
       \/ /\ keyFile' \in Spoilt(keyFile, passphrase) /\ slot' = At("emit")
          /\ Fault(FALSE) /\ UNCHANGED home
    /\ UNCHANGED <<session, addrFile, signFile, identity, tor, queue, inbox, shown, self>>

SaveKeyOnly ==
    /\ slot.pc = "save address"
    /\ slot' = At("emit")
    /\ UNCHANGED <<session, files, identity, tor, queue, inbox, shown, home, self,
                   luck>>

SaveAddress ==
    /\ slot.pc = "save address"
    /\ slot' = At("emit")
    /\ \/ addrFile' = Whole(None, serviceId) /\ UNCHANGED <<luck>>
       \/ addrFile' \in Spoilt(addrFile, None) /\ Fault(FALSE)
    /\ UNCHANGED <<session, keyFile, signFile, identity, tor, queue, inbox, shown, home, self>>

EmitAddress ==
    /\ slot.pc = "emit"
    /\ slot' = Idle /\ inbox' = Append(inbox, serviceId)
    /\ UNCHANGED <<session, files, identity, tor, queue, shown, home, self, luck>>

-----------------------------------------------------------------------------
(* regenerate_address: the old service is taken down, or not; it is        *)
(* forgotten in memory, then on disk; a new one is created.                *)
RegenerateAddress ==
    /\ Takes("regenerate_address")
    /\ \/ published' = published \ {serviceId} /\ UNCHANGED luck
       \/ serviceId \in published /\ Fault(TRUE) /\ UNCHANGED published
    /\ serviceId' = None /\ home' = None
    /\ slot' = At("forget key")
    /\ UNCHANGED <<session, files, identity, controller, inbox, shown, self>>

(* Only a file that is not there is passed over; any other error ends the  *)
(* slot.                                                                   *)
ForgetKey ==
    /\ slot.pc = "forget key"
    /\ \/ keyFile' = NoFile /\ slot' = At("forget address") /\ UNCHANGED <<luck>>
       \/ /\ keyFile.state # "absent"
          /\ slot' = Idle /\ Fault(FALSE) /\ UNCHANGED keyFile
    /\ UNCHANGED <<session, addrFile, signFile, identity, tor, queue, inbox, shown, home, self>>

ForgetAddress ==
    /\ slot.pc = "forget address"
    /\ \/ addrFile' = NoFile /\ slot' = Create(None) /\ UNCHANGED <<luck>>
       \/ /\ addrFile.state # "absent"
          /\ slot' = Idle /\ Fault(FALSE) /\ UNCHANGED addrFile
    /\ UNCHANGED <<session, keyFile, signFile, identity, tor, queue, inbox, shown, home, self>>

Worker ==
    \/ StartTor \/ LoadIdentity \/ RegenerateAddress
    \/ CreateSucceeds \/ CreateFails
    \/ SaveKey \/ SaveAddress \/ EmitAddress
    \/ ForgetKey \/ ForgetAddress

Gui == OnReady \/ OnAddressChanged

Next ==
    \/ \E p \in Known(Passphrases), d \in BOOLEAN : Start(p, d)
    \/ Stop \/ End
    \/ LoadOrCreate \/ NewAddress
    \/ Gui \/ Worker

Spec == Init /\ [][Next]_vars

-----------------------------------------------------------------------------
(* "Tell the call manager our own .onion so it can advertise it": once all *)
(* events are handled and if nothing failed, the address shown to the user *)
(* and advertised in handshakes is served, however often and whenever New  *)
(* Address was clicked.                                                    *)
Quiet == app = "on" /\ slot = Idle /\ queue = <<>> /\ inbox = <<>>

ShownIsServed ==
    Quiet /\ ~failed => shown = serviceId /\ shown \in published

(* "Restored the same .onion address", and "a persistent Ed25519 key       *)
(* pair": while every file could be read and written, an installation      *)
(* keeps its service until New Address, and its identity for good.         *)
SelfKept ==
    intact =>
        /\ home # None /\ serviceId # None /\ slot.pc # "save key" => serviceId = home
        /\ self # None /\ identity # None => identity = self

(* The two files written one after the other name the same service as soon *)
(* as the worker is done.                                                  *)
AddressFileFollowsKey ==
    intact /\ slot = Idle /\ keyFile.state = "whole" =>
        addrFile.state = "whole" /\ addrFile.secret = keyFile.secret

(* "We must NOT overwrite the saved identity with empty values": a session *)
(* opened by the dialog never touches a whole key file, unless the user    *)
(* asks for a new address.                                                 *)
KeyFileSafe ==
    [][asked /\ keyFile.state = "whole" /\ slot.pc # "forget key" => UNCHANGED keyFile]_vars

=============================================================================
