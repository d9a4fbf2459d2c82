----------------------------- MODULE ContactStore -----------------------------
(***************************************************************************)
(* The pinned contacts (ContactStore in torcall/core/identity.py), the     *)
(* file they are kept in, and the calls and clicks that change them, over  *)
(* any number of starts of the application.  Pinning is trust on first     *)
(* use: the identity key first seen at an address is remembered there.     *)
(*                                                                         *)
(* The file is encrypted under the passphrase of the session that last     *)
(* saved it.  A session may be started with any passphrase or none: the    *)
(* start-up dialog tests it against another file, the environment variable *)
(* is not tested at all.  A write may fail before or after it truncates    *)
(* the file; a crash during a save is a torn file followed by Quit.  The   *)
(* constant WritesFail says whether the disk does that.                    *)
(*                                                                         *)
(* The dictionary's order is not kept: where the code takes the first of   *)
(* several entries the model takes any.                                    *)
(***************************************************************************)
EXTENDS Naturals

CONSTANTS
    Onions,       \* .onion addresses
    Loopbacks,    \* 127.0.0.1:<port> addresses
    Keys,         \* long-term identity keys
    Names,        \* what a user may call a contact
    Passphrases,  \* what a user may protect the file with
    None,         \* no entry, no name, no passphrase
    WritesFail    \* the disk may refuse or tear a write

Addresses == Onions \cup Loopbacks

ASSUME AddressAssumption == Onions \cap Loopbacks = {}
ASSUME NoneAssumption == None \notin Keys \cup Names \cup Passphrases
ASSUME WritesAssumption == WritesFail \in BOOLEAN

VARIABLES
    contacts,    \* _contacts
    running,     \* the application runs
    passphrase,  \* get_passphrase()
    file,        \* CONTACTS_FILE
    trusted,     \* history: the key first pinned at each address
    given,       \* history: the name last given to each identity
    forgotten,   \* history: removed for good and not met since
    intact       \* history: every load and save so far has worked

vars == <<contacts, running, passphrase, file, trusted, given, forgotten, intact>>

Entry  == [key : Keys, name : Names \cup {None}]
Absent == [key |-> None, name |-> None]
Pins   == [Addresses -> Entry \cup {Absent}]
Nobody == [a \in Addresses |-> Absent]

NoFile   == [state |-> "absent", lock |-> None, pins |-> Nobody]
Torn     == [state |-> "torn", lock |-> None, pins |-> Nobody]
Whole(c) == [state |-> "whole", lock |-> passphrase, pins |-> c]

Files == [state : {"absent", "torn", "whole"},
          lock : Passphrases \cup {None}, pins : Pins]

(* Types: above all, no entry without a key and no name without an entry. *)
TypeOK ==
    /\ contacts \in Pins /\ running \in BOOLEAN
    /\ passphrase \in Passphrases \cup {None}
    /\ file \in Files
    /\ trusted \in [Addresses -> Keys \cup {None}]
    /\ given \in [Keys -> Names \cup {None}]
    /\ forgotten \subseteq Keys /\ intact \in BOOLEAN

(* Where an identity is pinned, and its names there: the code shows one of *)
(* them, so there had better be no two.                                    *)
At(c, k)      == {a \in Addresses : c[a].key = k}
NamesIn(c, k) == {c[a].name : a \in At(c, k)} \ {None}
IfAny(n)      == {n} \ {None}

(* Either no file yet, or the plaintext file of an earlier version: it may *)
(* hold loopback entries, and a name under some of the addresses only.     *)
Init ==
    /\ contacts = Nobody /\ running = FALSE /\ passphrase = None
    /\ \E c \in Pins, g \in [Keys -> Names \cup {None}] :
          /\ \A k \in Keys : NamesIn(c, k) = IfAny(g[k])
          /\ file = IF c = Nobody THEN NoFile
                    ELSE [state |-> "whole", lock |-> None, pins |-> c]
          /\ trusted = [a \in Addresses |-> c[a].key]
          /\ given = g
    /\ forgotten = {} /\ intact = TRUE

-----------------------------------------------------------------------------
(* _save after contacts became c.  A failure is logged, no more. *)
Save(c) ==
    \/ file' = Whole(c) /\ UNCHANGED intact
    \/ WritesFail /\ file' \in {file, Torn} /\ intact' = FALSE

(* An identity with no entry left has no name either. *)
Unnamed(c) == [k \in Keys |-> IF At(c, k) = {} THEN None ELSE given[k]]

(* What load makes of the file: nothing of one it cannot read. *)
Readable(p) == file.state = "whole" /\ file.lock \in {None, p}
Loaded(p)   == IF Readable(p) THEN file.pins ELSE Nobody

(* purge_loopback: d is c without its loopback entries, their names moved  *)
(* to the identity's unnamed onions.                                       *)
PurgesNames(c, d) ==
    d = [a \in Addresses |-> IF a \in Loopbacks THEN Absent ELSE c[a]]

Moved(c, a) == {c[l].name : l \in At(c, c[a].key) \cap Loopbacks} \ {None}

Purges(c, d) ==
    /\ d \in Pins
    /\ \A a \in Addresses :
          IF a \in Loopbacks
          THEN d[a] = Absent
          ELSE /\ d[a].key = c[a].key
               /\ d[a].name \in IF c[a].name = None /\ Moved(c, a) # {}
                               THEN Moved(c, a) ELSE {c[a].name}

(* CallManager.__init__: load, then purge_loopback, which saves if it      *)
(* removed anything.                                                       *)
Start(p) ==
    /\ ~running
    /\ running' = TRUE /\ passphrase' = p
    /\ Purges(Loaded(p), contacts')
    /\ IF \E l \in Loopbacks : Loaded(p)[l] # Absent
       THEN \/ /\ file' = [state |-> "whole", lock |-> p, pins |-> contacts']
               /\ intact' = (intact /\ Readable(p))
            \/ WritesFail /\ file' \in {file, Torn} /\ intact' = FALSE
       ELSE /\ UNCHANGED file
            /\ intact' = (intact /\ (Readable(p) \/ file.state = "absent"))
    /\ trusted' = [a \in Addresses |-> IF a \in Loopbacks THEN None
                                                          ELSE trusted[a]]
    /\ given' = [k \in Keys |-> IF At(contacts', k) = {} THEN None ELSE given[k]]
    /\ UNCHANGED forgotten

(* The application ends, by the user or by a crash. *)
Quit ==
    /\ running
    /\ running' = FALSE /\ contacts' = Nobody /\ passphrase' = None
    /\ UNCHANGED <<file, trusted, given, forgotten, intact>>

(* check, for an identity whose signature was verified.  Pinned(a, k, n)   *)
(* is its effect when the address is unknown.                              *)
Pinned(a, k, n) ==
    /\ contacts' = [contacts EXCEPT ![a] = [key |-> k, name |-> n]]
    /\ Save(contacts')
    /\ trusted' = [trusted EXCEPT ![a] = IF @ = None THEN k ELSE @]
    /\ forgotten' = forgotten \ {k}
    /\ UNCHANGED <<running, passphrase, given>>

CheckNew(a, k) ==
    /\ running /\ contacts[a] = Absent /\ At(contacts, k) = {}
    /\ Pinned(a, k, None)

CheckKnown(a, k) ==
    /\ running /\ contacts[a] = Absent
    /\ \E o \in At(contacts, k) : Pinned(a, k, contacts[o].name)

(* The address is pinned: "match" or "mismatch", and nothing changes. *)
CheckOverwrites(a, k) ==
    /\ running /\ contacts[a] # Absent
    /\ Pinned(a, k, contacts[a].name)

CheckPinned(a, k) ==
    /\ running /\ contacts[a] # Absent
    /\ UNCHANGED vars

(* set_name: every address of the contact gets the name. *)
SetNameUnpinned(a, n) ==
    /\ running
    /\ contacts' = [b \in Addresses |->
                       IF b \in At(contacts, contacts[a].key)
                       THEN [contacts[b] EXCEPT !.name = n] ELSE contacts[b]]
    /\ Save(contacts')
    /\ UNCHANGED <<running, passphrase, trusted, given, forgotten>>

SetName(a, n) ==
    /\ running /\ contacts[a] # Absent
    /\ contacts' = [b \in Addresses |->
                       IF b \in At(contacts, contacts[a].key)
                       THEN [contacts[b] EXCEPT !.name = n] ELSE contacts[b]]
    /\ Save(contacts')
    /\ given' = [given EXCEPT ![contacts[a].key] = n]
    /\ UNCHANGED <<running, passphrase, trusted, forgotten>>

(* remove: the contact goes with all its addresses. *)
RemoveHere(a) ==
    /\ running /\ contacts[a] # Absent
    /\ contacts' = [contacts EXCEPT ![a] = Absent]
    /\ Save(contacts')
    /\ trusted' = [trusted EXCEPT ![a] = None]
    /\ given' = Unnamed(contacts')
    /\ forgotten' = IF file' = Whole(contacts')
                    THEN forgotten \cup {contacts[a].key} ELSE forgotten
    /\ UNCHANGED <<running, passphrase>>

Remove(a) ==
    /\ running /\ contacts[a] # Absent
    /\ LET gone == At(contacts, contacts[a].key) IN
       /\ contacts' = [b \in Addresses |-> IF b \in gone THEN Absent
                                                         ELSE contacts[b]]
       /\ trusted' = [b \in Addresses |-> IF b \in gone THEN None
                                                        ELSE trusted[b]]
    /\ Save(contacts')
    /\ given' = Unnamed(contacts')
    /\ forgotten' = IF file' = Whole(contacts')
                    THEN forgotten \cup {contacts[a].key} ELSE forgotten
    /\ UNCHANGED <<running, passphrase>>

Check(a, k) == CheckNew(a, k) \/ CheckKnown(a, k) \/ CheckPinned(a, k)

Next ==
    \/ \E p \in Passphrases \cup {None} : Start(p)
    \/ Quit
    \/ \E a \in Addresses : \/ \E k \in Keys : Check(a, k)
                            \/ \E n \in Names \cup {None} : SetName(a, n)
                            \/ Remove(a)

Spec == Init /\ [][Next]_vars

-----------------------------------------------------------------------------
(* "A contact's identity is pinned on first contact and compared on        *)
(* subsequent calls": while the file could always be read and written, the *)
(* keys pinned are exactly those first seen, minus what the user removed   *)
(* and the loopback entries, over any number of restarts.                  *)
PinsKept == intact /\ running => \A a \in Addresses : contacts[a].key = trusted[a]

(* A name belongs to the identity: every new address inherits it, renaming *)
(* reaches all, purging and restarting lose none while the identity stays, *)
(* so the name shown does not depend on the order of the entries.          *)
NameFollowsIdentity ==
    intact /\ running =>
        \A k \in Keys : At(contacts, k) # {} => NamesIn(contacts, k) = IfAny(given[k])

(* "The contact disappears entirely rather than partially": once a removal *)
(* was saved the identity is neither in memory nor in the file, whatever   *)
(* fails later, until it calls again.                                      *)
ForgottenStaysForgotten ==
    \A k \in forgotten : At(contacts, k) = {} /\ At(file.pins, k) = {}

(* What makes PinsKept and NameFollowsIdentity inductive: the file is what *)
(* the next start will trust.                                              *)
FileFollows ==
    /\ ~running => contacts = Nobody
    /\ file.state # "whole" => file.pins = Nobody
    /\ intact =>
          /\ running => contacts = file.pins
          /\ \A a \in Addresses : file.pins[a].key = trusted[a]
          /\ \A k \in Keys : NamesIn(file.pins, k) = IfAny(given[k])

(* "If on a later call the identity associated with that address changes,  *)
(* the app shows an IDENTITY CHANGED warning": the first key is never      *)
(* replaced behind the user's back.                                        *)
PinnedIdentitySticks ==
    running => \A a \in Addresses :
        contacts[a] # Absent /\ trusted[a] # None => contacts[a].key = trusted[a]
=============================================================================
