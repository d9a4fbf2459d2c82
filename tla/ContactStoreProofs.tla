-------------------------- MODULE ContactStoreProofs --------------------------
(***************************************************************************)
(* ContactStore for any number of addresses, identities, names and         *)
(* passphrases: what is pinned, named and forgotten survives every restart *)
(* as long as the file could be read and written.                          *)
(***************************************************************************)
EXTENDS ContactStore, TLAPS

IInv == TypeOK /\ FileFollows /\ ForgottenStaysForgotten

(* The two kinds of entries of a store. *)
LEMMA PinFacts ==
    ASSUME NEW c \in Pins, NEW a \in Addresses
    PROVE  /\ c[a] = [key |-> c[a].key, name |-> c[a].name]
           /\ c[a].key \in Keys \cup {None} /\ c[a].name \in Names \cup {None}
           /\ c[a].key = None <=> c[a] = Absent
           /\ c[a].key = None => c[a].name = None
  BY NoneAssumption DEF Pins, Entry, Absent

LEMMA NobodyFacts ==
    /\ Nobody \in Pins
    /\ \A k \in Keys : At(Nobody, k) = {}
  BY NoneAssumption DEF Nobody, Pins, Absent, At

(* The names of an identity, one address at a time. *)
Agrees(c, k, n) ==
    /\ \A a \in Addresses : c[a].key = k => c[a].name \in {n, None}
    /\ n # None => \E a \in Addresses : c[a].key = k /\ c[a].name = n

LEMMA NamesPointwise ==
    ASSUME NEW c, NEW k, NEW n
    PROVE  NamesIn(c, k) = IfAny(n) <=> Agrees(c, k, n)
  <1>1. NamesIn(c, k) = {c[a].name : a \in {b \in Addresses : c[b].key = k}} \ {None}
    BY DEF NamesIn, At
  <1>2. ASSUME NamesIn(c, k) = IfAny(n) PROVE Agrees(c, k, n)
    BY <1>1, <1>2 DEF IfAny, Agrees
  <1>3. ASSUME Agrees(c, k, n) PROVE NamesIn(c, k) = IfAny(n)
    BY <1>1, <1>3 DEF IfAny, Agrees
  <1>4. QED
    BY <1>2, <1>3

(* What a save leaves behind, whether it works or not. *)
LEMMA SaveFacts ==
    ASSUME TypeOK, FileFollows, NEW c \in Pins, Save(c)
    PROVE  /\ file' \in Files /\ intact' \in BOOLEAN
           /\ file'.state # "whole" => file'.pins = Nobody
           /\ intact' => intact /\ file'.pins = c
           /\ file' = Whole(c) \/ file' = file \/ file' = Torn
           /\ \A k \in Keys : At(c, k) = {} /\ At(file.pins, k) = {}
                                 => At(file'.pins, k) = {}
  <1>1. /\ file' = Whole(c) \/ file' = file \/ file' = Torn
        /\ intact' => intact /\ file' = Whole(c)
        /\ intact' \in BOOLEAN
    <2>1. CASE file' = Whole(c) /\ UNCHANGED intact
      BY <2>1 DEF TypeOK
    <2>2. CASE file' \in {file, Torn} /\ intact' = FALSE
      BY <2>2
    <2>3. QED
      BY <2>1, <2>2 DEF Save
  <1>2. /\ Whole(c) \in Files /\ Whole(c).pins = c /\ Whole(c).state = "whole"
        /\ Torn \in Files /\ Torn.pins = Nobody /\ Torn.state = "torn"
    BY NobodyFacts DEF Whole, Torn, Files, TypeOK
  <1>3. file \in Files /\ (file.state # "whole" => file.pins = Nobody)
    BY DEF TypeOK, FileFollows
  <1>4. QED
    BY <1>1, <1>2, <1>3, NobodyFacts

LEMMA InitInv == Init => IInv
  <1> SUFFICES ASSUME Init PROVE IInv
    OBVIOUS
  <1>1. PICK c \in Pins, g \in [Keys -> Names \cup {None}] :
          /\ \A k \in Keys : NamesIn(c, k) = IfAny(g[k])
          /\ file = IF c = Nobody THEN NoFile
                    ELSE [state |-> "whole", lock |-> None, pins |-> c]
          /\ trusted = [a \in Addresses |-> c[a].key]
          /\ given = g
    BY DEF Init
  <1>2. file \in Files /\ file.pins = c /\ (file.state # "whole" => file.pins = Nobody)
    BY <1>1, NobodyFacts DEF NoFile, Files
  <1>3. TypeOK
    BY <1>1, <1>2, NobodyFacts, PinFacts DEF Init, TypeOK
  <1>4. FileFollows
    BY <1>1, <1>2 DEF Init, FileFollows
  <1>5. ForgottenStaysForgotten
    BY DEF Init, ForgottenStaysForgotten
  <1>6. QED
    BY <1>3, <1>4, <1>5 DEF IInv

-----------------------------------------------------------------------------
(* An identity that loses its last entry loses its name with it. *)
LEMMA UnnamedFacts ==
    ASSUME TypeOK, NEW c, NEW k \in Keys
    PROVE  /\ Unnamed(c) \in [Keys -> Names \cup {None}]
           /\ Unnamed(c)[k] = IF At(c, k) = {} THEN None ELSE given[k]
  BY DEF Unnamed, TypeOK

(* Purging keeps the keys of the onions, and loses no name of an identity  *)
(* that keeps an address.                                                  *)
LEMMA PurgeFacts ==
    ASSUME NEW c \in Pins, NEW d, Purges(c, d)
    PROVE  /\ d \in Pins
           /\ \A a \in Addresses : d[a].key = IF a \in Loopbacks THEN None ELSE c[a].key
           /\ (\A l \in Loopbacks : c[l] = Absent) => d = c
           /\ \A k \in Keys, n \in Names \cup {None} :
                 Agrees(c, k, n) => Agrees(d, k, IF At(d, k) = {} THEN None ELSE n)
  <1>1. d \in Pins
    BY DEF Purges
  <1>2. ASSUME NEW a \in Addresses
        PROVE  d[a].key = IF a \in Loopbacks THEN None ELSE c[a].key
    <2>1. a \in Loopbacks => d[a] = Absent
      BY DEF Purges
    <2>2. a \notin Loopbacks => d[a].key = c[a].key
      BY DEF Purges
    <2>3. QED
      BY <2>1, <2>2 DEF Absent
  <1>3. ASSUME \A l \in Loopbacks : c[l] = Absent PROVE d = c
    <2>1. ASSUME NEW a \in Addresses PROVE Moved(c, a) = {}
      BY <1>3 DEF Moved, At, Absent
    <2>2. ASSUME NEW a \in Addresses PROVE d[a] = c[a]
      <3>1. CASE a \in Loopbacks
        BY <1>3, <3>1 DEF Purges
      <3>2. CASE a \notin Loopbacks
        <4>1. d[a].key = c[a].key /\ d[a].name = c[a].name
          BY <2>1, <3>2 DEF Purges
        <4>2. QED
          BY <1>1, <4>1, PinFacts
      <3>3. QED
        BY <3>1, <3>2
    <2>3. QED
      BY <1>1, <2>2 DEF Pins
  <1>4. ASSUME NEW k \in Keys, NEW n \in Names \cup {None}, Agrees(c, k, n)
        PROVE  Agrees(d, k, IF At(d, k) = {} THEN None ELSE n)
    <2>1. CASE At(d, k) = {}
      BY <2>1 DEF Agrees, At
    <2>2. CASE At(d, k) # {}
      <3>1. ASSUME NEW a \in Addresses, d[a].key = k
            PROVE  /\ a \notin Loopbacks /\ c[a].key = k
                   /\ Moved(c, a) \subseteq {n}
                   /\ d[a].name \in {n, None}
                   /\ n # None => d[a].name = n \/
                        (Moved(c, a) = {} /\ c[a].name = None)
        <4>1. a \notin Loopbacks /\ c[a].key = k
          BY <1>2, <3>1, NoneAssumption
        <4>2. \A l \in Addresses : c[l].key = k => c[l].name \in {n, None}
          BY <1>4 DEF Agrees
        <4>3. Moved(c, a) \subseteq {n}
          BY <4>1, <4>2 DEF Moved, At
        <4>4. d[a].name \in IF c[a].name = None /\ Moved(c, a) # {}
                            THEN Moved(c, a) ELSE {c[a].name}
          BY <4>1 DEF Purges
        <4>5. QED
          BY <4>1, <4>2, <4>3, <4>4
      <3>2. ASSUME n # None
            PROVE  \E a \in Addresses : d[a].key = k /\ d[a].name = n
        <4>1. PICK b \in Addresses : d[b].key = k
          BY <2>2 DEF At
        <4>2. PICK s \in Addresses : c[s].key = k /\ c[s].name = n
          BY <1>4, <3>2 DEF Agrees
        <4>3. CASE s \in Loopbacks
          <5>1. n \in Moved(c, b)
            BY <3>1, <3>2, <4>1, <4>2, <4>3 DEF Moved, At
          <5>2. QED
            BY <3>1, <3>2, <4>1, <5>1
        <4>4. CASE s \notin Loopbacks
          <5>1. d[s].key = k
            BY <1>2, <4>2, <4>4
          <5>2. d[s].name = n
            BY <3>1, <3>2, <4>2, <5>1
          <5>3. QED
            BY <5>1, <5>2
        <4>5. QED
          BY <4>3, <4>4
      <3>3. QED
        BY <2>2, <3>1, <3>2 DEF Agrees
    <2>3. QED
      BY <2>1, <2>2
  <1>5. QED
    BY <1>1, <1>2, <1>3, <1>4

-----------------------------------------------------------------------------
(* The part common to the actions that change the store and save it. *)
LEMMA SavedInv ==
    ASSUME IInv, running, UNCHANGED <<running, passphrase>>,
           contacts' \in Pins, Save(contacts'),
           trusted' \in [Addresses -> Keys \cup {None}],
           given' \in [Keys -> Names \cup {None}], forgotten' \subseteq Keys,
           intact => /\ \A a \in Addresses : contacts'[a].key = trusted'[a]
                     /\ \A k \in Keys : Agrees(contacts', k, given'[k]),
           \A k \in forgotten' : /\ At(contacts', k) = {}
                                 /\ k \in forgotten \/ file' = Whole(contacts')
    PROVE  IInv'
  <1>1. /\ file' \in Files /\ intact' \in BOOLEAN
        /\ file'.state # "whole" => file'.pins = Nobody
        /\ intact' => intact /\ file'.pins = contacts'
        /\ \A k \in Keys : At(contacts', k) = {} /\ At(file.pins, k) = {}
                              => At(file'.pins, k) = {}
    BY SaveFacts DEF IInv
  <1>2. TypeOK'
    BY <1>1 DEF IInv, TypeOK
  <1>3. FileFollows'
    <2>1. ASSUME intact'
          PROVE  \A k \in Keys : NamesIn(file'.pins, k) = IfAny(given'[k])
      BY <1>1, <2>1, NamesPointwise
    <2>2. QED
      BY <1>1, <2>1 DEF FileFollows
  <1>4. ForgottenStaysForgotten'
    <2>1. ASSUME NEW k \in forgotten' PROVE At(file'.pins, k) = {}
      <3>1. CASE k \in forgotten
        BY <1>1, <3>1 DEF IInv, ForgottenStaysForgotten
      <3>2. CASE file' = Whole(contacts')
        BY <3>2 DEF Whole
      <3>3. QED
        BY <3>1, <3>2
    <2>2. QED
      BY <2>1 DEF ForgottenStaysForgotten
  <1>5. QED
    BY <1>2, <1>3, <1>4 DEF IInv

(* While nothing failed the store in memory is the file. *)
LEMMA StoreFacts ==
    ASSUME IInv, running, intact
    PROVE  /\ \A a \in Addresses : contacts[a].key = trusted[a]
           /\ \A k \in Keys : Agrees(contacts, k, given[k])
  BY NamesPointwise DEF IInv, FileFollows

LEMMA PinnedKeepsInv ==
    ASSUME IInv, NEW a \in Addresses, NEW k \in Keys, NEW n \in Names \cup {None},
           running, contacts[a] = Absent, Pinned(a, k, n),
           intact => n \in {given[k], None}
    PROVE  IInv'
  <1>1. contacts \in Pins /\ TypeOK
    BY DEF IInv, TypeOK
  <1>2. \A b \in Addresses : contacts'[b] = IF b = a THEN [key |-> k, name |-> n]
                                                 ELSE contacts[b]
    BY <1>1 DEF Pinned, Pins
  <1>3. contacts' \in Pins
    BY <1>1 DEF Pinned, Pins, Entry
  <1>4. /\ trusted' \in [Addresses -> Keys \cup {None}]
        /\ given' \in [Keys -> Names \cup {None}] /\ forgotten' \subseteq Keys
    BY <1>1 DEF Pinned, TypeOK
  <1>5. ASSUME intact
        PROVE  /\ \A b \in Addresses : contacts'[b].key = trusted'[b]
               /\ \A j \in Keys : Agrees(contacts', j, given'[j])
    <2>1. \A b \in Addresses : contacts[b].key = trusted[b]
      BY <1>5, StoreFacts
    <2>2. \A b \in Addresses : contacts'[b].key = trusted'[b]
      BY <1>1, <1>2, <2>1 DEF Pinned, TypeOK, Absent
    <2>3. ASSUME NEW j \in Keys PROVE Agrees(contacts', j, given'[j])
      <3>1. Agrees(contacts, j, given[j]) /\ given' = given
        BY <1>5, StoreFacts DEF Pinned
      <3>2. ASSUME NEW b \in Addresses, contacts'[b].key = j
            PROVE  contacts'[b].name \in {given'[j], None}
        BY <1>2, <1>5, <3>1, <3>2 DEF Agrees
      <3>3. ASSUME given'[j] # None
            PROVE  \E b \in Addresses : contacts'[b].key = j /\ contacts'[b].name = given'[j]
        <4>1. PICK b \in Addresses : contacts[b].key = j /\ contacts[b].name = given[j]
          BY <3>1, <3>3 DEF Agrees
        <4>2. b # a
          BY <4>1, NoneAssumption DEF Absent
        <4>3. QED
          BY <1>2, <3>1, <4>1, <4>2
      <3>4. QED
        BY <3>2, <3>3 DEF Agrees
    <2>4. QED
      BY <2>2, <2>3
  <1>6. ASSUME NEW j \in forgotten'
        PROVE  At(contacts', j) = {} /\ j \in forgotten
    <2>1. j \in forgotten /\ j # k
      BY DEF Pinned
    <2>2. At(contacts, j) = {}
      BY <2>1 DEF IInv, ForgottenStaysForgotten
    <2>3. QED
      BY <1>2, <2>1, <2>2 DEF At
  <1>7. QED
    BY <1>3, <1>4, <1>5, <1>6, SavedInv DEF Pinned

LEMMA CheckKeepsInv ==
    ASSUME IInv, NEW a \in Addresses, NEW k \in Keys, Check(a, k)
    PROVE  IInv'
  <1>1. CASE CheckNew(a, k)
    BY <1>1, PinnedKeepsInv DEF CheckNew
  <1>2. CASE CheckKnown(a, k)
    <2>1. PICK o \in At(contacts, k) : Pinned(a, k, contacts[o].name)
      BY <1>2 DEF CheckKnown
    <2>2. o \in Addresses /\ contacts[o].key = k
      BY DEF At
    <2>3. contacts[o].name \in Names \cup {None}
      BY <2>2, PinFacts DEF IInv, TypeOK
    <2>4. running /\ contacts[a] = Absent
      BY <1>2 DEF CheckKnown
    <2>5. intact => contacts[o].name \in {given[k], None}
      BY <2>2, <2>4, StoreFacts DEF Agrees
    <2>6. QED
      BY <2>1, <2>3, <2>4, <2>5, PinnedKeepsInv
  <1>3. CASE CheckPinned(a, k)
    BY <1>3 DEF CheckPinned, vars, IInv, TypeOK, FileFollows,
                ForgottenStaysForgotten, NamesIn, At
  <1>4. QED
    BY <1>1, <1>2, <1>3 DEF Check

LEMMA SetNameKeepsInv ==
    ASSUME IInv, NEW a \in Addresses, NEW n \in Names \cup {None}, SetName(a, n)
    PROVE  IInv'
  <1> DEFINE key == contacts[a].key
  <1>1. contacts \in Pins /\ TypeOK /\ key \in Keys
    BY PinFacts DEF IInv, TypeOK, SetName
  <1>2. ASSUME NEW b \in Addresses
        PROVE  /\ contacts'[b] \in Entry \cup {Absent}
               /\ contacts'[b].key = contacts[b].key
               /\ contacts'[b].name = IF contacts[b].key = key THEN n
                                                              ELSE contacts[b].name
    <2>1. CASE contacts[b].key = key
      <3>1. contacts'[b] = [contacts[b] EXCEPT !.name = n]
        BY <2>1 DEF SetName, At
      <3>2. contacts[b] = [key |-> key, name |-> contacts[b].name]
        BY <1>1, <2>1, PinFacts
      <3>3. contacts'[b] = [key |-> key, name |-> n]
        BY <3>1, <3>2
      <3>4. QED
        BY <1>1, <2>1, <3>3 DEF Entry
    <2>2. CASE contacts[b].key # key
      <3>1. contacts'[b] = contacts[b]
        BY <2>2 DEF SetName, At
      <3>2. QED
        BY <1>1, <2>2, <3>1 DEF Pins
    <2>3. QED
      BY <2>1, <2>2
  <1>3. contacts' \in Pins
    <2>1. contacts' = [b \in Addresses |-> contacts'[b]]
      BY DEF SetName
    <2>2. QED
      BY <1>2, <2>1 DEF Pins
  <1>4. given' = [given EXCEPT ![key] = n] /\ given' \in [Keys -> Names \cup {None}]
    BY <1>1 DEF SetName, TypeOK
  <1>5. ASSUME intact
        PROVE  /\ \A b \in Addresses : contacts'[b].key = trusted'[b]
               /\ \A k \in Keys : Agrees(contacts', k, given'[k])
    <2>1. running
      BY DEF SetName
    <2>2. \A b \in Addresses : contacts'[b].key = trusted'[b]
      BY <1>2, <1>5, <2>1, StoreFacts DEF SetName
    <2>3. ASSUME NEW k \in Keys PROVE Agrees(contacts', k, given'[k])
      <3>1. CASE k = key
        BY <1>1, <1>2, <1>4, <3>1 DEF Agrees, TypeOK
      <3>2. CASE k # key
        <4>1. Agrees(contacts, k, given[k])
          BY <1>5, <2>1, StoreFacts
        <4>2. given'[k] = given[k]
          BY <1>1, <1>4, <3>2 DEF TypeOK
        <4>3. QED
          BY <1>2, <3>2, <4>1, <4>2 DEF Agrees
      <3>3. QED
        BY <3>1, <3>2
    <2>4. QED
      BY <2>2, <2>3
  <1>6. ASSUME NEW k \in forgotten' PROVE At(contacts', k) = {} /\ k \in forgotten
    <2>1. k \in forgotten
      BY DEF SetName
    <2>2. At(contacts, k) = {}
      BY <2>1 DEF IInv, ForgottenStaysForgotten
    <2>3. QED
      BY <1>2, <2>1, <2>2 DEF At
  <1>7. /\ trusted' \in [Addresses -> Keys \cup {None}] /\ forgotten' \subseteq Keys
        /\ Save(contacts') /\ running /\ UNCHANGED <<running, passphrase>>
    BY <1>1 DEF SetName, TypeOK
  <1>8. QED
    BY <1>3, <1>4, <1>5, <1>6, <1>7, SavedInv

LEMMA RemoveKeepsInv ==
    ASSUME IInv, NEW a \in Addresses, Remove(a)
    PROVE  IInv'
  <1> DEFINE key == contacts[a].key
  <1>1. contacts \in Pins /\ TypeOK /\ key \in Keys
    BY PinFacts DEF IInv, TypeOK, Remove
  <1>2. \A b \in Addresses :
           /\ contacts'[b] = IF contacts[b].key = key THEN Absent ELSE contacts[b]
           /\ trusted'[b] = IF contacts[b].key = key THEN None ELSE trusted[b]
    BY DEF Remove, At
  <1>3. contacts' \in Pins
    BY <1>1 DEF Remove, Pins
  <1>4. /\ trusted' \in [Addresses -> Keys \cup {None}]
        /\ forgotten' \subseteq forgotten \cup {key} /\ forgotten' \subseteq Keys
        /\ Save(contacts') /\ running /\ UNCHANGED <<running, passphrase>>
    BY <1>1 DEF Remove, TypeOK
  <1>5. /\ given' \in [Keys -> Names \cup {None}]
        /\ \A k \in Keys : given'[k] = IF At(contacts', k) = {} THEN None ELSE given[k]
    BY <1>1, UnnamedFacts DEF Remove
  <1>6. ASSUME intact
        PROVE  /\ \A b \in Addresses : contacts'[b].key = trusted'[b]
               /\ \A k \in Keys : Agrees(contacts', k, given'[k])
    <2>1. /\ \A b \in Addresses : contacts[b].key = trusted[b]
          /\ \A k \in Keys : Agrees(contacts, k, given[k])
      BY <1>4, <1>6, StoreFacts
    <2>2. \A b \in Addresses : contacts'[b].key = trusted'[b]
      BY <1>2, <2>1 DEF Absent
    <2>3. ASSUME NEW k \in Keys PROVE Agrees(contacts', k, given'[k])
      <3>1. CASE At(contacts', k) = {}
        BY <1>5, <3>1 DEF Agrees, At
      <3>2. CASE At(contacts', k) # {}
        <4>1. k # key /\ given'[k] = given[k]
          BY <1>2, <1>5, <3>2, NoneAssumption DEF At, Absent
        <4>2. \A b \in Addresses :
                 /\ contacts[b].key = k => contacts'[b] = contacts[b]
                 /\ contacts'[b].key = k => contacts'[b] = contacts[b]
          BY <1>2, <4>1, NoneAssumption DEF Absent
        <4>3. QED
          BY <2>1, <4>1, <4>2 DEF Agrees
      <3>3. QED
        BY <3>1, <3>2
    <2>4. QED
      BY <2>2, <2>3
  <1>7. ASSUME NEW k \in forgotten'
        PROVE  At(contacts', k) = {} /\ (k \in forgotten \/ file' = Whole(contacts'))
    <2>1. k \in Keys /\ (k = key \/ k \in forgotten)
      BY <1>1, <1>4 DEF TypeOK
    <2>2. k \in forgotten => At(contacts, k) = {}
      BY DEF IInv, ForgottenStaysForgotten
    <2>3. At(contacts', k) = {}
      BY <1>2, <2>1, <2>2, NoneAssumption DEF At, Absent
    <2>4. k \in forgotten \/ file' = Whole(contacts')
      BY DEF Remove
    <2>5. QED
      BY <2>3, <2>4
  <1>8. QED
    BY <1>3, <1>4, <1>5, <1>6, <1>7, SavedInv

-----------------------------------------------------------------------------
LEMMA LoadedFacts ==
    ASSUME IInv, NEW p
    PROVE  /\ Loaded(p) \in Pins
           /\ Readable(p) \/ file.state = "absent" => Loaded(p) = file.pins
           /\ \A k \in forgotten : At(Loaded(p), k) = {}
  <1>1. /\ file.pins \in Pins
        /\ file.state # "whole" => file.pins = Nobody
        /\ \A k \in forgotten : k \in Keys /\ At(file.pins, k) = {}
    BY DEF IInv, TypeOK, Files, FileFollows, ForgottenStaysForgotten
  <1>2. CASE Readable(p)
    BY <1>1, <1>2 DEF Loaded
  <1>3. CASE ~Readable(p)
    BY <1>1, <1>3, NobodyFacts DEF Loaded
  <1>4. QED
    BY <1>2, <1>3

LEMMA StartKeepsInv ==
    ASSUME IInv, NEW p \in Passphrases \cup {None}, Start(p)
    PROVE  IInv'
  <1> DEFINE stale == \E l \in Loopbacks : Loaded(p)[l] # Absent
             purged == [state |-> "whole", lock |-> p, pins |-> contacts']
  <1>1. /\ Loaded(p) \in Pins
        /\ Readable(p) \/ file.state = "absent" => Loaded(p) = file.pins
        /\ \A k \in forgotten : At(Loaded(p), k) = {}
    BY LoadedFacts
  <1>2. /\ contacts' \in Pins
        /\ \A a \in Addresses : contacts'[a].key = IF a \in Loopbacks THEN None
                                                    ELSE Loaded(p)[a].key
        /\ ~stale => contacts' = Loaded(p)
        /\ \A k \in Keys, n \in Names \cup {None} :
              Agrees(Loaded(p), k, n)
              => Agrees(contacts', k, IF At(contacts', k) = {} THEN None ELSE n)
    BY <1>1, PurgeFacts DEF Start
  <1>3. TypeOK
    BY DEF IInv
  (* the file: rewritten by the purge, damaged, or left alone *)
  <1>4. /\ file' \in {purged, file, Torn}
        /\ intact' \in BOOLEAN
        /\ intact' => intact /\ Loaded(p) = file.pins /\ file'.pins = contacts'
    <2>1. CASE stale /\ file' = purged /\ intact' = (intact /\ Readable(p))
      BY <1>1, <1>3, <2>1 DEF TypeOK
    <2>2. CASE stale /\ file' \in {file, Torn} /\ intact' = FALSE
      BY <2>2
    <2>3. CASE /\ ~stale /\ file' = file
               /\ intact' = (intact /\ (Readable(p) \/ file.state = "absent"))
      <3>1. contacts' = Loaded(p)
        BY <1>2, <2>3
      <3>2. intact' \in BOOLEAN
        BY <2>3
      <3>3. intact' => intact /\ Loaded(p) = file.pins
        BY <1>1, <2>3
      <3>4. QED
        BY <2>3, <3>1, <3>2, <3>3
    <2>4. QED
      BY <2>1, <2>2, <2>3 DEF Start
  <1>5. /\ file' \in Files
        /\ file'.state # "whole" => file'.pins = Nobody
    <2>1. CASE file' = purged
      BY <1>2, <2>1 DEF Files
    <2>2. CASE file' \in {file, Torn}
      BY <1>3, <2>2, NobodyFacts DEF IInv, TypeOK, FileFollows, Files, Torn
    <2>3. QED
      BY <1>4, <2>1, <2>2
  <1>6. /\ given' \in [Keys -> Names \cup {None}]
        /\ \A k \in Keys : given'[k] = IF At(contacts', k) = {} THEN None ELSE given[k]
    BY <1>3 DEF Start, TypeOK
  <1>7. /\ trusted' \in [Addresses -> Keys \cup {None}]
        /\ \A a \in Addresses : trusted'[a] = IF a \in Loopbacks THEN None
                                                               ELSE trusted[a]
    BY <1>3 DEF Start, TypeOK
  <1>8. TypeOK'
    <2>1. running' \in BOOLEAN /\ passphrase' \in Passphrases \cup {None}
      BY DEF Start
    <2>2. forgotten' \subseteq Keys
      BY <1>3 DEF Start, TypeOK
    <2>3. QED
      BY <1>2, <1>4, <1>5, <1>6, <1>7, <2>1, <2>2 DEF TypeOK
  <1>9. FileFollows'
    <2>1. ASSUME intact'
          PROVE  /\ \A a \in Addresses : file'.pins[a].key = trusted'[a]
                 /\ \A k \in Keys : NamesIn(file'.pins, k) = IfAny(given'[k])
      <3>1. /\ \A a \in Addresses : Loaded(p)[a].key = trusted[a]
            /\ \A k \in Keys : Agrees(Loaded(p), k, given[k])
        BY <1>4, <2>1, NamesPointwise DEF IInv, FileFollows
      <3>2. \A a \in Addresses : contacts'[a].key = trusted'[a]
        BY <1>2, <1>7, <3>1
      <3>3. \A k \in Keys : Agrees(contacts', k, given'[k])
        BY <1>2, <1>3, <1>6, <3>1 DEF TypeOK
      <3>4. QED
        BY <1>4, <2>1, <3>2, <3>3, NamesPointwise
    <2>2. running'
      BY DEF Start
    <2>3. QED
      BY <1>4, <1>5, <2>1, <2>2 DEF FileFollows
  <1>10. ForgottenStaysForgotten'
    <2>1. ASSUME NEW k \in forgotten'
          PROVE  At(contacts', k) = {} /\ At(file'.pins, k) = {}
      <3>1. k \in forgotten /\ k \in Keys
        BY <1>3 DEF Start, TypeOK
      <3>2. At(contacts', k) = {}
        BY <1>1, <1>2, <3>1, NoneAssumption DEF At
      <3>3. At(file.pins, k) = {} /\ At(Torn.pins, k) = {}
        BY <3>1, NobodyFacts DEF IInv, ForgottenStaysForgotten, Torn
      <3>4. QED
        BY <1>4, <3>2, <3>3
    <2>2. QED
      BY <2>1 DEF ForgottenStaysForgotten
  <1>11. QED
    BY <1>8, <1>9, <1>10 DEF IInv

LEMMA QuitKeepsInv == IInv /\ Quit => IInv'
  <1> SUFFICES ASSUME IInv, Quit PROVE IInv'
    OBVIOUS
  <1>1. TypeOK'
    BY NobodyFacts DEF IInv, TypeOK, Quit
  <1>2. FileFollows'
    BY DEF IInv, FileFollows, Quit, NamesIn, At
  <1>3. ForgottenStaysForgotten'
    BY NobodyFacts DEF IInv, TypeOK, ForgottenStaysForgotten, Quit
  <1>4. QED
    BY <1>1, <1>2, <1>3 DEF IInv

LEMMA StepKeepsInv == IInv /\ [Next]_vars => IInv'
  <1> SUFFICES ASSUME IInv, [Next]_vars PROVE IInv'
    OBVIOUS
  <1>1. ASSUME NEW p \in Passphrases \cup {None}, Start(p) PROVE IInv'
    BY <1>1, StartKeepsInv
  <1>2. CASE Quit
    BY <1>2, QuitKeepsInv
  <1>3. ASSUME NEW a \in Addresses, NEW k \in Keys, Check(a, k) PROVE IInv'
    BY <1>3, CheckKeepsInv
  <1>4. ASSUME NEW a \in Addresses, NEW n \in Names \cup {None}, SetName(a, n)
        PROVE  IInv'
    BY <1>4, SetNameKeepsInv
  <1>5. ASSUME NEW a \in Addresses, Remove(a) PROVE IInv'
    BY <1>5, RemoveKeepsInv
  <1>6. CASE UNCHANGED vars
    BY <1>6 DEF vars, IInv, TypeOK, FileFollows, ForgottenStaysForgotten, NamesIn, At
  <1>7. QED
    BY <1>1, <1>2, <1>3, <1>4, <1>5, <1>6 DEF Next

LEMMA Invariance == Spec => []IInv
  BY InitInv, StepKeepsInv, PTL DEF Spec

(* The store, the file and their histories keep their types: no entry      *)
(* without a key, no name on an address that is not pinned.                *)
THEOREM TypeCorrect == Spec => []TypeOK
  <1>1. IInv => TypeOK
    BY DEF IInv
  <1>2. QED
    BY <1>1, Invariance, PTL

(* Pinning on first use: through any number of calls and restarts the keys *)
(* pinned are those first seen, until a load or a save fails.              *)
THEOREM PinsSurvive == Spec => []PinsKept
  <1>1. IInv => PinsKept
    BY DEF IInv, FileFollows, PinsKept
  <1>2. QED
    BY <1>1, Invariance, PTL

(* The name given to a contact follows its identity to every address.      *)
THEOREM NamesSurvive == Spec => []NameFollowsIdentity
  <1>1. IInv => NameFollowsIdentity
    BY DEF IInv, FileFollows, NameFollowsIdentity
  <1>2. QED
    BY <1>1, Invariance, PTL

(* A removal that was saved is final, whatever fails afterwards.           *)
THEOREM RemovalIsFinal == Spec => []ForgottenStaysForgotten
  <1>1. IInv => ForgottenStaysForgotten
    BY DEF IInv
  <1>2. QED
    BY <1>1, Invariance, PTL
=============================================================================
