-------------------------- MODULE LocalIdentityProofs --------------------------
(***************************************************************************)
(* LocalIdentity for any services, identities and passphrases, however     *)
(* many events are pending and however often a file or Tor fails.          *)
(***************************************************************************)
EXTENDS LocalIdentity, TLAPS

(* Where a slot is, when a service has just been created. *)
Created == {"save key", "save address", "emit"}

(* A whole file holds something, and what the running slot relies on.      *)
SlotInv ==
    /\ keyFile.state = "whole" => keyFile.secret # None
    /\ signFile.state = "whole" => signFile.secret # None
    /\ app = "off" => slot.pc = "idle"
    /\ slot.pc \in Created => serviceId \in Services
    /\ slot.pc \in Created /\ app = "on" => serviceId \in published
    /\ slot.pc = "create" /\ slot.key \in Services =>
          keyFile.state = "whole" /\ keyFile.secret = slot.key
    /\ slot.pc = "save address" =>
          keyFile.state = "whole" /\ keyFile.secret = serviceId
    /\ slot.pc = "forget address" => keyFile = NoFile
    /\ slot.pc \in {"forget key", "forget address"} => home = None

(* A session opened by the dialog can read its key file, and creates a     *)
(* service only where there is none.                                       *)
AskedInv ==
    asked =>
        /\ keyFile.state = "whole" => Readable(passphrase, keyFile)
        /\ slot.pc = "save key" \/ (slot.pc = "create" /\ slot.key = None) =>
              keyFile.state # "whole"

(* While everything could be read and written, the files say who this      *)
(* installation is.                                                        *)
FilesReadable ==
    app # "off" => /\ keyFile.state = "absent" \/ Readable(passphrase, keyFile)
                   /\ signFile.state = "absent" \/ Readable(passphrase, signFile)

HomeOnDisk ==
    home # None => /\ keyFile.state = "whole" /\ keyFile.secret = home
                   /\ slot.pc # "save key"
                   /\ slot.pc = "create" => slot.key = home
                   /\ serviceId # None => serviceId = home

SelfOnDisk ==
    self # None => /\ signFile.state = "whole" /\ signFile.secret = self
                   /\ identity # None => identity = self

AddressFollows ==
    keyFile.state = "whole" /\ slot.pc # "save address" =>
        addrFile.state = "whole" /\ addrFile.secret = keyFile.secret

IntactInv == intact => FilesReadable /\ HomeOnDisk /\ SelfOnDisk /\ AddressFollows

(* Something is going on that will end in an address, or in a failure. *)
Pending == slot # Idle \/ queue # <<>> \/ \E i \in 1..Len(inbox) : inbox[i] = Ready

Latest == IF inbox = <<>> THEN shown ELSE inbox[Len(inbox)]

ShownInv ==
    app = "on" /\ ~failed /\ ~Pending =>
        Latest = serviceId /\ serviceId \in published

USE DEF At, Create, Idle, File, NoFile, Torn, Whole, Known

-----------------------------------------------------------------------------
LEMMA WholeReadable == \A p, x : Readable(p, Whole(p, x))
  BY DEF Readable, IsVaultBlob, DecryptAtRest

(* The queues of events, one event more or less. *)
LEMMA QueueFacts ==
    ASSUME NEW S, NEW q \in Seq(S), NEW e \in S
    PROVE  /\ Append(q, e) \in Seq(S) /\ Append(q, e) # <<>>
           /\ Len(Append(q, e)) = Len(q) + 1 /\ Append(q, e)[Len(q) + 1] = e
           /\ \A i \in 1..Len(q) : Append(q, e)[i] = q[i]
           /\ q # <<>> => /\ Head(q) \in S /\ Tail(q) \in Seq(S)
                          /\ Head(q) = q[1] /\ Len(q) >= 1
                          /\ Len(Tail(q)) = Len(q) - 1
                          /\ \A i \in 1..Len(Tail(q)) : Tail(q)[i] = q[i + 1]
  OBVIOUS

(* What becomes of the history of failures. *)
LuckOK == intact \in BOOLEAN /\ failed \in BOOLEAN /\ faults \in Nat

LEMMA LuckFacts ==
    TypeOK =>
        /\ UNCHANGED luck => LuckOK' /\ (intact' => intact) /\ failed' = failed
        /\ UNCHANGED <<luck>> => LuckOK' /\ (intact' => intact) /\ failed' = failed
        /\ Fault(TRUE) => LuckOK' /\ (intact' => intact) /\ failed' = TRUE
        /\ Fault(FALSE) => LuckOK' /\ ~intact' /\ failed' = TRUE
        /\ Refused => LuckOK' /\ (intact' => intact) /\ failed' = TRUE
  <1> SUFFICES ASSUME TypeOK PROVE
        /\ UNCHANGED luck => LuckOK' /\ (intact' => intact) /\ failed' = failed
        /\ UNCHANGED <<luck>> => LuckOK' /\ (intact' => intact) /\ failed' = failed
        /\ Fault(TRUE) => LuckOK' /\ (intact' => intact) /\ failed' = TRUE
        /\ Fault(FALSE) => LuckOK' /\ ~intact' /\ failed' = TRUE
        /\ Refused => LuckOK' /\ (intact' => intact) /\ failed' = TRUE
    OBVIOUS
  <1>1. LuckOK
    BY DEF TypeOK, LuckOK
  <1>2. ASSUME UNCHANGED luck \/ UNCHANGED <<luck>>
        PROVE  LuckOK' /\ (intact' => intact) /\ failed' = failed
    BY <1>1, <1>2 DEF luck, LuckOK
  <1>3. ASSUME Fault(TRUE) PROVE LuckOK' /\ (intact' => intact) /\ failed' = TRUE
    <2>1. faults' \in Nat
      BY <1>1, <1>3 DEF Fault, LuckOK
    <2>2. intact' = (intact /\ TRUE) /\ failed' = TRUE
      BY <1>3 DEF Fault
    <2>3. QED
      BY <1>1, <2>1, <2>2, Zenon DEF LuckOK
  <1>4. ASSUME Fault(FALSE) PROVE LuckOK' /\ ~intact' /\ failed' = TRUE
    <2>1. faults' \in Nat
      BY <1>1, <1>4 DEF Fault, LuckOK
    <2>2. intact' = (intact /\ FALSE) /\ failed' = TRUE
      BY <1>4 DEF Fault
    <2>3. QED
      BY <1>1, <2>1, <2>2, Zenon DEF LuckOK
  <1>5. ASSUME Refused PROVE LuckOK' /\ (intact' => intact) /\ failed' = TRUE
    BY <1>1, <1>5 DEF Refused, LuckOK
  <1>6. QED
    BY <1>2, <1>3, <1>4, <1>5

SlotType == [pc : Pcs, key : Services \cup {None, Garbage}]

LEMMA SlotFacts ==
    /\ \A x \in Pcs : At(x) \in SlotType
    /\ \A k \in Services \cup {None, Garbage} : Create(k) \in SlotType
    /\ Idle \in SlotType
  BY DEF SlotType, Pcs

LEMMA InitInv == Init => TypeOK /\ SlotInv /\ AskedInv /\ IntactInv /\ ShownInv
  <1> SUFFICES ASSUME Init PROVE TypeOK /\ SlotInv /\ AskedInv /\ IntactInv /\ ShownInv
    OBVIOUS
  <1>1. PICK s \in Known(Services), i \in Known(Identities) :
            /\ keyFile = IF s = None THEN NoFile ELSE Whole(None, s)
            /\ addrFile = keyFile
            /\ signFile = IF i = None THEN NoFile ELSE Whole(None, i)
            /\ home = s /\ self = i
    BY DEF Init
  <1>2. TypeOK
    <2>1. /\ keyFile \in FilesOf(Services) /\ addrFile \in FilesOf(Services)
          /\ signFile \in FilesOf(Identities)
          /\ home \in Known(Services) /\ self \in Known(Identities)
      BY <1>1 DEF FilesOf
    <2>2. slot \in SlotType
      BY SlotFacts DEF Init
    <2>3. queue \in Seq(Slots) /\ inbox \in Seq(Services \cup {Ready})
      BY DEF Init
    <2>4. QED
      BY <2>1, <2>2, <2>3 DEF Init, TypeOK, SlotType
  <1>3. SlotInv
    BY <1>1 DEF Init, SlotInv, Created
  <1>4. AskedInv /\ ShownInv
    BY DEF Init, AskedInv, ShownInv
  <1>5. IntactInv
    <2>1. /\ app = "off" /\ slot.pc = "idle" /\ serviceId = None /\ identity = None
      BY DEF Init
    <2>2. home # None => keyFile.state = "whole" /\ keyFile.secret = home
      BY <1>1
    <2>3. self # None => signFile.state = "whole" /\ signFile.secret = self
      BY <1>1
    <2>4. QED
      BY <1>1, <2>1, <2>2, <2>3
         DEF IntactInv, FilesReadable, HomeOnDisk, SelfOnDisk, AddressFollows
  <1>6. QED
    BY <1>2, <1>3, <1>4, <1>5

-----------------------------------------------------------------------------
LEMMA ReadableFacts ==
    ASSUME TypeOK, NEW p
    PROVE  /\ Readable(p, keyFile) => keyFile.state = "whole"
           /\ Readable(p, signFile) => signFile.state = "whole"
           /\ keyFile.secret \in Services \cup {None}
           /\ signFile.secret \in Identities \cup {None}
  BY DEF Readable, IsVaultBlob, DecryptAtRest, TypeOK, FilesOf

LEMMA SpoiltFacts ==
    ASSUME TypeOK, NEW p \in Known(Passphrases)
    PROVE  /\ Spoilt(keyFile, p) \subseteq FilesOf(Services)
           /\ Spoilt(addrFile, p) \subseteq FilesOf(Services)
           /\ Spoilt(signFile, p) \subseteq FilesOf(Identities)
           /\ \A f \in Spoilt(keyFile, p) : f = keyFile \/ f.state = "torn"
           /\ \A f \in Spoilt(signFile, p) : f = signFile \/ f.state = "torn"
           /\ \A s \in Services : Whole(p, s) \in FilesOf(Services)
           /\ \A i \in Identities : Whole(p, i) \in FilesOf(Identities)
           /\ NoFile \in FilesOf(Services)
  BY DEF Spoilt, FilesOf, TypeOK

LEMMA TakesFacts ==
    ASSUME TypeOK, NEW s, Takes(s)
    PROVE  queue' \in Seq(Slots) /\ slot = Idle /\ app # "off"
  BY DEF Takes, TypeOK

LEMMA NextType ==
    ASSUME TypeOK, SlotInv, [Next]_vars
    PROVE  TypeOK'
  <1> USE DEF TypeOK
  <1>1. CASE \E p \in Known(Passphrases), d \in BOOLEAN : Start(p, d)
    <2>1. PICK p \in Known(Passphrases), d \in BOOLEAN : Start(p, d)
      BY <1>1
    <2>2. queue' \in Seq(Slots) /\ intact' \in BOOLEAN
      BY <2>1 DEF Start, Slots
    <2>3. QED
      BY <2>1, <2>2 DEF Start, files, tor
  <1>2. CASE Stop
    BY <1>2 DEF Stop, files, events, luck
  <1>3. CASE End
    <2>1. slot' \in SlotType
      BY <1>3, SlotFacts DEF End
    <2>2. queue' \in Seq(Slots) /\ inbox' \in Seq(Services \cup {Ready})
      <3>1. queue' = <<>> /\ inbox' = <<>>
        BY <1>3 DEF End
      <3>2. QED
        BY <3>1
    <2>3. intact' \in BOOLEAN /\ failed' \in BOOLEAN /\ faults' \in Nat
      BY <1>3 DEF End
    <2>4. QED
      BY <1>3, <2>1, <2>2, <2>3 DEF End, files, SlotType
  <1>4. CASE LoadOrCreate
    <2>1. signFile' \in FilesOf(Identities) /\ identity' \in Known(Identities)
          /\ self' \in Known(Identities)
      BY <1>4, ReadableFacts, SpoiltFacts DEF LoadOrCreate
    <2>2. LuckOK'
      BY <1>4, LuckFacts DEF LoadOrCreate
    <2>3. QED
      BY <1>4, <2>1, <2>2 DEF LuckOK, LoadOrCreate, session, tor, events
  <1>5. CASE NewAddress
    <2>1. queue' \in Seq(Slots)
      BY <1>5 DEF NewAddress, Slots
    <2>2. QED
      BY <1>5, <2>1 DEF NewAddress, session, files, tor, luck
  <1>6. CASE OnReady
    <2>1. queue' \in Seq(Slots) /\ inbox' \in Seq(Services \cup {Ready})
      BY <1>6 DEF OnReady, Slots
    <2>2. QED
      BY <1>6, <2>1 DEF OnReady, session, files, tor, luck
  <1>7. CASE OnAddressChanged
    <2>1. inbox' \in Seq(Services \cup {Ready}) /\ shown' \in Services
      BY <1>7 DEF OnAddressChanged
    <2>2. QED
      BY <1>7, <2>1 DEF OnAddressChanged, session, files, tor, luck
  <1>8. CASE StartTor
    <2>1. inbox' \in Seq(Services \cup {Ready}) /\ queue' \in Seq(Slots)
      <3>1. Takes("start_tor") /\ (inbox' = Append(inbox, Ready) \/ inbox' = inbox)
        BY <1>8 DEF StartTor
      <3>2. queue' \in Seq(Slots)
        BY <3>1, TakesFacts
      <3>3. inbox \in Seq(Services \cup {Ready})
        OBVIOUS
      <3>4. Append(inbox, Ready) \in Seq(Services \cup {Ready})
        BY ONLY <3>3
      <3>5. QED
        BY ONLY <3>1, <3>2, <3>3, <3>4
    <2>2. LuckOK'
      BY <1>8, LuckFacts DEF StartTor
    <2>3. QED
      BY <1>8, <2>1, <2>2, ZenonT(60) DEF LuckOK, StartTor, session, files
  <1>9. CASE LoadIdentity
    <2>1. queue' \in Seq(Slots)
      BY <1>9, TakesFacts DEF LoadIdentity
    <2>2. slot' \in SlotType
      BY <1>9, ReadableFacts, SlotFacts DEF LoadIdentity
    <2>3. QED
      BY <1>9, <2>1, <2>2 DEF LoadIdentity, session, files, tor, luck, SlotType
  <1>10. CASE RegenerateAddress
    <2>1. queue' \in Seq(Slots) /\ published' \subseteq Services
      BY <1>10, TakesFacts DEF RegenerateAddress
    <2>2. LuckOK'
      BY <1>10, LuckFacts DEF RegenerateAddress
    <2>3. QED
      BY <1>10, <2>1, <2>2 DEF LuckOK, RegenerateAddress, session, files, Pcs
  <1>11. CASE CreateSucceeds
    <2>1. serviceId' \in Services
      BY <1>11 DEF CreateSucceeds, Fresh
    <2>2. slot' \in SlotType /\ home' \in Known(Services)
      BY <1>11, <2>1, SlotFacts DEF CreateSucceeds, Pcs
    <2>3. QED
      BY <1>11, <2>1, <2>2 DEF CreateSucceeds, session, files, luck, SlotType
  <1>12. CASE CreateFails
    <2>1. LuckOK'
      BY <1>12, LuckFacts DEF CreateFails
    <2>2. QED
      BY <1>12, <2>1 DEF LuckOK, CreateFails, session, files, tor, Pcs
  <1>13. CASE SaveKey
    <2>1. keyFile' \in FilesOf(Services) /\ home' \in Known(Services)
      BY <1>13, SpoiltFacts DEF SaveKey, SlotInv, Created
    <2>2. LuckOK'
      BY <1>13, LuckFacts DEF SaveKey
    <2>3. slot' \in SlotType
      BY <1>13, SlotFacts DEF SaveKey, Pcs
    <2>4. QED
      BY <1>13, <2>1, <2>2, <2>3 DEF LuckOK, SaveKey, session, tor, SlotType
  <1>14. CASE SaveAddress
    <2>1. addrFile' \in FilesOf(Services)
      <3>1. /\ Spoilt(addrFile, None) \subseteq FilesOf(Services)
            /\ Whole(None, serviceId) \in FilesOf(Services)
        BY <1>14, SpoiltFacts DEF SaveAddress, SlotInv, Created
      <3>2. QED
        BY <1>14, <3>1 DEF SaveAddress
    <2>2. LuckOK'
      BY <1>14, LuckFacts DEF SaveAddress
    <2>3. QED
      BY <1>14, <2>1, <2>2 DEF LuckOK, SaveAddress, session, tor, Pcs
  <1>15. CASE EmitAddress
    <2>1. inbox' \in Seq(Services \cup {Ready})
      BY <1>15 DEF EmitAddress, SlotInv, Created
    <2>2. QED
      BY <1>15, <2>1, ZenonT(60) DEF EmitAddress, session, files, tor, luck, Pcs
  <1>16. CASE ForgetKey
    <2>1. LuckOK'
      BY <1>16, LuckFacts DEF ForgetKey
    <2>2. keyFile' \in FilesOf(Services)
      BY <1>16, SpoiltFacts DEF ForgetKey
    <2>3. slot' \in SlotType
      BY <1>16, SlotFacts DEF ForgetKey, Pcs
    <2>4. QED
      BY <1>16, <2>1, <2>2, <2>3 DEF LuckOK, ForgetKey, session, tor, SlotType
  <1>17. CASE ForgetAddress
    <2>1. LuckOK'
      BY <1>17, LuckFacts DEF ForgetAddress
    <2>2. addrFile' \in FilesOf(Services)
      BY <1>17, SpoiltFacts DEF ForgetAddress
    <2>3. slot' \in SlotType
      BY <1>17, SlotFacts DEF ForgetAddress, Pcs
    <2>4. QED
      BY <1>17, <2>1, <2>2, <2>3 DEF LuckOK, ForgetAddress, session, tor, SlotType
  <1>18. CASE UNCHANGED vars
    BY <1>18 DEF vars, session, files, tor, events, luck
  <1>19. QED
    BY <1>1, <1>2, <1>3, <1>4, <1>5, <1>6, <1>7, <1>8, <1>9, <1>10, <1>11, <1>12,
       <1>13, <1>14, <1>15, <1>16, <1>17, <1>18 DEF Next, Gui, Worker

-----------------------------------------------------------------------------
(* The records of slots and files, field by field. *)
LEMMA RecordFacts ==
    /\ \A pc : At(pc).pc = pc /\ At(pc).key = None
    /\ \A k : Create(k).pc = "create" /\ Create(k).key = k
    /\ Idle = At("idle")
    /\ NoFile.state = "absent"
    /\ \A p, s : /\ Whole(p, s).state = "whole" /\ Whole(p, s).secret = s
                  /\ Readable(p, Whole(p, s))
    /\ \A p : Torn(p).state = "torn"
  BY WholeReadable

LEMMA ValueFacts ==
    /\ \A s \in Services : s # None /\ s # Ready /\ s # Garbage
    /\ \A i \in Identities : i # None
    /\ None \notin Services /\ Garbage \notin Services
  BY DistinctAssumption DEF DistinctAssumption

USE RecordFacts
HIDE DEF At, Create, Idle, File, NoFile, Torn, Whole

(* Steps that say who this installation is leave the slot as it was. *)
Bystander == NewAddress \/ OnReady \/ OnAddressChanged \/ StartTor \/ UNCHANGED vars

LEMMA BystanderFacts ==
    ASSUME TypeOK, Bystander
    PROVE  /\ UNCHANGED <<app, passphrase, asked, keyFile, addrFile, signFile, identity,
                          published, serviceId, slot, home, self>>
           /\ intact' => intact
  <1>1. CASE StartTor
    BY <1>1, LuckFacts DEF StartTor, session, files
  <1>2. CASE NewAddress \/ OnReady \/ OnAddressChanged \/ UNCHANGED vars
    BY <1>2, LuckFacts
       DEF NewAddress, OnReady, OnAddressChanged, vars, session, files, tor, events, luck
  <1>3. QED
    BY <1>1, <1>2 DEF Bystander

LEMMA NextSlot ==
    ASSUME TypeOK, SlotInv, [Next]_vars
    PROVE  SlotInv'
  <1> USE DEF SlotInv, Created
  <1>1. CASE Bystander
    BY <1>1, BystanderFacts
  <1>2. CASE \E p \in Known(Passphrases), d \in BOOLEAN : Start(p, d)
    <2>1. /\ app = "off" /\ app' = "on"
          /\ UNCHANGED <<keyFile, signFile, slot, serviceId, published, home>>
      BY <1>2 DEF Start, files, tor
    <2>2. QED
      BY <2>1
  <1>3. CASE Stop
    BY <1>3 DEF Stop, files, events
  <1>4. CASE End
    BY <1>4 DEF End, files
  <1>5. CASE LoadOrCreate
    <2>1. UNCHANGED <<app, keyFile, slot, serviceId, published, home>>
      BY <1>5 DEF LoadOrCreate, session, tor, events
    <2>2. signFile'.state = "whole" => signFile'.secret # None
      <3>1. CASE UNCHANGED signFile
        BY <3>1
      <3>2. CASE \E new \in Identities : signFile' = Whole(passphrase, new)
        <4>1. PICK new \in Identities : signFile' = Whole(passphrase, new)
          BY <3>2
        <4>2. signFile'.secret = new
          BY <4>1 DEF Whole, File
        <4>3. QED
          BY <4>2, ValueFacts
      <3>3. CASE signFile' \in Spoilt(signFile, passphrase)
        BY <3>3, SpoiltFacts DEF TypeOK
      <3>4. QED
        BY <1>5, <3>1, <3>2, <3>3 DEF LoadOrCreate
    <2>3. app = "on"
      BY <1>5 DEF LoadOrCreate
    <2>4. QED
      BY <2>1, <2>2, <2>3
  <1>6. CASE LoadIdentity
    <2>1. UNCHANGED <<app, keyFile, signFile, serviceId, published, home>>
      BY <1>6 DEF LoadIdentity, session, files, tor
    <2>2. app # "off"
      BY <1>6, TakesFacts DEF LoadIdentity
    <2>3. CASE Readable(passphrase, keyFile) /\ slot' = Create(keyFile.secret)
      BY <2>1, <2>2, <2>3, ReadableFacts
    <2>4. CASE slot' = Create(None) \/ slot' = Create(Garbage)
      <3>1. slot'.pc = "create" /\ slot'.key \in {None, Garbage}
        BY <2>4, ZenonT(60)
      <3>2. QED
        BY <2>1, <2>2, <3>1, ValueFacts
    <2>5. QED
      BY <1>6, <2>3, <2>4 DEF LoadIdentity
  <1>7. CASE RegenerateAddress
    <2>1. UNCHANGED <<app, keyFile, signFile>> /\ app # "off"
      BY <1>7, TakesFacts DEF RegenerateAddress, session, files
    <2>2. slot' = At("forget key") /\ home' = None
      BY <1>7 DEF RegenerateAddress
    <2>3. QED
      BY <2>1, <2>2
  <1>8. CASE CreateSucceeds
    <2>1. serviceId' \in Services /\ serviceId' \in published'
      BY <1>8 DEF CreateSucceeds, Fresh
    <2>2. /\ slot.pc = "create" /\ UNCHANGED <<app, keyFile, signFile>>
          /\ slot' = At("save key") \/ slot' = At("emit")
      BY <1>8 DEF CreateSucceeds, session, files
    <2>3. slot'.pc \in {"save key", "emit"}
      BY <2>2
    <2>4. QED
      BY <2>1, <2>2, <2>3
  <1>9. CASE CreateFails
    BY <1>9, ZenonT(60) DEF CreateFails, session, files, tor
  <1>10. CASE SaveKey
    <2>1. /\ UNCHANGED <<app, signFile, serviceId, published>>
          /\ slot.pc = "save key" /\ app # "off"
      BY <1>10 DEF SaveKey, session, tor
    <2>2. CASE keyFile' = Whole(passphrase, serviceId) /\ slot' = At("save address")
      <3>1. /\ keyFile'.state = "whole" /\ keyFile'.secret = serviceId
            /\ slot'.pc = "save address"
        BY <2>2 DEF Whole, File
      <3>2. serviceId # None
        BY <2>1, ValueFacts
      <3>3. QED
        BY <2>1, <3>1, <3>2
    <2>3. CASE keyFile' \in Spoilt(keyFile, passphrase) /\ slot' = At("emit")
      <3>1. keyFile' = keyFile \/ keyFile'.state = "torn"
        BY <2>3, SpoiltFacts DEF TypeOK
      <3>2. slot'.pc = "emit"
        BY <2>3
      <3>3. QED
        BY <2>1, <3>1, <3>2
    <2>4. QED
      BY <1>10, <2>2, <2>3 DEF SaveKey
  <1>11. CASE SaveAddress
    BY <1>11 DEF SaveAddress, session, tor
  <1>12. CASE EmitAddress
    BY <1>12 DEF EmitAddress, session, files, tor
  <1>13. CASE ForgetKey
    <2>1. /\ slot.pc = "forget key"
          /\ UNCHANGED <<app, signFile, serviceId, published, home>>
      BY <1>13 DEF ForgetKey, session, tor
    <2>2. \/ keyFile' = NoFile /\ slot' = At("forget address")
          \/ keyFile' = keyFile /\ slot' = Idle
      BY <1>13 DEF ForgetKey
    <2>3. CASE keyFile' = NoFile /\ slot' = At("forget address")
      <3>1. keyFile'.state = "absent" /\ slot'.pc = "forget address"
        BY <2>3
      <3>2. QED
        BY <2>1, <2>3, <3>1
    <2>4. CASE keyFile' = keyFile /\ slot' = Idle
      <3>1. slot'.pc = "idle"
        BY <2>4
      <3>2. QED
        BY <2>1, <2>4, <3>1
    <2>5. QED
      BY <2>2, <2>3, <2>4
  <1>14. CASE ForgetAddress
    <2>1. /\ slot.pc = "forget address"
          /\ UNCHANGED <<app, keyFile, signFile, serviceId, published, home>>
      BY <1>14 DEF ForgetAddress, session, tor
    <2>2. slot' = Create(None) \/ slot' = Idle
      BY <1>14 DEF ForgetAddress
    <2>3. slot'.pc = "idle" \/ (slot'.pc = "create" /\ slot'.key = None)
      BY <2>2, ZenonT(60)
    <2>4. QED
      BY <2>1, <2>3, ValueFacts
  <1>15. QED
    BY <1>1, <1>2, <1>3, <1>4, <1>5, <1>6, <1>7, <1>8, <1>9, <1>10, <1>11, <1>12,
       <1>13, <1>14 DEF Next, Gui, Worker, Bystander

LEMMA NextAsked ==
    ASSUME TypeOK, SlotInv, AskedInv, [Next]_vars
    PROVE  AskedInv'
  <1> USE DEF AskedInv
  <1>1. CASE Bystander
    <2>1. UNCHANGED <<passphrase, asked, keyFile, slot>>
      BY <1>1, BystanderFacts
    <2>2. QED
      BY <2>1 DEF Readable, IsVaultBlob, DecryptAtRest
  <1>2. CASE \E p \in Known(Passphrases), d \in BOOLEAN : Start(p, d)
    <2>1. PICK p \in Known(Passphrases), d \in BOOLEAN : Start(p, d)
      BY <1>2
    <2>2. /\ app = "off" /\ passphrase' = p /\ asked' = d
          /\ UNCHANGED <<keyFile, slot>>
          /\ d => Accepted(p)
      BY <2>1 DEF Start, files
    <2>3. slot'.pc = "idle"
      BY <2>2 DEF SlotInv
    <2>4. d /\ keyFile.state = "whole" => Readable(p, keyFile)
      BY <2>2 DEF Accepted, Readable
    <2>5. QED
      BY <2>2, <2>3, <2>4 DEF Readable, IsVaultBlob, DecryptAtRest
  <1>3. CASE End
    BY <1>3 DEF End
  <1>4. CASE Stop \/ LoadOrCreate
    <2>1. UNCHANGED <<passphrase, asked, keyFile, slot>>
      BY <1>4 DEF Stop, LoadOrCreate, session, files, events
    <2>2. QED
      BY <2>1 DEF Readable, IsVaultBlob, DecryptAtRest
  <1>5. CASE \/ RegenerateAddress \/ CreateFails \/ SaveAddress \/ EmitAddress
    <2>1. /\ UNCHANGED <<passphrase, asked, keyFile>>
          /\ slot'.pc \in {"idle", "emit", "forget key"}
      BY <1>5 DEF RegenerateAddress, CreateFails, SaveAddress, EmitAddress,
                 session, files
    <2>2. QED
      BY <2>1 DEF Readable, IsVaultBlob, DecryptAtRest
  <1>6. CASE LoadIdentity
    <2>1. UNCHANGED <<passphrase, asked, keyFile>>
      BY <1>6 DEF LoadIdentity, session, files
    <2>2. \/ Readable(passphrase, keyFile) /\ slot' = Create(keyFile.secret)
          \/ ~Readable(passphrase, keyFile) /\ slot'.pc = "create"
      BY <1>6 DEF LoadIdentity
    <2>3. CASE Readable(passphrase, keyFile) /\ slot' = Create(keyFile.secret)
      <3>1. slot'.pc = "create" /\ slot'.key # None
        BY <2>3, ReadableFacts DEF SlotInv
      <3>2. QED
        BY <2>1, <3>1 DEF Readable, IsVaultBlob, DecryptAtRest
    <2>4. CASE ~Readable(passphrase, keyFile) /\ slot'.pc = "create"
      BY <2>1, <2>4 DEF Readable, IsVaultBlob, DecryptAtRest
    <2>5. QED
      BY <2>2, <2>3, <2>4
  <1>7. CASE CreateSucceeds
    <2>1. /\ UNCHANGED <<passphrase, asked, keyFile>>
          /\ \/ slot'.pc = "emit"
             \/ slot.pc = "create" /\ slot.key = None /\ slot'.pc = "save key"
      BY <1>7 DEF CreateSucceeds, session, files, Saves
    <2>2. QED
      BY <2>1 DEF Readable, IsVaultBlob, DecryptAtRest
  <1>8. CASE SaveKey
    <2>1. /\ UNCHANGED <<passphrase, asked>>
          /\ slot'.pc \in {"save address", "emit"}
      BY <1>8 DEF SaveKey, session
    <2>2. keyFile'.state = "whole" =>
             keyFile' = Whole(passphrase, serviceId) \/ keyFile' = keyFile
      BY <1>8, SpoiltFacts DEF SaveKey, TypeOK
    <2>3. keyFile' = Whole(passphrase, serviceId) => Readable(passphrase', keyFile')
      <3>1. ASSUME keyFile' = Whole(passphrase, serviceId)
            PROVE  keyFile'.state = "whole" /\ keyFile'.lock = passphrase
        BY <3>1 DEF Whole, File
      <3>2. QED
        BY <2>1, <3>1 DEF Readable, IsVaultBlob, DecryptAtRest
    <2>4. keyFile' = keyFile /\ asked' /\ keyFile'.state = "whole" =>
             Readable(passphrase', keyFile')
      BY <2>1
    <2>5. asked' /\ keyFile'.state = "whole" => Readable(passphrase', keyFile')
      BY <2>2, <2>3, <2>4
    <2>6. ~(slot'.pc = "save key" \/ (slot'.pc = "create" /\ slot'.key = None))
      BY <2>1
    <2>7. QED
      BY <2>5, <2>6
  <1>9. CASE ForgetKey \/ ForgetAddress
    <2>1. UNCHANGED <<passphrase, asked>>
      BY <1>9 DEF ForgetKey, ForgetAddress, session
    <2>2. \/ keyFile' = NoFile
          \/ keyFile' = keyFile /\ slot'.pc = "idle"
      BY <1>9 DEF ForgetKey, ForgetAddress, SlotInv
    <2>3. CASE keyFile' = NoFile
      <3>1. keyFile'.state = "absent"
        BY <2>3
      <3>2. QED
        BY <3>1
    <2>4. CASE keyFile' = keyFile /\ slot'.pc = "idle"
      BY <2>1, <2>4 DEF Readable, IsVaultBlob, DecryptAtRest
    <2>5. QED
      BY <2>2, <2>3, <2>4
  <1>10. QED
    BY <1>1, <1>2, <1>3, <1>4, <1>5, <1>6, <1>7, <1>8, <1>9
       DEF Next, Gui, Worker, Bystander

-----------------------------------------------------------------------------
LEMMA IntactOnlyFalls == TypeOK /\ [Next]_vars => (intact' => intact)
  <1> SUFFICES ASSUME TypeOK, [Next]_vars PROVE intact' => intact
    OBVIOUS
  <1>1. CASE Bystander
    BY <1>1, BystanderFacts
  <1>2. CASE \/ \E p \in Known(Passphrases), d \in BOOLEAN : Start(p, d)
             \/ End
    BY <1>2 DEF Start, End
  <1>3. CASE Stop \/ LoadIdentity \/ CreateSucceeds \/ EmitAddress
    BY <1>3, LuckFacts DEF Stop, LoadIdentity, CreateSucceeds, EmitAddress
  <1>4. CASE LoadOrCreate \/ RegenerateAddress \/ CreateFails
    BY <1>4, LuckFacts DEF LoadOrCreate, RegenerateAddress, CreateFails
  <1>5. CASE SaveKey \/ SaveAddress \/ ForgetKey \/ ForgetAddress
    BY <1>5, LuckFacts DEF SaveKey, SaveAddress, ForgetKey, ForgetAddress
  <1>6. QED
    BY <1>1, <1>2, <1>3, <1>4, <1>5 DEF Next, Gui, Worker, Bystander

LEMMA NextIntact ==
    ASSUME TypeOK, SlotInv, IntactInv, [Next]_vars
    PROVE  IntactInv'
  <1> SUFFICES ASSUME intact'
               PROVE  (FilesReadable /\ HomeOnDisk /\ SelfOnDisk /\ AddressFollows)'
    BY DEF IntactInv
  <1>a. FilesReadable /\ HomeOnDisk /\ SelfOnDisk /\ AddressFollows
    BY IntactOnlyFalls DEF IntactInv
  <1> USE <1>a DEF FilesReadable, HomeOnDisk, SelfOnDisk, AddressFollows
  <1>1. CASE Bystander
    <2>1. UNCHANGED <<app, passphrase, keyFile, addrFile, signFile, identity,
                      serviceId, slot, home, self>>
      BY <1>1, BystanderFacts
    <2>2. QED
      BY <2>1 DEF Readable, IsVaultBlob, DecryptAtRest
  <1>2. CASE \E p \in Known(Passphrases), d \in BOOLEAN : Start(p, d)
    <2>1. PICK p \in Known(Passphrases), d \in BOOLEAN : Start(p, d)
      BY <1>2
    <2>2. /\ passphrase' = p
          /\ UNCHANGED <<keyFile, addrFile, signFile, identity, serviceId, slot,
                         home, self>>
      BY <2>1 DEF Start, files, tor
    <2>3. /\ keyFile.state = "absent" \/ Readable(p, keyFile)
          /\ signFile.state = "absent" \/ Readable(p, signFile)
      BY <2>1 DEF Start
    <2>4. QED
      BY <2>2, <2>3 DEF Readable, IsVaultBlob, DecryptAtRest
  <1>3. CASE Stop
    <2>1. /\ app # "off"
          /\ UNCHANGED <<passphrase, keyFile, addrFile, signFile, identity, serviceId,
                         slot, home, self>>
      BY <1>3 DEF Stop, files, events
    <2>2. QED
      BY <2>1 DEF Readable, IsVaultBlob, DecryptAtRest
  <1>4. CASE End
    <2>1. /\ UNCHANGED <<keyFile, addrFile, signFile, home, self>>
          /\ app' = "off" /\ slot' = Idle /\ serviceId' = None /\ identity' = None
      BY <1>4 DEF End, files
    <2>2. slot.pc # "save address"
      BY <1>4 DEF End
    <2>3. slot'.pc = "idle"
      BY <2>1
    <2>4. QED
      BY <2>1, <2>2, <2>3
  <1>5. CASE LoadOrCreate
    <2>1. /\ app # "off"
          /\ UNCHANGED <<app, passphrase, keyFile, addrFile, serviceId, slot, home>>
      BY <1>5 DEF LoadOrCreate, session, tor, events
    <2>2. CASE Readable(passphrase, signFile)
      <3>1. /\ identity' = signFile.secret /\ UNCHANGED signFile
            /\ self' = IF self = None THEN identity' ELSE self
        BY <1>5, <2>2 DEF LoadOrCreate
      <3>2. signFile.state = "whole"
        BY <2>2, ReadableFacts
      <3>3. QED
        BY <2>1, <3>1, <3>2 DEF Readable, IsVaultBlob, DecryptAtRest
    <2>3. CASE ~Readable(passphrase, signFile)
      <3>1. self = None
        <4>1. signFile.state = "absent"
          BY <2>1, <2>3
        <4>2. QED
          BY <4>1
      <3>2. ~Fault(FALSE)
        BY LuckFacts
      <3>3. PICK new \in Identities : /\ signFile' = Whole(passphrase, new)
                                      /\ identity' = new /\ self' = new
        BY <1>5, <2>3, <3>1, <3>2 DEF LoadOrCreate
      <3>4. signFile'.state = "whole" /\ signFile'.secret = new
        BY <3>3 DEF Whole, File
      <3>5. Readable(passphrase, signFile')
        BY <3>3, RecordFacts
      <3>6. QED
        BY <2>1, <3>3, <3>4, <3>5 DEF Readable, IsVaultBlob, DecryptAtRest
    <2>4. QED
      BY <2>2, <2>3
  <1>6. CASE LoadIdentity
    <2>1. /\ app # "off"
          /\ slot = Idle
          /\ UNCHANGED <<app, passphrase, keyFile, addrFile, signFile, identity,
                         serviceId, home, self>>
      BY <1>6, TakesFacts DEF LoadIdentity, session, files, tor
    <2>2. slot.pc = "idle" /\ slot'.pc = "create"
      <3>1. \E k : slot' = Create(k)
        BY <1>6 DEF LoadIdentity
      <3>2. slot'.pc = "create"
        BY ONLY <3>1 DEF Create
      <3>3. slot.pc = "idle"
        BY ONLY <2>1 DEF Idle, At
      <3>4. QED
        BY ONLY <3>2, <3>3
    <2>3. home # None => slot'.key = home
      <3>1. home # None => slot' = Create(keyFile.secret)
        BY <1>6, <2>1 DEF LoadIdentity
      <3>2. QED
        BY <3>1, ZenonT(60)
    <2>4. QED
      BY <2>1, <2>2, <2>3 DEF Readable, IsVaultBlob, DecryptAtRest
  <1>7. CASE RegenerateAddress
    <2>1. /\ slot = Idle /\ slot' = At("forget key") /\ home' = None
          /\ UNCHANGED <<app, passphrase, keyFile, addrFile, signFile, identity, self>>
      BY <1>7, TakesFacts DEF RegenerateAddress, session, files
    <2>2. slot.pc = "idle"
      BY <2>1
    <2>3. QED
      BY <2>1, <2>2 DEF Readable, IsVaultBlob, DecryptAtRest
  <1>8. CASE CreateSucceeds
    <2>1. /\ slot.pc = "create"
          /\ UNCHANGED <<app, passphrase, keyFile, addrFile, signFile, identity, self>>
      BY <1>8 DEF CreateSucceeds, session, files
    <2>2. CASE slot.key = None
      <3>1. home = None
        BY <2>1, <2>2
      <3>2. slot'.pc = "save key" /\ home' = None
        BY <1>8, <2>2, <3>1 DEF CreateSucceeds, Saves
      <3>3. QED
        BY <2>1, <3>1, <3>2 DEF Readable, IsVaultBlob, DecryptAtRest
    <2>3. CASE slot.key # None
      <3>1. /\ slot.key \in Services /\ serviceId' = slot.key
            /\ slot'.pc = "emit"
            /\ home' = IF home = None THEN serviceId' ELSE home
        BY <1>8, <2>3 DEF CreateSucceeds, Saves
      <3>2. keyFile.state = "whole" /\ keyFile.secret = slot.key
        BY <2>1, <3>1 DEF SlotInv
      <3>3. QED
        BY <2>1, <3>1, <3>2 DEF Readable, IsVaultBlob, DecryptAtRest
    <2>4. QED
      BY <2>2, <2>3
  <1>9. CASE CreateFails \/ EmitAddress
    <2>1. /\ slot.pc \in {"create", "emit"} /\ slot' = Idle
          /\ UNCHANGED <<app, passphrase, keyFile, addrFile, signFile, identity,
                         serviceId, home, self>>
      BY <1>9 DEF CreateFails, EmitAddress, session, files, tor
    <2>2. slot'.pc = "idle"
      BY <2>1
    <2>3. QED
      BY <2>1, <2>2 DEF Readable, IsVaultBlob, DecryptAtRest
  <1>10. CASE SaveKey
    <2>1. ~Fault(FALSE)
      BY LuckFacts
    <2>2. /\ slot.pc = "save key"
          /\ keyFile' = Whole(passphrase, serviceId) /\ slot' = At("save address")
          /\ home' = IF home = None THEN serviceId ELSE home
          /\ UNCHANGED <<app, passphrase, addrFile, signFile, identity, serviceId, self>>
      BY <1>10, <2>1 DEF SaveKey, session, tor
    <2>3. /\ keyFile'.state = "whole" /\ keyFile'.secret = serviceId
          /\ keyFile'.lock = passphrase
      BY <2>2 DEF Whole, File
    <2>4. slot'.pc = "save address" /\ home' = serviceId
      BY <2>2
    <2>5. QED
      BY <2>2, <2>3, <2>4 DEF Readable, IsVaultBlob, DecryptAtRest
  <1>11. CASE SaveAddress
    <2>1. ~Fault(FALSE)
      BY LuckFacts
    <2>2. /\ slot.pc = "save address"
          /\ addrFile' = Whole(None, serviceId) /\ slot' = At("emit")
          /\ UNCHANGED <<app, passphrase, keyFile, signFile, identity, serviceId, home, self>>
      BY <1>11, <2>1 DEF SaveAddress, session, tor
    <2>3. /\ addrFile'.state = "whole" /\ addrFile'.secret = serviceId
      BY <2>2 DEF Whole, File
    <2>4. slot'.pc = "emit" /\ keyFile.secret = serviceId
      BY <2>2 DEF SlotInv
    <2>5. QED
      BY <2>2, <2>3, <2>4 DEF Readable, IsVaultBlob, DecryptAtRest
  <1>12. CASE ForgetKey
    <2>1. ~Fault(FALSE)
      BY LuckFacts
    <2>2. /\ keyFile' = NoFile /\ home = None
          /\ UNCHANGED <<app, passphrase, signFile, identity, home, self>>
      BY <1>12, <2>1 DEF ForgetKey, session, tor, SlotInv
    <2>3. keyFile'.state = "absent"
      BY <2>2
    <2>4. QED
      BY <2>2, <2>3 DEF Readable, IsVaultBlob, DecryptAtRest
  <1>13. CASE ForgetAddress
    <2>1. /\ keyFile = NoFile /\ home = None
          /\ UNCHANGED <<app, passphrase, keyFile, signFile, identity, home, self>>
      BY <1>13 DEF ForgetAddress, session, tor, SlotInv
    <2>2. keyFile.state = "absent"
      BY <2>1
    <2>3. QED
      BY <2>1, <2>2 DEF Readable, IsVaultBlob, DecryptAtRest
  <1>14. QED
    BY <1>1, <1>2, <1>3, <1>4, <1>5, <1>6, <1>7, <1>8, <1>9, <1>10, <1>11, <1>12,
       <1>13 DEF Next, Gui, Worker, Bystander

-----------------------------------------------------------------------------
LEMMA ElsewhereIsPending ==
    ASSUME slot'.pc # "idle" \/ (queue' # <<>>) PROVE Pending'
  BY DEF Pending

LEMMA NextShown ==
    ASSUME TypeOK, SlotInv, ShownInv, [Next]_vars
    PROVE  ShownInv'
  <1> SUFFICES ASSUME app' = "on", ~failed', ~Pending'
               PROVE  Latest' = serviceId' /\ serviceId' \in published'
    BY DEF ShownInv
  <1>a. /\ slot' = Idle /\ slot'.pc = "idle" /\ queue' = <<>>
        /\ \A i \in 1..Len(inbox') : inbox'[i] # Ready
    BY DEF Pending
  <1>b. queue \in Seq(Slots) /\ inbox \in Seq(Services \cup {Ready})
    BY DEF TypeOK
  <1>1. CASE \E p \in Known(Passphrases), d \in BOOLEAN : Start(p, d)
    BY <1>1, <1>a DEF Start
  <1>2. CASE Stop \/ End
    BY <1>2 DEF Stop, End
  <1>3. CASE LoadOrCreate \/ UNCHANGED vars
    <2>1. /\ UNCHANGED <<app, slot, queue, inbox, shown, serviceId, published>>
          /\ ~failed
      <3>1. CASE LoadOrCreate
        <4>1. UNCHANGED <<app, slot, queue, inbox, shown, serviceId, published>>
          BY <3>1 DEF LoadOrCreate, session, tor, events
        <4>2. UNCHANGED luck \/ UNCHANGED <<luck>> \/ Fault(FALSE)
          BY <3>1 DEF LoadOrCreate
        <4>3. failed' = failed
          BY <4>2, LuckFacts
        <4>4. QED
          BY <4>1, <4>3
      <3>2. CASE UNCHANGED vars
        BY <3>2 DEF vars, session, tor, events, luck
      <3>3. QED
        BY <1>3, <3>1, <3>2
    <2>2. QED
      BY <2>1 DEF ShownInv, Pending, Latest
  <1>4. CASE NewAddress \/ OnReady
    <2>1. \E e \in Slots : queue' = Append(queue, e)
      BY <1>4 DEF NewAddress, OnReady, Slots
    <2>2. PICK e \in Slots : queue' = Append(queue, e)
      BY <2>1
    <2>3. queue' # <<>>
      BY <2>2, <1>b, QueueFacts
    <2>4. QED
      BY <2>3, <1>a
  <1>5. CASE OnAddressChanged
    <2>1. /\ inbox # <<>> /\ Head(inbox) # Ready
          /\ inbox' = Tail(inbox) /\ shown' = Head(inbox)
          /\ UNCHANGED <<app, queue, slot, serviceId, published>>
          /\ ~failed
      BY <1>5, LuckFacts DEF OnAddressChanged, session, tor
    <2>2. /\ Head(inbox) = inbox[1] /\ Len(inbox) \in Nat /\ Len(inbox) >= 1
          /\ Len(inbox') = Len(inbox) - 1
          /\ \A i \in 1..Len(inbox') : inbox'[i] = inbox[i + 1]
      BY <2>1, <1>b, Ready \in Services \cup {Ready}, QueueFacts
    <2>3. \A i \in 1..Len(inbox) : inbox[i] # Ready
      <3>1. SUFFICES ASSUME NEW i \in 1..Len(inbox) PROVE inbox[i] # Ready
        OBVIOUS
      <3>2. CASE i = 1
        BY <3>2, <2>1, <2>2
      <3>3. CASE i # 1
        <4>1. i - 1 \in 1..Len(inbox') /\ (i - 1) + 1 = i
          BY <3>3, <2>2
        <4>2. inbox'[i - 1] = inbox[i]
          BY <2>2, <4>1
        <4>3. QED
          BY <4>1, <4>2, <1>a
      <3>4. QED
        BY <3>2, <3>3
    <2>4. Latest = serviceId /\ serviceId \in published
      BY <2>1, <2>3, <1>a DEF ShownInv, Pending
    <2>5. Latest' = Latest
      <3>1. CASE Len(inbox) = 1
        <4>1. inbox' = <<>>
          BY <3>1, <2>1, <1>b
        <4>2. QED
          BY <3>1, <4>1, <2>1, <2>2 DEF Latest
      <3>2. CASE Len(inbox) # 1
        <4>1. /\ Len(inbox') \in 1..Len(inbox') /\ Len(inbox') + 1 = Len(inbox)
          BY <3>2, <2>2
        <4>2. inbox'[Len(inbox')] = inbox[Len(inbox)]
          BY <4>1, <2>2
        <4>3. inbox' # <<>>
          <5>1. inbox' = <<>> => Len(inbox') = 0
            OBVIOUS
          <5>2. QED
            BY <5>1, <3>2, <2>2
        <4>4. QED
          BY <4>2, <4>3, <2>1 DEF Latest
      <3>3. QED
        BY <3>1, <3>2
    <2>6. QED
      BY <2>1, <2>4, <2>5
  <1>6. CASE StartTor
    <2>1. inbox' = Append(inbox, Ready)
      BY <1>6, LuckFacts DEF StartTor
    <2>2. /\ Len(inbox') = Len(inbox) + 1 /\ inbox'[Len(inbox) + 1] = Ready
          /\ Len(inbox) \in Nat
      BY <2>1, <1>b, Ready \in Services \cup {Ready}, QueueFacts
    <2>3. Len(inbox) + 1 \in 1..Len(inbox')
      BY <2>2
    <2>4. QED
      BY <2>2, <2>3, <1>a
  <1>7. CASE LoadIdentity \/ RegenerateAddress
    <2>1. slot'.pc \in {"create", "forget key"}
      <3>1. (\E k : slot' = Create(k)) \/ slot' = At("forget key")
        BY <1>7 DEF LoadIdentity, RegenerateAddress
      <3>2. QED
        BY <3>1
    <2>2. QED
      BY <2>1, <1>a
  <1>8. CASE CreateSucceeds \/ SaveKey \/ SaveAddress
    <2>1. slot'.pc \in Created
      BY <1>8 DEF CreateSucceeds, SaveKey, SaveAddress, Created
    <2>2. QED
      BY <2>1, <1>a DEF Created
  <1>9. CASE CreateFails
    BY <1>9, LuckFacts DEF CreateFails
  <1>10. CASE EmitAddress
    <2>1. /\ slot.pc = "emit" /\ inbox' = Append(inbox, serviceId)
          /\ UNCHANGED <<app, serviceId, published>>
      BY <1>10 DEF EmitAddress, session, tor
    <2>2. serviceId \in Services /\ serviceId \in published
      BY <2>1 DEF SlotInv, Created
    <2>3. Len(inbox') = Len(inbox) + 1 /\ inbox'[Len(inbox) + 1] = serviceId
          /\ inbox' # <<>>
      BY <2>1, <2>2, <1>b, QueueFacts
    <2>4. QED
      BY <2>1, <2>2, <2>3 DEF Latest
  <1>11. CASE ForgetKey \/ ForgetAddress
    <2>1. slot' = At("forget address") \/ slot' = Create(None)
      BY <1>11, LuckFacts DEF ForgetKey, ForgetAddress
    <2>2. QED
      BY <2>1, <1>a
  <1>12. QED
    BY <1>1, <1>2, <1>3, <1>4, <1>5, <1>6, <1>7, <1>8, <1>9, <1>10, <1>11
       DEF Next, Gui, Worker

-----------------------------------------------------------------------------
IdentityInv == TypeOK /\ SlotInv /\ AskedInv /\ IntactInv /\ ShownInv

LEMMA IdentityInvariant == Spec => []IdentityInv
  <1>1. Init => IdentityInv
    BY InitInv DEF IdentityInv
  <1>2. IdentityInv /\ [Next]_vars => IdentityInv'
    BY NextType, NextSlot, NextAsked, NextIntact, NextShown DEF IdentityInv
  <1>3. QED
    BY <1>1, <1>2, PTL DEF Spec

(* The files, the slots and the queues hold what they should. *)
THEOREM IdentityTypeCorrect == Spec => []TypeOK
  <1>1. IdentityInv => TypeOK
    BY DEF IdentityInv
  <1>2. QED
    BY <1>1, IdentityInvariant, PTL

(* load_identity and _save_identity: as long as every file can be read and *)
(* written, neither restarts, nor crashes between two writes, nor clicks   *)
(* on New Address, nor a Tor that fails change who the installation is.    *)
THEOREM SelfStays == Spec => []SelfKept
  <1>1. IdentityInv => SelfKept
    BY DEF IdentityInv, IntactInv, HomeOnDisk, SelfOnDisk, SelfKept
  <1>2. QED
    BY <1>1, IdentityInvariant, PTL

(* _save_identity writes two files; whenever the worker is done and no     *)
(* file was spoilt, both name one service.                                 *)
THEOREM AddressFileAgrees == Spec => []AddressFileFollowsKey
  <1>0. slot = Idle => slot.pc # "save address"
    <2>1. Idle.pc = "idle"
      BY DEF Idle, At
    <2>2. QED
      BY <2>1
  <1>1. IdentityInv => AddressFileFollowsKey
    BY <1>0 DEF IdentityInv, IntactInv, AddressFollows, AddressFileFollowsKey
  <1>2. QED
    BY <1>1, IdentityInvariant, PTL

(* _on_address_changed: in the end the window and the call manager name    *)
(* the service that Tor serves, unless something failed.                   *)
THEOREM ShownServed == Spec => []ShownIsServed
  <1>1. IdentityInv => ShownIsServed
    BY DEF IdentityInv, ShownInv, Pending, Latest, Quiet, ShownIsServed
  <1>2. QED
    BY <1>1, IdentityInvariant, PTL

(* create_hidden_service saves only a key that Tor has made, and in a      *)
(* session whose passphrase the dialog has tested it asks for one only if  *)
(* no whole key is on the disk.                                            *)
THEOREM KeyFileIsSafe == Spec => KeyFileSafe
  <1>1. IdentityInv /\ [Next]_vars =>
          [asked /\ keyFile.state = "whole" /\ slot.pc # "forget key" =>
              UNCHANGED keyFile]_vars
    <2> SUFFICES ASSUME IdentityInv, Next, asked, keyFile.state = "whole",
                        slot.pc # "forget key"
                 PROVE  UNCHANGED keyFile
      OBVIOUS
    <2>1. slot.pc # "save key"
      BY DEF IdentityInv, AskedInv
    <2>2. ~SaveKey /\ ~ForgetKey
      BY <2>1 DEF SaveKey, ForgetKey
    <2>3. CASE Bystander
      BY <2>3, BystanderFacts DEF IdentityInv
    <2>4. CASE \/ \E p \in Known(Passphrases), d \in BOOLEAN : Start(p, d)
               \/ Stop \/ End \/ LoadOrCreate
      BY <2>4 DEF Start, Stop, End, LoadOrCreate, files
    <2>5. CASE \/ LoadIdentity \/ RegenerateAddress \/ CreateSucceeds \/ CreateFails
               \/ SaveAddress \/ EmitAddress \/ ForgetAddress
      BY <2>5 DEF LoadIdentity, RegenerateAddress, CreateSucceeds, CreateFails,
                 SaveAddress, EmitAddress, ForgetAddress, files
    <2>6. QED
      BY <2>2, <2>3, <2>4, <2>5 DEF Next, Gui, Worker, Bystander
  <1>2. QED
    BY <1>1, IdentityInvariant, PTL DEF Spec, KeyFileSafe
=============================================================================
