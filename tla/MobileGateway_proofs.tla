------------------------ MODULE MobileGateway_proofs ------------------------
(***************************************************************************)
(* What pairing and the uploads behind it keep to, for any phones, codes,  *)
(* devices, sizes and quotas, with repeated requests, lost answers, faults *)
(* and restarts.                                                           *)
(***************************************************************************)
EXTENDS MobileGateway, FiniteSetTheorems, SequenceTheorems, WellFoundedInduction, TLAPS

-----------------------------------------------------------------------------
(* Pairing *)

PairType(n) == [ticket : 0 .. MaxTickets, by : {<<>>} \cup Request, device : 0 .. n]

(* The request that used the pending code made its device; no other device *)
(* has that code, nor one that was not shown yet.                          *)
CodeIsUsedOnce ==
  /\ pair.by # <<>> => pair.device \in 1 .. Len(paired) /\ paired[pair.device] = pair.by
  /\ pair.by = <<>> => \A d \in 1 .. Len(paired) : paired[d][2] # pair.ticket
  /\ pair.ticket <= shown
  /\ \A d \in 1 .. Len(paired) : paired[d][2] <= shown

PairingInv == PairingTypeOK /\ CodeIsUsedOnce /\ PairingIsExclusive

(* The devices that may connect are those in time.                         *)
LEMMA AuthorizedDevices == {d \in devices : Authorized(d)} = devices \ lapsed
BY DEF Authorized

(* Removing devices keeps their number.                                    *)
LEMMA FewerDevices ==
  ASSUME PairingTypeOK, Cardinality(devices \ lapsed) <= MaxDevices,
         devices' \ lapsed' \subseteq devices \ lapsed
  PROVE  Cardinality(devices' \ lapsed') <= MaxDevices
<1>1. IsFiniteSet(devices \ lapsed)
  <2>1. IsFiniteSet(1 .. Len(paired)) /\ devices \ lapsed \subseteq 1 .. Len(paired)
    BY FS_Interval DEF PairingTypeOK
  <2>2. QED
    BY <2>1, FS_Subset
<1>2. /\ IsFiniteSet(devices' \ lapsed')
      /\ Cardinality(devices' \ lapsed') <= Cardinality(devices \ lapsed)
  BY <1>1, FS_Subset
<1>3. /\ Cardinality(devices' \ lapsed') \in Nat /\ Cardinality(devices \ lapsed) \in Nat
      /\ MaxDevices \in Nat
  BY <1>1, <1>2, FS_CardinalityType, PairingAssumption
<1>4. QED
  BY <1>2, <1>3

(* A step that pairs nobody: what is left of the pairing is what it was,   *)
(* or a code that nobody has used.                                         *)
LEMMA NobodyIsPaired ==
  ASSUME PairingInv, paired' = paired, devices' \subseteq devices,
         lapsed \subseteq lapsed', lapsed' \subseteq lapsed \cup devices,
         running' \in BOOLEAN, shown' \in shown .. MaxTickets,
         \/ pair' = pair
         \/ /\ pair'.by = <<>> /\ pair' \in PairType(0)
            /\ pair'.ticket = 0 \/ pair'.ticket \in shown + 1 .. shown',
         sent' \subseteq Request, credential' \in [Phone -> 0 .. Len(paired)],
         \A p \in Phone : credential'[p] # 0 => paired[credential'[p]][1] = p
  PROVE  PairingInv'
<1>1. PairingTypeOK /\ CodeIsUsedOnce /\ PairingIsExclusive
  BY DEF PairingInv
<1>2. shown \in Nat /\ shown' \in Nat /\ shown <= shown' /\ MaxTickets \in Nat
      /\ Len(paired) \in Nat /\ \A d \in 1 .. Len(paired) : paired[d][2] \in 1 .. MaxTickets
  BY <1>1, PairingAssumption DEF PairingTypeOK, Request
<1>3. pair' \in PairType(Len(paired))
  BY <1>1, <1>2 DEF PairingTypeOK, PairType
<1>4. PairingTypeOK'
  BY <1>1, <1>2, <1>3 DEF PairingTypeOK, PairType
<1>5. CodeIsUsedOnce'
  <2>1. CASE pair' = pair
    BY <1>1, <1>2, <1>3, <2>1 DEF CodeIsUsedOnce, PairType
  <2>2. CASE pair'.by = <<>> /\ (pair'.ticket = 0 \/ pair'.ticket \in shown + 1 .. shown')
    BY <1>1, <1>2, <2>2 DEF CodeIsUsedOnce
  <2>3. QED
    BY <2>1, <2>2
<1>6. Cardinality(devices' \ lapsed') <= MaxDevices
  BY <1>1, FewerDevices, AuthorizedDevices DEF PairingIsExclusive
<1>7. {d \in devices' : Authorized(d)'} = devices' \ lapsed'
  BY DEF Authorized
<1>8. PairingIsExclusive'
  BY <1>1, <1>6, <1>7 DEF PairingIsExclusive
<1>9. QED
  BY <1>4, <1>5, <1>8 DEF PairingInv

(* An answer with the device that this phone's request made.               *)
LEMMA AnswerIsOwn ==
  ASSUME NEW p \in Phone, NEW t, NEW n \in Nat, NEW d \in 1 .. n, Answer(p, t, d),
         credential \in [Phone -> 0 .. n]
  PROVE  /\ sent' = sent /\ credential' \in [Phone -> 0 .. n]
         /\ \A q \in Phone : credential'[q] = credential[q] \/ (q = p /\ credential'[q] = d)
<1>0. UNCHANGED sent /\ (UNCHANGED credential \/ credential' = [credential EXCEPT ![p] = d])
  BY Zenon DEF Answer
<1>1. CASE UNCHANGED credential
  BY <1>0, <1>1
<1>2. CASE credential' = [credential EXCEPT ![p] = d]
  <2>1. d \in 0 .. n
    OBVIOUS
  <2>2. credential' \in [Phone -> 0 .. n]
    BY <1>2, <2>1
  <2>3. \A q \in Phone : credential'[q] = IF q = p THEN d ELSE credential[q]
    BY <1>2
  <2>4. QED
    BY <1>0, <2>2, <2>3
<1>3. QED
  BY <1>0, <1>1, <1>2

(* The first request with a code that is shown.                            *)
LEMMA FirstUseKeeps ==
  ASSUME PairingInv, NEW p \in Phone, NEW t \in 1 .. MaxTickets, FirstUse(p, t)
  PROVE  /\ PairingInv'
         /\ \A d \in 1 .. Len(paired) : d \notin devices => d \notin devices'
<1> DEFINE d == Len(paired) + 1
<1>1. PairingTypeOK /\ CodeIsUsedOnce /\ PairingIsExclusive
  BY DEF PairingInv
<1>2. /\ pair.ticket = t /\ pair.by = <<>> /\ Cardinality(devices \ lapsed) < MaxDevices
      /\ devices' = (devices \ lapsed) \cup {d} /\ paired' = Append(paired, <<p, t>>)
      /\ pair' = [pair EXCEPT !.by = <<p, t>>, !.device = d]
      /\ Answer(p, t, d) /\ UNCHANGED <<running, shown, lapsed>>
  BY DEF FirstUse, Current, Room
<1>3. paired \in Seq(Request) /\ <<p, t>> \in Request /\ Len(paired) \in Nat
  BY <1>1 DEF PairingTypeOK, Request
<1>4. /\ paired' \in Seq(Request) /\ Len(paired') = d /\ paired'[d] = <<p, t>>
      /\ \A e \in 1 .. Len(paired) : paired'[e] = paired[e]
  BY <1>2, <1>3
<1>5. /\ d \in 1 .. d /\ d \in Nat /\ 1 .. d = (1 .. Len(paired)) \cup {d}
      /\ d \notin 1 .. Len(paired)
  BY <1>3
<1> HIDE DEF d
<1>6. /\ sent' = sent /\ credential' \in [Phone -> 0 .. d]
      /\ \A q \in Phone : credential'[q] = credential[q] \/ (q = p /\ credential'[q] = d)
  <2>1. credential \in [Phone -> 0 .. d]
    BY <1>1, <1>3 DEF PairingTypeOK, d
  <2>2. d \in 1 .. d /\ d \in Nat /\ Answer(p, t, d)
    BY <1>2, <1>5
  <2> HIDE DEF d
  <2>3. QED
    BY <2>1, <2>2, AnswerIsOwn
<1>7. pair' \in PairType(d) /\ pair'.by = <<p, t>> /\ pair'.device = d /\ pair'.ticket = t
  <2>1. pair \in PairType(d) /\ d \in 0 .. d
    BY <1>1, <1>3 DEF PairingTypeOK, PairType, d
  <2>2. QED
    BY <1>2, <1>3, <2>1 DEF PairType
<1>8. PairingTypeOK'
  <2>1. devices' \subseteq 1 .. Len(paired') /\ lapsed' \subseteq 1 .. Len(paired')
    BY <1>1, <1>2, <1>4, <1>5 DEF PairingTypeOK
  <2>2. QED
    BY <1>1, <1>2, <1>4, <1>6, <1>7, <2>1 DEF PairingTypeOK, PairType
<1>9. CodeIsUsedOnce'
  <2>1. <<p, t>> # <<>> /\ <<p, t>>[2] = t /\ t <= shown /\ shown' = shown
    BY <1>1, <1>2 DEF CodeIsUsedOnce
  <2>2. \A e \in 1 .. Len(paired) : paired'[e][2] <= shown
    BY <1>1, <1>4 DEF CodeIsUsedOnce
  <2>3. QED
    BY <1>4, <1>5, <1>7, <2>1, <2>2 DEF CodeIsUsedOnce
<1>10. \A e \in 1 .. Len(paired) : paired[e][2] # t
  BY <1>1, <1>2 DEF CodeIsUsedOnce
<1>11. \A e, f \in 1 .. Len(paired') : paired'[e][2] = paired'[f][2] => e = f
  BY <1>1, <1>4, <1>5, <1>10 DEF PairingIsExclusive
<1>12. \A q \in Phone : credential'[q] # 0 => paired'[credential'[q]][1] = q
  BY <1>1, <1>4, <1>5, <1>6 DEF PairingIsExclusive, PairingTypeOK
<1>13. Cardinality({e \in devices' : Authorized(e)'}) <= MaxDevices
  <2>1. IsFiniteSet(1 .. Len(paired)) /\ devices \ lapsed \subseteq 1 .. Len(paired)
    BY <1>1, FS_Interval DEF PairingTypeOK
  <2>2. IsFiniteSet(devices \ lapsed) /\ Cardinality(devices \ lapsed) \in Nat
    BY <2>1, FS_Subset, FS_CardinalityType
  <2>3. d \notin lapsed /\ d \notin devices
    BY <1>1, <1>5 DEF PairingTypeOK
  <2>4. {e \in devices' : Authorized(e)'} = (devices \ lapsed) \cup {d}
    BY <1>2, <2>3 DEF Authorized
  <2>5. Cardinality((devices \ lapsed) \cup {d}) = Cardinality(devices \ lapsed) + 1
    BY <2>2, <2>3, FS_AddElement
  <2>6. Cardinality(devices \ lapsed) + 1 <= MaxDevices
    BY <1>2, <2>2, PairingAssumption
  <2>7. QED
    BY <2>4, <2>5, <2>6
<1>14. QED
  BY <1>2, <1>5, <1>8, <1>9, <1>11, <1>12, <1>13 DEF PairingInv, PairingIsExclusive

(* No step of pairing lets a device back in.                               *)
StaysOut == \A d \in 1 .. Len(paired) : d \notin devices => d \notin devices'

(* Every step of the gateway and the phones keeps pairing exclusive.       *)
LEMMA PairingStepKeeps ==
  ASSUME PairingInv, PairingStep \/ ShowTicket \/ Forget
  PROVE  PairingInv' /\ StaysOut
<1>1. PairingTypeOK /\ CodeIsUsedOnce /\ PairingIsExclusive
  BY DEF PairingInv
<1>2. /\ running \in BOOLEAN /\ shown \in 0 .. MaxTickets /\ pair \in PairType(Len(paired))
      /\ sent \subseteq Request /\ credential \in [Phone -> 0 .. Len(paired)]
      /\ MaxTickets \in Nat /\ Len(paired) \in Nat
      /\ \A p \in Phone : credential[p] # 0 => paired[credential[p]][1] = p
  BY <1>1, PairingAssumption DEF PairingTypeOK, PairType, PairingIsExclusive
<1>3. shown \in shown .. MaxTickets
  BY <1>2
<1>4. /\ NoPair \in PairType(0) /\ NoPair.by = <<>> /\ NoPair.ticket = 0
  BY <1>2 DEF NoPair, PairType
<1>5. CASE ShowTicket
  <2>1. pair' \in PairType(0) /\ pair'.by = <<>> /\ pair'.ticket = shown + 1
    BY <1>2, <1>4, <1>5 DEF ShowTicket, PairType
  <2>2. shown' = shown + 1 /\ shown' \in shown .. MaxTickets /\ shown' \in shown + 1 .. shown'
    BY <1>2, <1>5 DEF ShowTicket
  <2>3. PairingInv'
    BY <1>2, <1>5, <2>1, <2>2, NobodyIsPaired DEF ShowTicket, phoneState
  <2>4. QED
    BY <1>5, <2>3 DEF ShowTicket, StaysOut
<1>6. CASE TicketExpires
  BY <1>2, <1>3, <1>4, <1>6, NobodyIsPaired DEF TicketExpires, phoneState, StaysOut
<1>7. CASE Forget
  BY <1>2, <1>3, <1>4, <1>7, NobodyIsPaired DEF Forget, phoneState, StaysOut
<1>8. CASE Status
  BY <1>2, <1>3, <1>8, NobodyIsPaired DEF Status, phoneState, StaysOut
<1>9. ASSUME NEW d \in devices, DeviceExpires(d) \/ Revoke(d) PROVE PairingInv' /\ StaysOut
  BY <1>2, <1>3, <1>9, NobodyIsPaired DEF DeviceExpires, Revoke, phoneState, StaysOut
<1>10. ASSUME NEW p \in Phone, NEW t \in 1 .. shown, Scan(p, t) PROVE PairingInv' /\ StaysOut
  <2>1. <<p, t>> \in Request /\ sent' \subseteq Request
    BY <1>2, <1>10 DEF Scan, Request
  <2>2. /\ credential' \in [Phone -> 0 .. Len(paired)]
        /\ \A q \in Phone : credential'[q] = credential[q] \/ credential'[q] = 0
    BY <1>2, <1>10 DEF Scan
  <2>3. QED
    BY <1>2, <1>3, <1>10, <2>1, <2>2, NobodyIsPaired DEF Scan, gatewayState, StaysOut
<1>11. ASSUME NEW p \in Phone, NEW t \in 1 .. MaxTickets, HandlePair(p, t)
       PROVE  PairingInv' /\ StaysOut
  <2>1. CASE FirstUse(p, t)
    BY <2>1, FirstUseKeeps DEF StaysOut
  <2>2. CASE LimitReached(t)
    BY <1>2, <1>3, <2>2, NobodyIsPaired DEF LimitReached, phoneState, StaysOut
  <2>3. CASE Repeated(p, t)
    <3>1. <<p, t>> # <<>> /\ <<p, t>>[1] = p
      OBVIOUS
    <3>2. pair.by = <<p, t>> /\ pair.device \in 1 .. Len(paired) /\ Answer(p, t, pair.device)
          /\ UNCHANGED gatewayState
      BY <1>1, <2>3, <3>1 DEF Repeated, CodeIsUsedOnce
    <3>3. paired[pair.device][1] = p
      BY <1>1, <3>1, <3>2 DEF CodeIsUsedOnce
    <3>4. /\ sent' = sent /\ credential' \in [Phone -> 0 .. Len(paired)]
          /\ \A q \in Phone :
               credential'[q] = credential[q] \/ (q = p /\ credential'[q] = pair.device)
      <4> DEFINE n == Len(paired)
                 e == pair.device
      <4>1. n \in Nat /\ credential \in [Phone -> 0 .. n] /\ e \in 1 .. n /\ Answer(p, t, e)
        BY <1>2, <3>2
      <4> HIDE DEF n, e
      <4>2. /\ sent' = sent /\ credential' \in [Phone -> 0 .. n]
            /\ \A q \in Phone : credential'[q] = credential[q] \/ (q = p /\ credential'[q] = e)
        BY <4>1, AnswerIsOwn
      <4>3. QED
        BY <4>2 DEF n, e
    <3>5. QED
      BY <1>2, <1>3, <3>2, <3>3, <3>4, NobodyIsPaired DEF gatewayState, StaysOut
  <2>4. QED
    BY <1>11, <2>1, <2>2, <2>3 DEF HandlePair
<1>12. ASSUME NEW r \in sent, HandlePair(r[1], r[2]) PROVE PairingInv' /\ StaysOut
  <2>1. r[1] \in Phone /\ r[2] \in 1 .. MaxTickets
    BY <1>2 DEF Request
  <2>2. QED
    BY <1>11, <1>12, <2>1
<1>13. QED
  BY <1>5, <1>6, <1>7, <1>8, <1>9, <1>10, <1>12 DEF PairingStep

(* Nothing else has to do with pairing.                                    *)
LEMMA PairingInductive ==
  ASSUME PairingInv, [Next]_vars
  PROVE  PairingInv' /\ [StaysOut]_pairingVars
<1>1. CASE PairingStep \/ ShowTicket \/ Forget
  BY <1>1, PairingStepKeeps
<1>2. CASE UNCHANGED pairingVars
  BY <1>2 DEF pairingVars, gatewayState, phoneState, PairingInv, PairingTypeOK, CodeIsUsedOnce,
    PairingIsExclusive, Authorized
<1>3. QED
  BY <1>1, <1>2 DEF Next, Pairing, StartConfigured, Requests, Steps, Crashes, NoPairing, vars

(* At first nobody is paired.                                              *)
LEMMA PairingInitially == PairingInit => PairingInv
<1> SUFFICES ASSUME PairingInit PROVE PairingInv
  OBVIOUS
<1>1. Len(paired) = 0 /\ paired \in Seq(Request) /\ MaxTickets \in Nat
  BY PairingAssumption DEF PairingInit
<1>2. PairingTypeOK
  <2>1. NoPair \in [ticket : 0 .. MaxTickets, by : {<<>>} \cup Request, device : 0 .. Len(paired)]
    BY <1>1 DEF NoPair
  <2>2. credential \in [Phone -> 0 .. Len(paired)]
    BY <1>1 DEF PairingInit
  <2>3. paired \in Seq(Request)
    BY DEF PairingInit
  <2>4. QED
    <3>1. /\ running \in BOOLEAN /\ shown \in 0 .. MaxTickets
          /\ devices \subseteq 1 .. Len(paired) /\ lapsed \subseteq 1 .. Len(paired)
          /\ sent \subseteq Request
      <4>1. running \in BOOLEAN
        BY Zenon DEF PairingInit
      <4>2. QED
        BY <1>1, <4>1 DEF PairingInit
    <3>2. QED
      BY <2>1, <2>2, <2>3, <3>1 DEF PairingInit, PairingTypeOK
<1>3. CodeIsUsedOnce
  BY <1>1 DEF PairingInit, CodeIsUsedOnce, NoPair
<1>4. {d \in devices : Authorized(d)} = {}
  BY DEF PairingInit
<1>5. Cardinality({d \in devices : Authorized(d)}) <= MaxDevices
  BY <1>4, FS_EmptySet, PairingAssumption
<1>6. PairingIsExclusive
  BY <1>1, <1>5 DEF PairingInit, PairingIsExclusive
<1>7. QED
  BY <1>2, <1>3, <1>6 DEF PairingInv

(* A code pairs one device, no phone has another's credentials, and never  *)
(* more devices than the limit may connect.                                *)
THEOREM PairingStaysExclusive == Spec => []PairingIsExclusive
<1>1. Init => PairingInv
  BY PairingInitially DEF Init
<1>2. PairingInv /\ [Next]_vars => PairingInv'
  BY PairingInductive
<1>3. PairingInv => PairingIsExclusive
  BY DEF PairingInv
<1>4. QED
  BY <1>1, <1>2, <1>3, PTL DEF Spec

(* A device that was revoked or forgotten never gets back into the table.  *)
THEOREM RevokedAlwaysStaysOut == Spec => RevokedStaysOut
<1>1. Init => PairingInv
  BY PairingInitially DEF Init
<1>2. PairingInv /\ [Next]_vars => PairingInv' /\ [StaysOut]_pairingVars
  BY PairingInductive
<1>3. QED
  BY <1>1, <1>2, PTL DEF Spec, RevokedStaysOut, StaysOut

-----------------------------------------------------------------------------
(* Uploads: what the disk holds *)

(* What Readable says of a directory.                                      *)
Able(r) ==
  /\ r.dir /\ r.manifest # "none"
  /\ IF r.manifest = "completed" THEN r.bin ELSE r.bin \/ r.part
  /\ Len(r.data) <= Size

InPlace(s, from) == \A n \in 1 .. Len(s) : s[n] \in {0, from + n}

(* A directory: its bytes are in place, what is published is the file, and *)
(* only what is published is complete.                                     *)
Whole(r) ==
  /\ r \in Directory
  /\ ~r.dir => r = NoDir
  /\ Len(r.data) <= Size /\ InPlace(r.data, 0)
  /\ r.bin => r.data = File /\ r.device \in Device
  /\ r.manifest = "completed" => r.bin

Knowledge == [id : Id \cup {0}, offset : 0 .. Size, done : BOOLEAN]

Told(D, E, k) ==
  /\ k.id # 0 /\ D[k.id].dir => k.offset <= Len(D[k.id].data)
  /\ k.done => k.id \in E /\ D[k.id].manifest = "completed"

(* The directories, the ids given out, the entries and what phones know    *)
(* agree.  A phone keeps to the session that it knows, so a published one  *)
(* is the only one of its device.                                          *)
Agrees(D, g, E, K) ==
  /\ D \in [Id -> Directory] /\ g \in 0 .. MaxIds /\ E \subseteq Id
  /\ K \in [Device -> Knowledge]
  /\ \A i \in Id : Whole(D[i])
  /\ \A i \in Id : i > g => D[i] = NoDir
  /\ \A i \in Id : D[i].bin => K[D[i].device].id = i
  /\ \A i \in Id : D[i].manifest = "completed" => i \in E
  /\ \A i \in E : D[i].bin
  /\ \A d \in Device : K[d].id <= g /\ Told(D, E, K[d])

(* Only what was broken off, or is being made, cannot be read.             *)
Broken(D, T, W) ==
  \A i \in Id : D[i].dir /\ ~Able(D[i]) => i \in T \/ (\E w \in W : Making(w) /\ w.id = i)

-----------------------------------------------------------------------------
(* Uploads: what the router remembers *)

Ables(D) == {i \in Id : Able(D[i])}

Fits(S) == Cardinality(S) <= MaxSessions /\ Size * Cardinality(S) <= MaxStored
FitsOneMore(S) ==
  Cardinality(S) + 1 <= MaxSessions /\ Size * Cardinality(S) + Size <= MaxStored

(* The storage of the sessions in memory is reserved; what can be read is  *)
(* among them, and they fit the quotas.                                    *)
Remembers ==
  /\ DOMAIN sessions \subseteq Id
  /\ \A i \in DOMAIN sessions : i <= given /\ sessions[i] \in BOOLEAN
  /\ \A i \in DOMAIN sessions : sessions[i] => disk[i].manifest = "completed"
  /\ reserved = Size * Cardinality(DOMAIN sessions)
  /\ router = 0 \/ unavailable => DOMAIN sessions = {}
  /\ router # 0 /\ ~unavailable => Ables(disk) \subseteq DOMAIN sessions /\ Fits(DOMAIN sessions)
  /\ Fits(Ables(disk))

-----------------------------------------------------------------------------
(* Uploads: the request at work *)

WorkType ==
  [router : Nat \ {0}, device : Device \cup {0}, id : Id \cup {0},
   kind : {"load", "create", "patch", "complete", "delete"},
   step : {"load", "create", "place", "part", "manifest", "patch", "link", "store",
           "completed", "delete"},
   units : Seq(0 .. Size), expire : SUBSET Id, doomed : Id \cup {0}]

Finding == {"create", "place", "part", "manifest"}
Placing == {"place", "part", "manifest"}
Publishing == {"link", "store", "completed"}

(* What a request may count on at its next step.                           *)
Sound(w) ==
  /\ w \in WorkType /\ (w.kind = "patch" => w.step = "patch")
  /\ w.expire # {} => w.step \in {"load", "create"}
  /\ w.doomed # 0 => ~disk[w.doomed].bin /\ w.doomed \in w.expire
  /\ w.step \in {"load", "create", "place"} => w.id = 0
  /\ w.step # "load" => w.device \in Device
  /\ w.step \in Finding => known[w.device].id = 0
  /\ w.step \in Placing =>
       FitsOneMore(Ables(disk)) /\ (router # 0 => FitsOneMore(DOMAIN sessions))
  /\ w.step \in {"part", "manifest"} =>
       /\ w.id \in 1 .. given /\ w.id \notin DOMAIN sessions
       /\ disk[w.id].dir /\ disk[w.id].data = <<>> /\ ~disk[w.id].bin
       /\ disk[w.id].manifest = "none" /\ disk[w.id].device = w.device
       /\ w.step = "manifest" => disk[w.id].part
  /\ w.step \in Publishing \cup {"patch", "delete"} =>
       /\ w.id \in Id /\ w.id <= given /\ known[w.device].id = w.id
       /\ disk[w.id].device = w.device
  /\ w.step \in Publishing \cup {"patch"} => disk[w.id].dir
  /\ w.step = "patch" =>
       /\ ~disk[w.id].bin /\ InPlace(w.units, Offset(w.id))
       /\ Offset(w.id) + Len(w.units) <= Size
  /\ w.step \in Publishing =>
       /\ disk[w.id].data = File /\ Fits(Ables(disk) \cup {w.id})
       /\ router # 0 => w.id \in DOMAIN sessions
  /\ w.step \in {"store", "completed"} => disk[w.id].bin
  /\ w.step = "completed" => w.id \in entries
  /\ w.step = "delete" => ~disk[w.id].bin

(* There is one at a time: it holds the lock of the last router, and one   *)
(* that goes on after its gateway was stopped is waited for.               *)
OneAtWork ==
  /\ routers \in Nat /\ router \in {0, routers} /\ unavailable \in BOOLEAN
  /\ surface = "configured" /\ router = 0 => working = {}
  /\ \A w \in working : w.router = routers /\ (router # 0 => ~unavailable) /\ Sound(w)
  /\ \A w, v \in working : w = v

UploadInv ==
  /\ Agrees(disk, given, entries, known)
  /\ Broken(disk, torn, working)
  /\ Remembers
  /\ OneAtWork
(* Published files stay.                                                   *)
Kept == \A i \in Id : disk[i].bin => disk'[i].bin

-----------------------------------------------------------------------------
(* Uploads: one directory, one entry or one phone's knowledge changes *)

(* The constants are numbers.                                              *)
LEMMA SizeIsNat ==
  /\ MaxIds \in Nat /\ Size \in Nat /\ Size > 0 /\ Chunk \in Nat /\ Chunk > 0
  /\ MaxSessions \in Nat /\ MaxStored \in Nat
BY UploadAssumption

(* The file that was announced, and its units.                             *)
LEMMA TheFile ==
  /\ File \in Seq(0 .. Size) /\ Len(File) = Size /\ \A n \in 1 .. Size : File[n] = n
  /\ InPlace(File, 0)
<1>1. File \in [1 .. Size -> 0 .. Size] /\ Size \in Nat
  BY SizeIsNat DEF File
<1>2. File \in Seq(0 .. Size) /\ Len(File) = Size /\ \A n \in 1 .. Size : File[n] = n
  BY <1>1 DEF File
<1>3. QED
  BY <1>2, SizeIsNat DEF InPlace

(* A directory changes, and nothing that was promised about it is lost.    *)
LEMMA DirectoryChanges ==
  ASSUME NEW D, NEW g, NEW E, NEW K, Agrees(D, g, E, K),
         NEW h \in 0 .. MaxIds, g <= h, NEW i \in Id, i <= h, NEW r, Whole(r),
         D[i].bin => r.bin, r.bin => K[r.device].id = i,
         r.manifest = "completed" => i \in E,
         D[i].manifest = "completed" => r.manifest = "completed",
         \A d \in Device : K[d].id = i /\ r.dir => K[d].offset <= Len(r.data)
  PROVE  Agrees([D EXCEPT ![i] = r], h, E, K)
<1> DEFINE C == [D EXCEPT ![i] = r]
<1>1. D \in [Id -> Directory] /\ r \in Directory
  BY DEF Agrees, Whole
<1>2. C \in [Id -> Directory] /\ C[i] = r /\ \A j \in Id : j # i => C[j] = D[j]
  BY <1>1
<1> HIDE DEF C
<1>3. g \in Nat /\ h \in Nat /\ MaxIds \in Nat /\ Id \subseteq Nat
  BY SizeIsNat DEF Agrees, Id
<1>4. \A j \in Id : Whole(C[j]) /\ (j > h => C[j] = NoDir)
  BY <1>2, <1>3 DEF Agrees
<1>5. /\ \A j \in Id : C[j].bin => K[C[j].device].id = j
      /\ \A j \in Id : C[j].manifest = "completed" => j \in E
      /\ E \subseteq Id /\ \A j \in E : C[j].bin
  BY <1>2 DEF Agrees
<1>6. ASSUME NEW d \in Device PROVE K[d].id <= h /\ Told(C, E, K[d])
  <2>1. K[d].id <= g /\ Told(D, E, K[d]) /\ K[d] \in Knowledge /\ E \subseteq Id
    BY DEF Agrees
  <2>2. K[d].id \in Id \cup {0} /\ 0 \notin Id /\ (K[d].done => K[d].id \in Id)
    BY <2>1 DEF Knowledge, Told, Id
  <2>3. K[d].id <= h
    <3>1. K[d].id \in Nat /\ g \in Nat /\ h \in Nat
      <4>1. K[d].id \in Id => K[d].id \in Nat
        BY <1>3
      <4>2. QED
        BY <1>3, <2>2, <4>1
    <3>2. QED
      BY <2>1, <3>1
  <2>4. CASE K[d].id = i
    BY <1>2, <2>1, <2>3, <2>4 DEF Told
  <2>5. CASE K[d].id # i /\ K[d].id \in Id
    <3>1. C[K[d].id] = D[K[d].id]
      BY <1>2, <2>5
    <3>2. QED
      BY <2>1, <2>3, <3>1 DEF Told
  <2>6. CASE K[d].id = 0
    BY <2>2, <2>3, <2>6 DEF Told
  <2>7. QED
    BY <2>2, <2>4, <2>5, <2>6
<1>7. K \in [Device -> Knowledge]
  BY DEF Agrees
<1>8. Agrees(C, h, E, K)
  BY <1>2, <1>4, <1>5, <1>6, <1>7 DEF Agrees
<1>9. QED
  BY <1>8 DEF C

(* A published file gets its entry.                                        *)
LEMMA EntryIsStored ==
  ASSUME NEW D, NEW g, NEW E, NEW K, Agrees(D, g, E, K), NEW i \in Id, D[i].bin
  PROVE  Agrees(D, g, E \cup {i}, K)
<1>1. \A d \in Device : Told(D, E \cup {i}, K[d])
  BY DEF Agrees, Told
<1>2. QED
  BY <1>1 DEF Agrees

(* A phone is told what is so, of its session or of its first one.         *)
LEMMA Learns ==
  ASSUME NEW D, NEW g, NEW E, NEW K, Agrees(D, g, E, K),
         NEW d \in Device, NEW i \in Id, i <= g, NEW n \in 0 .. Size, NEW b \in BOOLEAN,
         K[d].id \in {0, i}, D[i].dir => n <= Len(D[i].data),
         b => i \in E /\ D[i].manifest = "completed"
  PROVE  Agrees(D, g, E, [K EXCEPT ![d] = [id |-> i, offset |-> n, done |-> @.done \/ b]])
<1> DEFINE k == [id |-> i, offset |-> n, done |-> K[d].done \/ b]
           J == [K EXCEPT ![d] = k]
<1>1. K \in [Device -> Knowledge] /\ K[d] \in Knowledge /\ Told(D, E, K[d]) /\ E \subseteq Id
  BY DEF Agrees
<1>2. i # 0 /\ 0 \notin Id /\ K[d].done \in BOOLEAN
  BY <1>1 DEF Knowledge, Id
<1>3. K[d].done => i \in E /\ D[i].manifest = "completed"
  BY <1>1, <1>2 DEF Told
<1>4. k \in Knowledge /\ k.id = i /\ k.offset = n /\ (k.done => K[d].done \/ b)
  BY <1>2 DEF Knowledge
<1>5. Told(D, E, k)
  BY <1>3, <1>4 DEF Told
<1> HIDE DEF k
<1>6. J \in [Device -> Knowledge] /\ J[d] = k /\ \A e \in Device : e # d => J[e] = K[e]
  BY <1>1, <1>4
<1> HIDE DEF J
<1>7. \A e \in Device : J[e].id <= g /\ Told(D, E, J[e])
  BY <1>4, <1>5, <1>6 DEF Agrees
<1>8. ASSUME NEW j \in Id, D[j].bin PROVE J[D[j].device].id = j
  <2>1. D[j].device \in Device /\ K[D[j].device].id = j /\ j # 0
    BY <1>2, <1>8 DEF Agrees, Whole, Directory
  <2>2. QED
    BY <1>4, <1>6, <2>1
<1>9. Agrees(D, g, E, J)
  BY <1>6, <1>7, <1>8 DEF Agrees
<1>10. QED
  BY <1>9 DEF J, k

(* The same for an answer that may be lost.                                *)
LEMMA MayLearn ==
  ASSUME NEW D, NEW g, NEW E, Agrees(D, g, E, known),
         NEW d \in Device, NEW i \in Id, i <= g, NEW n \in 0 .. Size, NEW b \in BOOLEAN,
         MayTell(d, i, n, b) \/ Tell(d, i, n, b),
         known[d].id \in {0, i}, D[i].dir => n <= Len(D[i].data),
         b => i \in E /\ D[i].manifest = "completed"
  PROVE  Agrees(D, g, E, known')
<1>1. CASE UNCHANGED known
  BY <1>1
<1>2. CASE Tell(d, i, n, b)
  BY <1>2, Learns DEF Tell
<1>3. QED
  BY <1>1, <1>2 DEF MayTell

(* What cannot be read stays accounted for.                                *)
LEMMA BrokenKept ==
  ASSUME NEW D, NEW T, NEW W, Broken(D, T, W), NEW C, NEW U, NEW V, T \subseteq U,
         \A i \in Id : C[i].dir /\ ~Able(C[i]) =>
           \/ D[i].dir /\ ~Able(D[i])
           \/ i \in U
           \/ \E v \in V : Making(v) /\ v.id = i,
         \A w \in W : Making(w) /\ w.id \in Id =>
           \/ \E v \in V : Making(v) /\ v.id = w.id
           \/ w.id \in U \/ ~C[w.id].dir \/ Able(C[w.id])
  PROVE  Broken(C, U, V)
BY DEF Broken

-----------------------------------------------------------------------------
(* Uploads: quotas *)

(* Storage grows with the number of sessions.                              *)
LEMMA ProductGrows ==
  ASSUME NEW a \in Nat, NEW b \in Nat, a <= b, NEW s \in Nat
  PROVE  s * a <= s * b /\ s * a \in Nat /\ s * (a + 1) = s * a + s
<1>1. b - a \in Nat /\ s * (b - a) \in Nat
  OBVIOUS
<1>2. s * b = s * a + s * (b - a)
  OBVIOUS
<1>3. QED
  BY <1>1, <1>2

(* Sets of sessions are finite, and smaller ones fit as well.              *)
LEMMA SessionSets ==
  ASSUME NEW S \in SUBSET Id
  PROVE  IsFiniteSet(S) /\ Cardinality(S) \in Nat
<1>1. IsFiniteSet(Id)
  BY FS_Interval, SizeIsNat DEF Id
<1>2. QED
  BY <1>1, FS_Subset, FS_CardinalityType

(* Fewer sessions fit where more do.                                       *)
LEMMA SmallerFits ==
  ASSUME NEW S \in SUBSET Id, NEW T \in SUBSET S, Fits(S)
  PROVE  Fits(T)
<1>1. IsFiniteSet(S) /\ Cardinality(S) \in Nat /\ Cardinality(T) \in Nat
  BY SessionSets
<1>2. Cardinality(T) <= Cardinality(S)
  BY <1>1, FS_Subset
<1>3. Size * Cardinality(T) <= Size * Cardinality(S) /\ Size * Cardinality(T) \in Nat
  BY <1>1, <1>2, SizeIsNat, ProductGrows
<1>4. Size * Cardinality(S) \in Nat
  BY <1>1, SizeIsNat, ProductGrows
<1>5. QED
  BY <1>1, <1>2, <1>3, <1>4, SizeIsNat DEF Fits

(* One more session.                                                       *)
LEMMA OneMore ==
  ASSUME NEW S \in SUBSET Id, NEW i \in Id \ S
  PROVE  /\ Cardinality(S \cup {i}) = Cardinality(S) + 1
         /\ Size * Cardinality(S \cup {i}) = Size * Cardinality(S) + Size
         /\ FitsOneMore(S) => Fits(S \cup {i})
<1>1. IsFiniteSet(S) /\ Cardinality(S) \in Nat
  BY SessionSets
<1>2. Cardinality(S \cup {i}) = Cardinality(S) + 1
  BY <1>1, FS_AddElement
<1>3. Size * (Cardinality(S) + 1) = Size * Cardinality(S) + Size
  BY <1>1, SizeIsNat, ProductGrows
<1>4. QED
  BY <1>2, <1>3 DEF Fits, FitsOneMore
-----------------------------------------------------------------------------
(* Uploads: the request at work ends, or goes on *)

(* What the parts of the invariant say of a request at work.               *)
LEMMA AtWork ==
  ASSUME OneAtWork, NEW w \in working
  PROVE  /\ working = {w} /\ Sound(w) /\ w \in WorkType /\ w.router = routers
         /\ routers \in Nat /\ router \in {0, routers} /\ unavailable \in BOOLEAN
         /\ (router # 0 => ~unavailable) /\ (Live(w) <=> router # 0)
         /\ (surface = "configured" => router # 0)
<1>1. Sound(w) /\ w \in WorkType /\ w.router = routers /\ router \in {0, routers}
  BY DEF OneAtWork, Sound
<1>2. w.router # 0
  BY <1>1 DEF WorkType
<1>3. Live(w) <=> router # 0
  BY <1>1, <1>2 DEF Live
<1>4. QED
  BY <1>1, <1>3 DEF OneAtWork

(* The request at work ends: nobody is at work.                            *)
LEMMA Ended ==
  ASSUME OneAtWork, NEW w \in working, Finish(w), UNCHANGED <<surface, router, routers>>,
         unavailable' \in BOOLEAN
  PROVE  OneAtWork' /\ working' = {}
<1>1. working' = {}
  BY AtWork DEF Finish
<1>2. QED
  BY <1>1 DEF OneAtWork

(* The request at work goes on to a step that it is sound for.             *)
LEMMA GoesOn ==
  ASSUME OneAtWork, NEW w \in working, NEW v, Becomes(w, v), v.router = w.router,
         UNCHANGED <<surface, upload>>, Sound(v)'
  PROVE  OneAtWork' /\ working' = {v}
<1>1. working' = {v}
  BY AtWork DEF Becomes
<1>2. QED
  BY <1>1, AtWork DEF OneAtWork, upload

(* The memory stays as it is, and no more can be read than before.         *)
LEMMA MemoryKept ==
  ASSUME Remembers, UNCHANGED memory, Ables(disk') \subseteq Ables(disk),
         given \in Nat, given' \in Nat, given <= given',
         \A i \in Id : disk[i].manifest = "completed" => disk'[i].manifest = "completed"
  PROVE  Remembers'
<1>1. Fits(Ables(disk'))
  BY SmallerFits DEF Remembers, Ables
<1>2. QED
  <2>1. \A i \in DOMAIN sessions : i \in Nat /\ i <= given'
    BY SizeIsNat DEF Remembers, Id
  <2>2. QED
    BY <1>1, <2>1 DEF Remembers, memory, upload

(* A session is removed from the disk, and from the memory.                *)
LEMMA SessionForgotten ==
  ASSUME Remembers, OneAtWork, NEW w \in working, NEW i \in Id, ForgetSession(w, i),
         UNCHANGED <<upload, given>>, given \in Nat, disk \in [Id -> Directory],
          disk' = [disk EXCEPT ![i] = NoDir],
         disk[i].manifest # "completed"
  PROVE  Remembers'
<1>1. Ables(disk') = Ables(disk) \ {i}
  BY DEF Ables, Able, NoDir
<1>2. Fits(Ables(disk')) /\ Ables(disk') \subseteq Ables(disk)
  BY <1>1, SmallerFits DEF Remembers, Ables
<1>3. \A j \in Id : disk[j].manifest = "completed" => disk'[j].manifest = "completed"
  OBVIOUS
<1>4. CASE Live(w) /\ i \in DOMAIN sessions
  <2>1. /\ DOMAIN sessions' = DOMAIN sessions \ {i} /\ reserved' = reserved - Size
        /\ \A j \in DOMAIN sessions' : sessions'[j] = sessions[j]
    BY <1>4 DEF ForgetSession
  <2>2. /\ DOMAIN sessions' \in SUBSET Id /\ DOMAIN sessions \in SUBSET Id
        /\ i \in Id \ DOMAIN sessions' /\ DOMAIN sessions = DOMAIN sessions' \cup {i}
    BY <1>4, <2>1 DEF Remembers
  <2>3. Size * Cardinality(DOMAIN sessions) = Size * Cardinality(DOMAIN sessions') + Size
    BY <2>2, OneMore
  <2>4. Size * Cardinality(DOMAIN sessions') \in Nat
    BY <2>2, SessionSets, SizeIsNat, ProductGrows
  <2>5. reserved' = Size * Cardinality(DOMAIN sessions')
    BY <2>1, <2>3, <2>4, SizeIsNat DEF Remembers
  <2>6. Fits(DOMAIN sessions) => Fits(DOMAIN sessions')
    BY <2>2, SmallerFits
  <2>7. QED
    BY <1>1, <1>2, <1>3, <2>1, <2>2, <2>5, <2>6 DEF Remembers, upload
<1>5. CASE ~(Live(w) /\ i \in DOMAIN sessions)
  <2>1. UNCHANGED memory
    BY <1>5 DEF ForgetSession, memory
  <2>2. given' \in Nat /\ given <= given'
    OBVIOUS
  <2>3. QED
    BY <1>2, <1>3, <2>1, <2>2, MemoryKept
<1>6. QED
  BY <1>4, <1>5

(* Only one directory is another.                                          *)
LEMMA OneDirectory ==
  ASSUME disk \in [Id -> Directory], NEW i \in Id, NEW r, disk' = [disk EXCEPT ![i] = r]
  PROVE  disk'[i] = r /\ \A j \in Id : j # i => disk'[j] = disk[j]
OBVIOUS

(* A directory changes that stays as readable as it was.                   *)
LEMMA StillReadable ==
  ASSUME disk \in [Id -> Directory], NEW i \in Id, NEW r, disk' = [disk EXCEPT ![i] = r],
         Able(r) => Able(disk[i])
  PROVE  Ables(disk') \subseteq Ables(disk)
BY OneDirectory DEF Ables

-----------------------------------------------------------------------------
(* Uploads: the steps of a request *)

Unmoved == UNCHANGED <<disk, given, entries, torn>>

(* A step that only moves a request on.                                    *)
LEMMA OnlyMoves ==
  ASSUME UploadInv, NEW w \in working, ~Making(w), NEW v, Becomes(w, v), v.router = w.router,
         Unmoved, UNCHANGED <<surface, memory, known>>, Sound(v)
  PROVE  UploadInv' /\ Kept
<1>1. Sound(v)'
  BY DEF Sound, Unmoved, memory, upload, Offset
<1>2. OneAtWork' /\ working' = {v} /\ working = {w}
  BY <1>1, GoesOn, AtWork DEF UploadInv, memory
<1>3. Remembers'
  BY MemoryKept, SizeIsNat DEF UploadInv, Unmoved, Agrees
<1>4. Broken(disk', torn', working')
  BY <1>2 DEF UploadInv, Unmoved, Broken
<1>5. QED
  BY <1>2, <1>3, <1>4 DEF UploadInv, Unmoved, Kept

(* A step that only ends a request.                                        *)
LEMMA OnlyEnds ==
  ASSUME UploadInv, NEW w \in working, ~Making(w), Finish(w),
         Unmoved, Agrees(disk, given, entries, known'), UNCHANGED <<surface, memory>>
  PROVE  UploadInv' /\ Kept
<1>1. OneAtWork' /\ working' = {} /\ working = {w}
  BY Ended, AtWork DEF UploadInv, memory, upload, OneAtWork
<1>2. Remembers'
  BY MemoryKept, SizeIsNat DEF UploadInv, Unmoved, Agrees
<1>3. Broken(disk', torn', working')
  BY <1>1 DEF UploadInv, Unmoved, Broken
<1>4. QED
  BY <1>1, <1>2, <1>3 DEF UploadInv, Unmoved, Kept

(* The least of some sessions is one of them.                              *)
LEMMA LeastSession ==
  ASSUME NEW S \in SUBSET Id, S # {}
  PROVE  Min(S) \in S
<1> DEFINE R == OpToRel(<, Nat)
<1>1. \A x \in Nat, y \in Nat : <<x, y>> \in R <=> x < y
  BY DEF OpToRel
<1>2. IsWellFoundedOn(R, Nat) /\ S \subseteq Nat
  <2>1. S \subseteq Nat
    BY SizeIsNat DEF Id
  <2>2. QED
    BY <2>1, NatLessThanWellFounded
<1> HIDE DEF R
<1>3. PICK i \in S : \A j \in S : ~ (<<j, i>> \in R)
  BY <1>2, WFMin
<1>4. ASSUME NEW j \in S PROVE i <= j
  <2>1. i \in Nat /\ j \in Nat /\ ~ (j < i)
    BY <1>1, <1>2, <1>3
  <2>2. QED
    BY <2>1
<1>5. QED
  BY <1>4 DEF Min

(* The least session past its time is found published, or doomed.          *)
LEMMA ExamineKeeps ==
  ASSUME UploadInv, NEW w \in working, Examine(w), UNCHANGED surface
  PROVE  UploadInv' /\ Kept
<1> DEFINE i == Min(w.expire)
<1>1. /\ w.expire # {} /\ w.doomed = 0 /\ UNCHANGED <<memory, disk, given, entries, known, torn>>
      /\ Becomes(w, IF disk[i].bin THEN [w EXCEPT !.expire = @ \ {i}]
                    ELSE [w EXCEPT !.doomed = i])
  BY DEF Examine
<1>2. Sound(w) /\ w \in WorkType
  BY <1>1, AtWork DEF UploadInv
<1>3. i \in w.expire /\ i \in Id
  BY <1>1, <1>2, LeastSession DEF WorkType
<1> HIDE DEF i
<1>4. w.step \in {"load", "create"} /\ ~Making(w)
  BY <1>1, <1>2 DEF Sound, Making
<1>5. CASE disk[i].bin
  <2>1. PICK v : v = [w EXCEPT !.expire = w.expire \ {i}]
    OBVIOUS
  <2>2. v \in WorkType
    BY <1>2, <2>1 DEF WorkType
  <2>3. /\ v.router = w.router /\ v.kind = w.kind /\ v.device = w.device /\ v.id = w.id
        /\ v.step = w.step
        /\ v.doomed = w.doomed
    BY <1>2, <2>1 DEF WorkType
  <2>4. Sound(v)
    BY <1>1, <1>2, <1>4, <2>2, <2>3 DEF Sound, Placing, Publishing, Finding
  <2>5. Becomes(w, v)
    BY <1>1, <1>5, <2>1
  <2>6. QED
    BY <1>1, <1>4, <2>3, <2>4, <2>5, OnlyMoves DEF Unmoved
<1>6. CASE ~disk[i].bin
  <2>1. PICK v : v = [w EXCEPT !.doomed = i]
    OBVIOUS
  <2>2. v \in WorkType
    BY <1>2, <1>3, <2>1 DEF WorkType
  <2>3. /\ v.router = w.router /\ v.kind = w.kind /\ v.device = w.device /\ v.id = w.id
        /\ v.step = w.step
        /\ v.doomed = i /\ v.expire = w.expire
    BY <1>2, <2>1 DEF WorkType
  <2>4. Sound(v)
    BY <1>2, <1>3, <1>4, <1>6, <2>2, <2>3 DEF Sound, Placing, Publishing, Finding
  <2>5. Becomes(w, v)
    BY <1>1, <1>6, <2>1
  <2>6. QED
    BY <1>1, <1>4, <2>3, <2>4, <2>5, OnlyMoves DEF Unmoved
<1>7. QED
  BY <1>5, <1>6

(* A session is removed, and whatever the request was at goes on or ends.  *)
LEMMA RemovalKeeps ==
  ASSUME UploadInv, NEW w \in working, NEW i \in Id, ~disk[i].bin, i <= given,
         disk' = [disk EXCEPT ![i] = NoDir], ForgetSession(w, i),
         UNCHANGED <<surface, upload, given, entries, known, torn>>, ~Making(w), OneAtWork'
  PROVE  UploadInv' /\ Kept
<1>1. working = {w} /\ Agrees(disk, given, entries, known) /\ Broken(disk, torn, working)
  BY AtWork DEF UploadInv
<1>2. /\ disk \in [Id -> Directory] /\ given \in 0 .. MaxIds /\ Whole(disk[i])
      /\ disk[i].manifest # "completed" /\ given <= given
  BY <1>1, SizeIsNat DEF Agrees, Whole
<1>3. /\ NoDir.dir = FALSE /\ NoDir.bin = FALSE /\ NoDir.manifest = "none" /\ NoDir.data = <<>>
      /\ Whole(NoDir)
  <2>1. NoDir \in Directory
    BY DEF NoDir, Directory
  <2>2. QED
    BY <2>1, SizeIsNat DEF NoDir, Whole, InPlace
<1>4. Agrees(disk', given', entries', known')
  BY <1>1, <1>2, <1>3, DirectoryChanges
<1>5. disk'[i] = NoDir /\ \A j \in Id : j # i => disk'[j] = disk[j]
  BY <1>2, OneDirectory
<1>6. Broken(disk', torn', working')
  BY <1>1, <1>3, <1>5 DEF Broken
<1>7. Remembers'
  <2>1. given \in Nat
    BY <1>2, SizeIsNat
  <2>2. QED
    BY <1>2, <2>1, SessionForgotten DEF UploadInv
<1>8. Kept
  BY <1>5 DEF Kept
<1>9. QED
  BY <1>4, <1>6, <1>7, <1>8 DEF UploadInv

(* The doomed session is removed; it was not published.                    *)
LEMMA ExpireKeeps ==
  ASSUME UploadInv, NEW w \in working, Expire(w), UNCHANGED surface
  PROVE  UploadInv' /\ Kept
<1>1. Sound(w) /\ w \in WorkType /\ w.doomed # 0
  BY AtWork DEF UploadInv, Expire
<1>2. /\ w.doomed \in Id /\ ~disk[w.doomed].bin /\ w.step \in {"load", "create"} /\ ~Making(w)
      /\ ~Able(NoDir)
  BY <1>1 DEF Sound, WorkType, Making, Able, NoDir
<1>3. PICK v : v = [w EXCEPT !.expire = @ \ {w.doomed}, !.doomed = 0]
  OBVIOUS
<1>4. v \in WorkType
  BY <1>1, <1>3 DEF WorkType
<1>5. /\ v.router = w.router /\ v.kind = w.kind /\ v.device = w.device /\ v.id = w.id
      /\ v.step = w.step
      /\ v.doomed = 0
  BY <1>1, <1>3 DEF WorkType
<1>6. w.doomed <= given
  <2>1. disk[w.doomed].dir /\ Agrees(disk, given, entries, known)
    BY DEF Expire, UploadInv
  <2>2. w.doomed \in Nat /\ given \in Nat /\ ~NoDir.dir
    BY <1>2, <2>1, SizeIsNat DEF Agrees, Id, NoDir
  <2>3. QED
    BY <1>2, <2>1, <2>2 DEF Agrees
<1>7. Sound(v)'
  BY <1>1, <1>2, <1>4, <1>5 DEF Sound, Expire, Placing, Publishing, Finding
<1>8. OneAtWork'
  BY <1>3, <1>5, <1>7, GoesOn DEF Expire, UploadInv
<1>9. QED
  BY <1>2, <1>6, <1>8, RemovalKeeps DEF Expire

(* A session that is removed on request was not published.                 *)
LEMMA RemoveKeeps ==
  ASSUME UploadInv, NEW w \in working, Remove(w), UNCHANGED surface
  PROVE  UploadInv' /\ Kept
<1>1. Sound(w) /\ w.step = "delete"
  BY AtWork DEF UploadInv, Remove
<1>2. w.id \in Id /\ ~disk[w.id].bin /\ w.id <= given /\ ~Making(w)
  BY <1>1 DEF Sound, Making, Publishing
<1>4. OneAtWork'
  BY Ended DEF Remove, UploadInv, upload, OneAtWork
<1>5. QED
  BY <1>1, <1>2, <1>4, RemovalKeeps DEF Remove

(* A load has examined everything.                                         *)
LEMMA LoadedKeeps ==
  ASSUME UploadInv, NEW w \in working, Loaded(w), UNCHANGED surface
  PROVE  UploadInv' /\ Kept
<1>1. ~Making(w) /\ Agrees(disk, given, entries, known')
  BY DEF Loaded, Making, UploadInv
<1>2. QED
  BY <1>1, OnlyEnds DEF Loaded, Unmoved

(* What Full leaves room for.                                              *)
LEMMA RoomIsLeft ==
  ASSUME Remembers, OneAtWork, NEW w \in working, ~Full(w)
  PROVE  FitsOneMore(Ables(disk)) /\ (router # 0 => FitsOneMore(DOMAIN sessions))
<1> DEFINE S == DOMAIN sessions
           A == Ables(disk)
<1>1. S \in SUBSET Id /\ A \in SUBSET Id /\ w.router = routers /\ router \in {0, routers}
  BY AtWork DEF Remembers, Ables
<1>2. /\ Cardinality(S) \in Nat /\ Cardinality(A) \in Nat
      /\ Size * Cardinality(S) \in Nat /\ Size * Cardinality(A) \in Nat
  BY <1>1, SessionSets, SizeIsNat, ProductGrows
<1>3. A = {i \in Id : Readable(i)}
  BY DEF Ables, Able, Readable
<1>4. CASE Live(w)
  <2>1. Sessions(w) = S /\ reserved = Size * Cardinality(S) /\ router # 0 /\ ~unavailable
    BY <1>4, AtWork DEF Sessions, Remembers
  <2>2. /\ ~(Cardinality(S) >= MaxSessions)
        /\ ~(Size * Cardinality(S) + Size > MaxStored)
    BY <1>4, <2>1 DEF Full
  <2>3. FitsOneMore(S)
    BY <1>2, <2>2, SizeIsNat DEF FitsOneMore
  <2>4. A \subseteq S /\ IsFiniteSet(S)
    BY <1>1, <2>1, SessionSets DEF Remembers
  <2>5. Cardinality(A) <= Cardinality(S)
    BY <2>4, FS_Subset
  <2>6. Size * Cardinality(A) <= Size * Cardinality(S)
    BY <1>2, <2>5, SizeIsNat, ProductGrows
  <2>7. QED
    BY <1>2, <2>3, <2>5, <2>6, SizeIsNat DEF FitsOneMore
<1>5. CASE ~Live(w)
  <2>1. Sessions(w) = A /\ router = 0
    BY <1>3, <1>5, AtWork DEF Sessions
  <2>2. /\ ~(Cardinality(A) >= MaxSessions)
        /\ ~(Size * Cardinality(A) + Size > MaxStored)
    BY <1>5, <2>1 DEF Full
  <2>3. QED
    BY <1>2, <2>1, <2>2, SizeIsNat DEF FitsOneMore
<1>6. QED
  BY <1>4, <1>5

(* The request finds its session, the quotas full, or room for one more.   *)
LEMMA FindKeeps ==
  ASSUME UploadInv, NEW w \in working, Find(w), UNCHANGED surface
  PROVE  UploadInv' /\ Kept
<1>1. /\ w.step = "create" /\ Sound(w) /\ w \in WorkType /\ Agrees(disk, given, entries, known)
      /\ ~Making(w) /\ UNCHANGED memory /\ Unmoved /\ Remembers /\ OneAtWork
  BY AtWork DEF UploadInv, Find, Making, Unmoved
<1>2. w.device \in Device /\ known[w.device].id = 0 /\ w.id = 0 /\ w.doomed \in Id \cup {0}
  BY <1>1 DEF Sound, Finding, WorkType
<1>3. CASE Mine(w) # {}
  <2>1. Finish(w)
    BY <1>3 DEF Find
  <2>2. PICK i \in Mine(w) :
          IF Readable(i) THEN MayTell(w.device, i, Offset(i), disk[i].manifest = "completed")
          ELSE UNCHANGED known
    BY <1>3 DEF Find
  <2>3. i \in Id
    BY <1>1, <2>2 DEF Mine, Sessions, Remembers
  <2>4. CASE UNCHANGED known
    BY <1>1, <2>1, <2>4, OnlyEnds
  <2>5. CASE Readable(i) /\ MayTell(w.device, i, Offset(i), disk[i].manifest = "completed")
    <3>1. PICK b \in BOOLEAN : b = (disk[i].manifest = "completed")
      BY Zenon
    <3>2. MayTell(w.device, i, Offset(i), b)
      BY <2>5, <3>1
    <3>3. disk[i].dir /\ Whole(disk[i]) /\ given \in Nat /\ i \in Nat
      BY <1>1, <2>3, <2>5, SizeIsNat DEF Readable, Agrees, Id
    <3>4. i <= given
      BY <1>1, <2>3, <3>3 DEF Agrees, NoDir
    <3>5. Offset(i) \in 0 .. Size /\ Offset(i) <= Len(disk[i].data)
      BY <3>3, SizeIsNat DEF Whole, Directory, Offset
    <3>6. b => i \in entries /\ disk[i].manifest = "completed"
      BY <1>1, <2>3, <3>1 DEF Agrees
    <3>7. Agrees(disk, given, entries, known')
      BY <1>1, <1>2, <2>3, <3>2, <3>4, <3>5, <3>6, MayLearn
    <3>8. QED
      BY <1>1, <2>1, <3>7, OnlyEnds
  <2>6. QED
    BY <2>2, <2>4, <2>5
<1>4. CASE Mine(w) = {} /\ Full(w)
  BY <1>1, <1>4, OnlyEnds DEF Find
<1>5. CASE Mine(w) = {} /\ ~Full(w)
  <2>1. Then(w, "place") /\ UNCHANGED known /\ w.expire = {}
    BY <1>5 DEF Find
  <2>2. FitsOneMore(Ables(disk)) /\ (router # 0 => FitsOneMore(DOMAIN sessions))
    BY <1>1, <1>5, RoomIsLeft
  <2>3. PICK v : v = [w EXCEPT !.step = "place"]
    OBVIOUS
  <2>4. v \in WorkType
    BY <1>1, <2>3 DEF WorkType
  <2>5. /\ v.router = w.router /\ v.kind = w.kind /\ v.device = w.device /\ v.id = 0
        /\ v.step = "place"
        /\ v.doomed = w.doomed /\ v.expire = {}
    BY <1>1, <1>2, <2>1, <2>3 DEF WorkType
  <2>6. w.doomed = 0
    BY <1>1, <2>1 DEF Sound
  <2>7. Sound(v)
    BY <1>1, <1>2, <2>2, <2>4, <2>5, <2>6 DEF Sound, Placing, Publishing, Finding
  <2>8. QED
    BY <1>1, <2>1, <2>3, <2>5, <2>7, OnlyMoves DEF Then
<1>6. QED
  BY <1>3, <1>4, <1>5

(* What a step may count on that works on one directory.                   *)
LEMMA OneDirectoryAtWork ==
  ASSUME UploadInv, NEW w \in working
  PROVE  /\ Sound(w) /\ w \in WorkType /\ working = {w}
         /\ Agrees(disk, given, entries, known) /\ Broken(disk, torn, working)
         /\ Remembers /\ OneAtWork
         /\ given \in Nat /\ given \in 0 .. MaxIds /\ disk \in [Id -> Directory]
         /\ \A i \in Id : i \in Nat /\ i > 0 /\ Whole(disk[i]) /\ (disk[i].dir => i <= given)
<1>1. /\ Sound(w) /\ w \in WorkType /\ working = {w}
      /\ Agrees(disk, given, entries, known) /\ Broken(disk, torn, working)
      /\ Remembers /\ OneAtWork
  BY AtWork DEF UploadInv
<1>2. given \in Nat /\ given \in 0 .. MaxIds /\ disk \in [Id -> Directory] /\ Id \subseteq Nat
  BY <1>1, SizeIsNat DEF Agrees, Id
<1>3. \A i \in Id : i \in Nat /\ i > 0 /\ Whole(disk[i])
  BY <1>1, SizeIsNat DEF Agrees, Id
<1>4. \A i \in Id : disk[i].dir => ~(i > given)
  BY <1>1 DEF Agrees, NoDir
<1>5. QED
  BY <1>1, <1>2, <1>3, <1>4

(* An empty directory.                                                     *)
LEMMA EmptyDirectory ==
  ASSUME NEW d \in Device, NEW r, r = [NoDir EXCEPT !.dir = TRUE, !.device = d]
  PROVE  /\ Whole(r) /\ r.dir /\ r.data = <<>> /\ ~r.bin /\ r.manifest = "none"
         /\ r.device = d /\ ~Able(r)
<1>1. NoDir \in Directory /\ d \in Device \cup {0}
  BY DEF NoDir, Directory
<1>2. r \in Directory
  BY <1>1 DEF Directory
<1>3. r.dir /\ r.data = <<>> /\ ~r.bin /\ r.manifest = "none" /\ r.device = d
  BY DEF NoDir
<1>4. Whole(r) /\ ~Able(r)
  BY <1>2, <1>3, SizeIsNat DEF Whole, Able, InPlace
<1>5. QED
  BY <1>3, <1>4

(* A directory gets its empty payload.                                     *)
LEMMA EmptyPayload ==
  ASSUME NEW e, Whole(e), e.dir, e.data = <<>>, ~e.bin, e.manifest = "none",
         NEW r, r = [e EXCEPT !.part = TRUE]
  PROVE  /\ Whole(r) /\ r.dir /\ r.data = <<>> /\ ~r.bin /\ r.manifest = "none"
         /\ r.device = e.device /\ r.part /\ ~Able(r)
<1>1. e \in Directory
  BY DEF Whole
<1>2. /\ r \in Directory /\ r.dir /\ r.data = <<>> /\ ~r.bin /\ r.manifest = "none"
      /\ r.device = e.device /\ r.part
  BY <1>1 DEF Directory
<1>3. QED
  BY <1>2, SizeIsNat DEF Whole, Able, InPlace

(* A new directory is being made, which cannot be read.                    *)
LEMMA MakeDirKeeps ==
  ASSUME UploadInv, NEW w \in working, MakeDir(w), UNCHANGED surface
  PROVE  UploadInv' /\ Kept
<1>1. /\ w.step = "place" /\ given < MaxIds /\ given' = given + 1
      /\ disk' = [disk EXCEPT ![given'] = [NoDir EXCEPT !.dir = TRUE, !.device = w.device]]
      /\ Becomes(w, [w EXCEPT !.id = given', !.step = "part"])
      /\ UNCHANGED <<memory, entries, known, torn>>
  BY DEF MakeDir
<1>2. /\ Sound(w) /\ w \in WorkType /\ working = {w}
      /\ Agrees(disk, given, entries, known) /\ Broken(disk, torn, working)
      /\ Remembers /\ OneAtWork
      /\ given \in Nat /\ given \in 0 .. MaxIds /\ disk \in [Id -> Directory]
  BY OneDirectoryAtWork
<1>3. w.device \in Device /\ known[w.device].id = 0 /\ w.doomed = 0 /\ w.expire = {}
  BY <1>1, <1>2 DEF Sound, Finding
<1>4. PICK i : i = given'
  OBVIOUS
<1>5. /\ i \in Id /\ i \in 0 .. MaxIds /\ i \in Nat /\ given <= i /\ i <= i /\ i > given
      /\ i \in 1 .. i
  BY <1>1, <1>2, <1>4, SizeIsNat DEF Id
<1>6. PICK r : r = [NoDir EXCEPT !.dir = TRUE, !.device = w.device]
  OBVIOUS
<1>7. /\ Whole(r) /\ r.dir /\ ~r.bin /\ r.manifest = "none" /\ ~Able(r)
      /\ r.data = <<>> /\ r.device = w.device
  BY <1>3, <1>6, EmptyDirectory
<1>8. disk' = [disk EXCEPT ![i] = r]
  BY <1>1, <1>4, <1>6
<1>9. /\ disk[i] = NoDir /\ ~NoDir.bin /\ NoDir.manifest # "completed" /\ ~Able(NoDir)
      /\ disk'[i] = r /\ \A j \in Id : j # i => disk'[j] = disk[j]
  BY <1>2, <1>5, <1>8, OneDirectory DEF Agrees, NoDir, Able
<1>10. \A d \in Device : known[d].id # i
  <2>1. \A d \in Device : known[d].id <= given /\ known[d].id \in Id \cup {0}
    BY <1>2 DEF Agrees, Knowledge
  <2>2. \A x \in Id \cup {0} : x \in Nat
    BY SizeIsNat DEF Id
  <2>3. QED
    BY <1>2, <1>5, <2>1, <2>2
<1>11. Agrees(disk', given', entries', known')
  <2>1. Agrees([disk EXCEPT ![i] = r], i, entries, known)
    BY <1>2, <1>5, <1>7, <1>9, <1>10, DirectoryChanges
  <2>2. QED
    BY <1>1, <1>4, <1>8, <2>1
<1>12. PICK v : v = [w EXCEPT !.id = i, !.step = "part"]
  OBVIOUS
<1>13. /\ v \in WorkType /\ v.router = w.router /\ v.kind = w.kind /\ v.device = w.device
       /\ v.id = i
       /\ v.step = "part" /\ v.doomed = 0 /\ v.expire = {}
  BY <1>2, <1>3, <1>5, <1>12 DEF WorkType
<1>14. Ables(disk') = Ables(disk)
  BY <1>7, <1>9 DEF Ables
<1>15. i \notin DOMAIN sessions
  BY <1>2, <1>5 DEF Remembers
<1>16. Sound(v)'
  BY <1>1, <1>2, <1>3, <1>4, <1>5, <1>7, <1>9, <1>13, <1>14, <1>15
    DEF Sound, memory, upload, Placing, Publishing, Finding
<1>17. OneAtWork' /\ working' = {v}
  BY <1>1, <1>2, <1>4, <1>12, <1>13, <1>16, GoesOn DEF memory
<1>18. Broken(disk', torn', working')
  BY <1>1, <1>2, <1>9, <1>13, <1>17 DEF Broken, Making
<1>19. Remembers'
  BY <1>1, <1>2, <1>4, <1>5, <1>7, <1>9, <1>14, MemoryKept
<1>20. Kept
  BY <1>9 DEF Kept
<1>21. QED
  BY <1>11, <1>17, <1>18, <1>19, <1>20 DEF UploadInv

(* It gets an empty payload, and still cannot be read.                     *)
LEMMA MakePartKeeps ==
  ASSUME UploadInv, NEW w \in working, MakePart(w), UNCHANGED surface
  PROVE  UploadInv' /\ Kept
<1>1. /\ w.step = "part" /\ disk' = [disk EXCEPT ![w.id].part = TRUE]
      /\ Becomes(w, [w EXCEPT !.step = "manifest"])
      /\ UNCHANGED <<memory, given, entries, known, torn>>
  BY DEF MakePart, Then
<1>2. /\ Sound(w) /\ w \in WorkType /\ working = {w}
      /\ Agrees(disk, given, entries, known) /\ Broken(disk, torn, working)
      /\ Remembers /\ OneAtWork
      /\ given \in Nat /\ given \in 0 .. MaxIds /\ disk \in [Id -> Directory]
  BY OneDirectoryAtWork
<1>3. /\ w.device \in Device /\ known[w.device].id = 0 /\ w.doomed = 0 /\ w.expire = {}
      /\ w.id \in 1 .. given /\ w.id \notin DOMAIN sessions
      /\ disk[w.id].dir /\ disk[w.id].data = <<>> /\ ~disk[w.id].bin
      /\ disk[w.id].manifest = "none" /\ disk[w.id].device = w.device
  BY <1>1, <1>2 DEF Sound, Finding
<1>4. w.id \in Id /\ w.id <= given /\ given <= given
  BY <1>2, <1>3, SizeIsNat DEF Id
<1>5. PICK r : r = [disk[w.id] EXCEPT !.part = TRUE]
  OBVIOUS
<1>6. Whole(disk[w.id])
  BY <1>4, OneDirectoryAtWork
<1>8. /\ Whole(r) /\ r.dir /\ r.data = <<>> /\ ~r.bin /\ r.manifest = "none"
      /\ r.device = w.device /\ r.part /\ ~Able(r)
  BY <1>3, <1>5, <1>6, EmptyPayload
<1>9. ~Able(disk[w.id])
  BY <1>3 DEF Able
<1>10. disk' = [disk EXCEPT ![w.id] = r]
  BY <1>1, <1>2, <1>4, <1>5
<1>11. disk'[w.id] = r /\ \A j \in Id : j # w.id => disk'[j] = disk[j]
  BY <1>2, <1>4, <1>10, OneDirectory
<1>12. \A d \in Device : known[d].id = w.id => known[d].offset <= Len(r.data)
  BY <1>2, <1>3, <1>4, <1>8, SizeIsNat DEF Agrees, Told, Id
<1>13. Agrees(disk', given', entries', known')
  <2>1. Agrees([disk EXCEPT ![w.id] = r], given, entries, known)
    BY <1>2, <1>3, <1>4, <1>8, <1>12, DirectoryChanges
  <2>2. QED
    BY <1>1, <1>10, <2>1
<1>14. PICK v : v = [w EXCEPT !.step = "manifest"]
  OBVIOUS
<1>15. /\ v \in WorkType /\ v.router = w.router /\ v.kind = w.kind /\ v.device = w.device
       /\ v.id = w.id
       /\ v.step = "manifest" /\ v.doomed = 0 /\ v.expire = {}
  BY <1>2, <1>3, <1>14 DEF WorkType
<1>16. Ables(disk') = Ables(disk)
  BY <1>8, <1>9, <1>11 DEF Ables
<1>17. Sound(v)'
  BY <1>1, <1>2, <1>3, <1>4, <1>8, <1>11, <1>15, <1>16
    DEF Sound, memory, upload, Placing, Publishing, Finding
<1>18. OneAtWork' /\ working' = {v}
  BY <1>1, <1>2, <1>14, <1>15, <1>17, GoesOn DEF memory
<1>19. Broken(disk', torn', working')
  BY <1>1, <1>2, <1>11, <1>15, <1>18 DEF Broken, Making
<1>20. Remembers'
  BY <1>1, <1>2, <1>3, <1>4, <1>9, <1>11, <1>16, MemoryKept
<1>21. Kept
  BY <1>3, <1>11 DEF Kept
<1>22. QED
  BY <1>13, <1>18, <1>19, <1>20, <1>21 DEF UploadInv

(* The manifest of a new directory.                                        *)
LEMMA FirstManifest ==
  ASSUME NEW e, Whole(e), e.dir, e.data = <<>>, ~e.bin, e.part,
         NEW r, r = [e EXCEPT !.manifest = "open"]
  PROVE  /\ Whole(r) /\ r.dir /\ r.data = <<>> /\ ~r.bin /\ r.manifest = "open"
         /\ r.device = e.device /\ Able(r)
<1>1. e \in Directory
  BY DEF Whole
<1>2. /\ r \in Directory /\ r.dir /\ r.data = <<>> /\ ~r.bin /\ r.manifest = "open"
      /\ r.device = e.device /\ r.part
  BY <1>1 DEF Directory
<1>3. QED
  BY <1>2, SizeIsNat DEF Whole, Able, InPlace

(* With its manifest the session can be read, is remembered and has room.  *)
LEMMA CreatedKeeps ==
  ASSUME UploadInv, NEW w \in working, Created(w), UNCHANGED surface
  PROVE  UploadInv' /\ Kept
<1> DEFINE S == DOMAIN sessions
           A == Ables(disk)
<1>1. /\ w.step = "manifest" /\ disk' = [disk EXCEPT ![w.id].manifest = "open"]
      /\ MayTell(w.device, w.id, 0, FALSE) /\ Finish(w)
      /\ UNCHANGED <<upload, given, entries, torn>>
  BY DEF Created
<1>2. /\ Sound(w) /\ w \in WorkType /\ working = {w}
      /\ Agrees(disk, given, entries, known) /\ Broken(disk, torn, working)
      /\ Remembers /\ OneAtWork
      /\ given \in Nat /\ given \in 0 .. MaxIds /\ disk \in [Id -> Directory]
  BY OneDirectoryAtWork
<1>3. /\ w.device \in Device /\ known[w.device].id = 0
      /\ w.id \in 1 .. given /\ w.id \notin S
      /\ disk[w.id].dir /\ disk[w.id].data = <<>> /\ ~disk[w.id].bin /\ disk[w.id].part
      /\ disk[w.id].manifest = "none" /\ disk[w.id].device = w.device
      /\ FitsOneMore(A) /\ (router # 0 => FitsOneMore(S))
  BY <1>1, <1>2 DEF Sound, Finding, Placing
<1>4. w.id \in Id /\ w.id <= given /\ given <= given /\ Whole(disk[w.id])
  BY <1>2, <1>3, OneDirectoryAtWork, SizeIsNat DEF Id
<1>5. PICK r : r = [disk[w.id] EXCEPT !.manifest = "open"]
  OBVIOUS
<1>6. /\ Whole(r) /\ r.dir /\ r.data = <<>> /\ ~r.bin /\ r.manifest = "open"
      /\ r.device = w.device /\ Able(r) /\ ~Able(disk[w.id])
  BY <1>3, <1>4, <1>5, FirstManifest DEF Able
<1>7. disk' = [disk EXCEPT ![w.id] = r]
  BY <1>1, <1>2, <1>4, <1>5
<1>8. disk'[w.id] = r /\ \A j \in Id : j # w.id => disk'[j] = disk[j]
  BY <1>2, <1>4, <1>7, OneDirectory
<1>9. \A d \in Device : known[d].id = w.id => known[d].offset <= Len(r.data)
  BY <1>2, <1>3, <1>4, <1>6, SizeIsNat DEF Agrees, Told, Id
<1>10. Agrees(disk', given, entries, known)
  <2>1. Agrees([disk EXCEPT ![w.id] = r], given, entries, known)
    BY <1>2, <1>3, <1>4, <1>6, <1>9, DirectoryChanges
  <2>2. QED
    BY <1>1, <1>7, <2>1
<1>11. Agrees(disk', given', entries', known')
  <2>1. PICK no \in BOOLEAN : no = FALSE
    BY Zenon
  <2>2. MayTell(w.device, w.id, 0, no)
    BY <1>1, <2>1
  <2>3. 0 \in 0 .. Size /\ 0 <= Len(disk'[w.id].data)
    BY <1>6, <1>8, SizeIsNat
  <2>4. Agrees(disk', given, entries, known')
    BY <1>3, <1>4, <1>10, <2>1, <2>2, <2>3, MayLearn
  <2>5. QED
    BY <1>1, <2>4
<1>12. OneAtWork' /\ working' = {}
  BY <1>1, <1>2, Ended DEF upload, OneAtWork
<1>13. Broken(disk', torn', working')
  BY <1>1, <1>2, <1>6, <1>8, <1>12 DEF Broken
<1>14. Ables(disk') = A \cup {w.id} /\ w.id \notin A /\ A \in SUBSET Id /\ S \in SUBSET Id
  BY <1>2, <1>4, <1>6, <1>8 DEF Ables, Remembers
<1>15. Fits(Ables(disk'))
  BY <1>3, <1>4, <1>14, OneMore
<1>16. Remembers'
  <2>1. CASE Live(w)
    <3>1. router # 0 /\ ~unavailable
      BY <1>2, <2>1, AtWork
    <3>2. /\ sessions' = [i \in S \cup {w.id} |-> i # w.id /\ sessions[i]]
          /\ reserved' = reserved + Size
      BY <2>1 DEF Created
    <3>3. DOMAIN sessions' = S \cup {w.id} /\ \A i \in S : sessions'[i] = sessions[i]
      BY <1>2, <1>3, <3>2 DEF Remembers
    <3>4. sessions'[w.id] = FALSE
      BY <3>2
    <3>5. reserved' = Size * Cardinality(DOMAIN sessions') /\ Fits(DOMAIN sessions')
      BY <1>2, <1>3, <1>4, <1>14, <3>1, <3>2, <3>3, OneMore DEF Remembers
    <3>6. \A i \in DOMAIN sessions' : i <= given /\ sessions'[i] \in BOOLEAN
      BY <1>2, <1>4, <3>3, <3>4 DEF Remembers
    <3>7. \A i \in DOMAIN sessions' : sessions'[i] => disk'[i].manifest = "completed"
      BY <1>2, <1>3, <1>8, <3>3, <3>4 DEF Remembers
    <3>8. Ables(disk') \subseteq DOMAIN sessions'
      BY <1>2, <1>14, <3>1, <3>3 DEF Remembers
    <3>9. QED
      BY <1>1, <1>4, <1>14, <1>15, <3>1, <3>3, <3>5, <3>6, <3>7, <3>8 DEF Remembers, upload
  <2>2. CASE ~Live(w)
    <3>1. router = 0 /\ UNCHANGED <<sessions, reserved>>
      BY <1>2, <2>2, AtWork DEF Created
    <3>2. S = {}
      BY <1>2, <3>1 DEF Remembers
    <3>3. QED
      BY <1>1, <1>2, <1>15, <3>1, <3>2 DEF Remembers, upload
  <2>3. QED
    BY <2>1, <2>2
<1>17. Kept
  BY <1>3, <1>8 DEF Kept
<1>18. QED
  BY <1>11, <1>12, <1>13, <1>16, <1>17 DEF UploadInv

(* More units in their places.                                             *)
LEMMA LongerData ==
  ASSUME NEW s \in Seq(0 .. Size), NEW t \in Seq(0 .. Size), InPlace(s, 0),
         InPlace(t, Len(s)), Len(s) + Len(t) <= Size
  PROVE  /\ s \o t \in Seq(0 .. Size) /\ InPlace(s \o t, 0)
         /\ Len(s \o t) = Len(s) + Len(t) /\ Len(s \o t) <= Size /\ Len(s) <= Len(s \o t)
<1>1. /\ s \o t \in Seq(0 .. Size) /\ Len(s \o t) = Len(s) + Len(t)
      /\ Len(s) \in Nat /\ Len(t) \in Nat
  OBVIOUS
<1>2. ASSUME NEW n \in 1 .. Len(s \o t) PROVE (s \o t)[n] \in {0, 0 + n}
  <2>1. CASE n <= Len(s)
    <3>1. (s \o t)[n] = s[n] /\ n \in 1 .. Len(s)
      BY <1>1, <2>1
    <3>2. QED
      BY <3>1 DEF InPlace
  <2>2. CASE n > Len(s)
    <3>1. (s \o t)[n] = t[n - Len(s)] /\ n - Len(s) \in 1 .. Len(t)
      BY <1>1, <2>2
    <3>2. t[n - Len(s)] \in {0, Len(s) + (n - Len(s))}
      BY <3>1 DEF InPlace
    <3>3. Len(s) + (n - Len(s)) = 0 + n
      BY <1>1
    <3>4. QED
      BY <3>1, <3>2, <3>3
  <2>3. QED
    BY <1>1, <2>1, <2>2
<1>3. QED
  BY <1>1, <1>2, SizeIsNat DEF InPlace

(* The same of a directory.                                                *)
LEMMA LongerDirectory ==
  ASSUME NEW e, Whole(e), e.dir, ~e.bin, NEW t \in Seq(0 .. Size), InPlace(t, Len(e.data)),
         Len(e.data) + Len(t) <= Size,
         NEW r \in Directory, r.dir, ~r.bin, r.manifest = e.manifest, r.part <=> e.part,
         r.data = e.data \o t
  PROVE  /\ Whole(r) /\ Len(e.data) <= Len(r.data) /\ Len(r.data) \in 0 .. Size
         /\ (Able(r) <=> Able(e))
<1>1. e.data \in Seq(0 .. Size) /\ InPlace(e.data, 0)
  BY DEF Whole, Directory
<1>2. /\ InPlace(e.data \o t, 0)
      /\ Len(e.data \o t) = Len(e.data) + Len(t) /\ Len(e.data \o t) <= Size
      /\ Len(e.data) <= Len(e.data \o t) /\ Len(e.data \o t) \in Nat
  BY <1>1, LongerData
<1>3. Whole(r)
  BY <1>2 DEF Whole
<1>4. Able(r) <=> Able(e)
  BY <1>2 DEF Able, Whole
<1>5. QED
  BY <1>2, <1>3, <1>4, SizeIsNat

(* The fields of such a directory.                                         *)
LEMMA LongerFields ==
  ASSUME NEW e \in Directory, NEW t \in Seq(0 .. Size), NEW r,
         r = [e EXCEPT !.data = @ \o t]
  PROVE  /\ r \in Directory /\ (r.dir <=> e.dir) /\ (r.bin <=> e.bin) /\ r.manifest = e.manifest
         /\ (r.part <=> e.part) /\ r.device = e.device /\ r.data = e.data \o t
<1>1. e.data \o t \in Seq(0 .. Size)
  BY DEF Directory
<1>2. QED
  BY <1>1 DEF Directory

(* The units that follow are appended in their places.                     *)
LEMMA AppendChunkKeeps ==
  ASSUME UploadInv, NEW w \in working, AppendChunk(w), UNCHANGED surface
  PROVE  UploadInv' /\ Kept
<1>1. /\ w.step = "patch" /\ disk' = [disk EXCEPT ![w.id].data = @ \o w.units]
      /\ MayTell(w.device, w.id, Len(disk'[w.id].data), FALSE) /\ Finish(w)
      /\ UNCHANGED <<memory, given, entries, torn>>
  BY DEF AppendChunk
<1>2. /\ Sound(w) /\ w \in WorkType /\ working = {w}
      /\ Agrees(disk, given, entries, known) /\ Broken(disk, torn, working)
      /\ Remembers /\ OneAtWork
      /\ given \in Nat /\ given \in 0 .. MaxIds /\ disk \in [Id -> Directory]
  BY OneDirectoryAtWork
<1>3. /\ w.device \in Device /\ known[w.device].id = w.id /\ w.id \in Id
      /\ disk[w.id].dir /\ ~disk[w.id].bin /\ InPlace(w.units, Len(disk[w.id].data))
      /\ Len(disk[w.id].data) + Len(w.units) <= Size /\ w.units \in Seq(0 .. Size)
  BY <1>1, <1>2 DEF Sound, WorkType, Offset
<1>4. w.id <= given /\ given <= given /\ Whole(disk[w.id])
  BY <1>2, <1>3, OneDirectoryAtWork
<1>5. PICK r : r = [disk[w.id] EXCEPT !.data = @ \o w.units]
  OBVIOUS
<1>6. /\ Whole(r) /\ r.dir /\ ~r.bin /\ r.manifest = disk[w.id].manifest
      /\ Len(disk[w.id].data) <= Len(r.data) /\ Len(r.data) \in 0 .. Size
      /\ (Able(r) <=> Able(disk[w.id]))
  <2>1. PICK e : e = disk[w.id]
    OBVIOUS
  <2>2. PICK t : t = w.units
    OBVIOUS
  <2>3. /\ Whole(e) /\ e.dir /\ ~e.bin /\ t \in Seq(0 .. Size) /\ InPlace(t, Len(e.data))
        /\ Len(e.data) + Len(t) <= Size /\ e \in Directory
    BY <1>2, <1>3, <1>4, <2>1, <2>2
  <2>4. r = [e EXCEPT !.data = @ \o t]
    BY <1>5, <2>1, <2>2
  <2>5. /\ r \in Directory /\ r.dir /\ ~r.bin /\ r.manifest = e.manifest
        /\ (r.part <=> e.part) /\ r.data = e.data \o t
    BY <2>3, <2>4, LongerFields
  <2>6. /\ Whole(r) /\ Len(e.data) <= Len(r.data) /\ Len(r.data) \in 0 .. Size
        /\ (Able(r) <=> Able(e))
    BY <2>3, <2>5, LongerDirectory
  <2>7. QED
    BY <2>1, <2>5, <2>6
<1>7. disk' = [disk EXCEPT ![w.id] = r]
  BY <1>1, <1>2, <1>3, <1>5
<1>8. disk'[w.id] = r /\ \A j \in Id : j # w.id => disk'[j] = disk[j]
  BY <1>2, <1>3, <1>7, OneDirectory
<1>9. \A d \in Device : known[d].id = w.id => known[d].offset <= Len(r.data)
  <2>1. ASSUME NEW d \in Device, known[d].id = w.id PROVE known[d].offset <= Len(r.data)
    <3>1. known[d] \in Knowledge /\ Told(disk, entries, known[d]) /\ w.id # 0
      BY <1>2, <1>3, SizeIsNat DEF Agrees, Id
    <3>2. known[d].offset <= Len(disk[w.id].data) /\ known[d].offset \in Nat
      BY <1>3, <2>1, <3>1, SizeIsNat DEF Told, Knowledge
    <3>3. Len(disk[w.id].data) \in Nat /\ Len(r.data) \in Nat
      BY <1>4, <1>6, SizeIsNat DEF Whole, Directory
    <3>4. QED
      BY <1>6, <3>2, <3>3
  <2>2. QED
    BY <2>1
<1>10. disk[w.id].manifest # "completed"
  BY <1>3, <1>4 DEF Whole
<1>11. Agrees(disk', given, entries, known)
  <2>1. Agrees([disk EXCEPT ![w.id] = r], given, entries, known)
    BY <1>2, <1>3, <1>4, <1>6, <1>9, <1>10, DirectoryChanges
  <2>2. QED
    BY <1>7, <2>1
<1>12. Agrees(disk', given', entries', known')
  <2>1. PICK no \in BOOLEAN : no = FALSE
    BY Zenon
  <2>2. PICK n : n = Len(r.data)
    OBVIOUS
  <2>3. MayTell(w.device, w.id, n, no) /\ n \in 0 .. Size
    BY <1>1, <1>6, <1>8, <2>1, <2>2
  <2>4. n <= Len(disk'[w.id].data)
    BY <1>8, <2>2, <2>3, SizeIsNat
  <2>5. Agrees(disk', given, entries, known')
    BY <1>3, <1>4, <1>11, <2>1, <2>3, <2>4, MayLearn
  <2>6. QED
    BY <1>1, <2>5
<1>13. OneAtWork' /\ working' = {}
  BY <1>1, <1>2, Ended DEF memory, upload, OneAtWork
<1>14. ~Making(w) /\ Ables(disk') = Ables(disk)
  BY <1>1, <1>6, <1>8 DEF Making, Ables
<1>15. Broken(disk', torn', working')
  BY <1>1, <1>2, <1>3, <1>6, <1>8, <1>13, <1>14 DEF Broken
<1>16. Remembers'
  BY <1>1, <1>2, <1>4, <1>6, <1>8, <1>14, MemoryKept
<1>17. Kept
  BY <1>3, <1>8 DEF Kept
<1>18. QED
  BY <1>12, <1>13, <1>15, <1>16, <1>17 DEF UploadInv

(* A whole payload gets its final name.                                    *)
LEMMA LinkedDirectory ==
  ASSUME NEW e, Whole(e), e.dir, e.part, e.data = File, e.device \in Device,
         NEW r, r = [e EXCEPT !.bin = TRUE]
  PROVE  /\ Whole(r) /\ r.dir /\ r.bin /\ r.manifest = e.manifest /\ r.device = e.device
         /\ r.data = File /\ (Able(r) <=> Able(e))
<1>1. e \in Directory
  BY DEF Whole
<1>2. /\ r \in Directory /\ r.dir /\ r.bin /\ r.manifest = e.manifest /\ r.device = e.device
      /\ r.data = File
  BY <1>1 DEF Directory
<1>3. QED
  BY <1>1, <1>2, TheFile, SizeIsNat DEF Whole, Able

(* Only the announced file is published.                                   *)
LEMMA LinkKeeps ==
  ASSUME UploadInv, NEW w \in working, Link(w), UNCHANGED surface
  PROVE  UploadInv' /\ Kept
<1>1. /\ w.step = "link" /\ disk[w.id].part /\ disk' = [disk EXCEPT ![w.id].bin = TRUE]
      /\ Becomes(w, [w EXCEPT !.step = "store"])
      /\ UNCHANGED <<memory, given, entries, known, torn>>
  BY DEF Link, Then
<1>2. /\ Sound(w) /\ w \in WorkType /\ working = {w}
      /\ Agrees(disk, given, entries, known) /\ Broken(disk, torn, working)
      /\ Remembers /\ OneAtWork
      /\ given \in Nat /\ given \in 0 .. MaxIds /\ disk \in [Id -> Directory]
  BY OneDirectoryAtWork
<1>3. /\ w.device \in Device /\ known[w.device].id = w.id /\ w.id \in Id
      /\ disk[w.id].dir /\ disk[w.id].data = File /\ disk[w.id].device = w.device
      /\ Fits(Ables(disk) \cup {w.id}) /\ (router # 0 => w.id \in DOMAIN sessions)
      /\ w.doomed = 0 /\ w.expire = {}
  BY <1>1, <1>2 DEF Sound, Publishing
<1>4. w.id <= given /\ given <= given /\ Whole(disk[w.id])
  BY <1>2, <1>3, OneDirectoryAtWork
<1>5. PICK r : r = [disk[w.id] EXCEPT !.bin = TRUE]
  OBVIOUS
<1>6. /\ Whole(r) /\ r.dir /\ r.bin /\ r.manifest = disk[w.id].manifest /\ r.device = w.device
      /\ r.data = File /\ (Able(r) <=> Able(disk[w.id]))
  BY <1>1, <1>3, <1>4, <1>5, LinkedDirectory
<1>7. disk' = [disk EXCEPT ![w.id] = r]
  BY <1>1, <1>2, <1>3, <1>5
<1>8. disk'[w.id] = r /\ \A j \in Id : j # w.id => disk'[j] = disk[j]
  BY <1>2, <1>3, <1>7, OneDirectory
<1>9. \A d \in Device : known[d].id = w.id => known[d].offset <= Len(r.data)
  BY <1>2, <1>3, <1>6, SizeIsNat DEF Agrees, Told, Id
<1>10. r.manifest = "completed" => w.id \in entries
  BY <1>2, <1>3, <1>6 DEF Agrees
<1>11. Agrees(disk', given', entries', known')
  <2>1. Agrees([disk EXCEPT ![w.id] = r], given, entries, known)
    BY <1>2, <1>3, <1>4, <1>6, <1>9, <1>10, DirectoryChanges
  <2>2. QED
    BY <1>1, <1>7, <2>1
<1>12. PICK v : v = [w EXCEPT !.step = "store"]
  OBVIOUS
<1>13. /\ v \in WorkType /\ v.router = w.router /\ v.kind = w.kind /\ v.device = w.device
       /\ v.id = w.id
       /\ v.step = "store" /\ v.doomed = 0 /\ v.expire = {}
  BY <1>2, <1>3, <1>12 DEF WorkType
<1>14. Ables(disk') = Ables(disk) /\ ~Making(w)
  BY <1>1, <1>6, <1>8 DEF Ables, Making
<1>15. Sound(v)'
  BY <1>1, <1>2, <1>3, <1>6, <1>8, <1>13, <1>14
    DEF Sound, memory, upload, Placing, Publishing, Finding
<1>16. OneAtWork' /\ working' = {v}
  BY <1>1, <1>2, <1>12, <1>13, <1>15, GoesOn DEF memory
<1>17. Broken(disk', torn', working')
  BY <1>1, <1>2, <1>3, <1>6, <1>8, <1>14 DEF Broken
<1>18. Remembers'
  BY <1>1, <1>2, <1>4, <1>6, <1>8, <1>14, MemoryKept
<1>19. Kept
  BY <1>6, <1>8 DEF Kept
<1>20. QED
  BY <1>11, <1>16, <1>17, <1>18, <1>19 DEF UploadInv

(* Only what is published gets an entry.                                   *)
LEMMA StoreEntryKeeps ==
  ASSUME UploadInv, NEW w \in working, StoreEntry(w), UNCHANGED surface
  PROVE  UploadInv' /\ Kept
<1>1. /\ w.step = "store" /\ entries' = entries \cup {w.id}
      /\ Becomes(w, [w EXCEPT !.step = "completed"])
      /\ UNCHANGED <<memory, disk, given, known, torn>>
  BY DEF StoreEntry, Then
<1>2. /\ Sound(w) /\ w \in WorkType /\ working = {w}
      /\ Agrees(disk, given, entries, known) /\ Broken(disk, torn, working)
      /\ Remembers /\ OneAtWork /\ given \in Nat
  BY OneDirectoryAtWork
<1>3. /\ w.id \in Id /\ disk[w.id].bin /\ w.doomed = 0 /\ w.expire = {} /\ given <= given
  BY <1>1, <1>2 DEF Sound, Publishing
<1>4. Agrees(disk', given', entries', known')
  BY <1>1, <1>2, <1>3, EntryIsStored
<1>5. PICK v : v = [w EXCEPT !.step = "completed"]
  OBVIOUS
<1>6. /\ v \in WorkType /\ v.router = w.router /\ v.kind = w.kind /\ v.device = w.device
      /\ v.id = w.id
      /\ v.step = "completed" /\ v.doomed = 0 /\ v.expire = {}
  BY <1>2, <1>3, <1>5 DEF WorkType
<1>7. Sound(v)'
  BY <1>1, <1>2, <1>3, <1>6 DEF Sound, memory, upload, Placing, Publishing, Finding
<1>8. OneAtWork' /\ working' = {v}
  BY <1>1, <1>2, <1>5, <1>6, <1>7, GoesOn DEF memory
<1>9. ~Making(w) /\ Broken(disk', torn', working')
  BY <1>1, <1>2 DEF Broken, Making
<1>10. Remembers'
  BY <1>1, <1>2, <1>3, MemoryKept
<1>11. QED
  BY <1>1, <1>4, <1>8, <1>9, <1>10 DEF UploadInv, Kept

(* A published payload is recorded as complete.                            *)
LEMMA RecordedDirectory ==
  ASSUME NEW e, Whole(e), e.dir, e.bin, e.data = File,
         NEW r, r = [e EXCEPT !.manifest = "completed", !.part = FALSE]
  PROVE  /\ Whole(r) /\ r.dir /\ r.bin /\ r.manifest = "completed" /\ r.device = e.device
         /\ r.data = File /\ Able(r)
<1>1. e \in Directory
  BY DEF Whole
<1>2. /\ r \in Directory /\ r.dir /\ r.bin /\ r.manifest = "completed" /\ r.device = e.device
      /\ r.data = File
  BY <1>1 DEF Directory
<1>3. QED
  BY <1>1, <1>2, TheFile, SizeIsNat DEF Whole, Able

(* Only what has its entry is recorded as complete.                        *)
LEMMA CompletedKeeps ==
  ASSUME UploadInv, NEW w \in working, Completed(w), UNCHANGED surface
  PROVE  UploadInv' /\ Kept
<1>1. /\ w.step = "completed"
      /\ disk' = [disk EXCEPT ![w.id].manifest = "completed", ![w.id].part = FALSE]
      /\ sessions' = IF Live(w) THEN [sessions EXCEPT ![w.id] = TRUE] ELSE sessions
      /\ MayTell(w.device, w.id, Size, TRUE) /\ Finish(w)
      /\ UNCHANGED <<upload, reserved, given, entries, torn>>
  BY DEF Completed
<1>2. /\ Sound(w) /\ w \in WorkType /\ working = {w}
      /\ Agrees(disk, given, entries, known) /\ Broken(disk, torn, working)
      /\ Remembers /\ OneAtWork
      /\ given \in Nat /\ given \in 0 .. MaxIds /\ disk \in [Id -> Directory]
  BY OneDirectoryAtWork
<1>3. /\ w.device \in Device /\ known[w.device].id = w.id /\ w.id \in Id
      /\ disk[w.id].dir /\ disk[w.id].bin /\ disk[w.id].data = File
      /\ disk[w.id].device = w.device /\ w.id \in entries
      /\ Fits(Ables(disk) \cup {w.id}) /\ (router # 0 => w.id \in DOMAIN sessions)
  BY <1>1, <1>2 DEF Sound, Publishing
<1>4. w.id <= given /\ given <= given /\ Whole(disk[w.id])
  BY <1>2, <1>3, OneDirectoryAtWork
<1>5. PICK r : r = [disk[w.id] EXCEPT !.manifest = "completed", !.part = FALSE]
  OBVIOUS
<1>6. /\ Whole(r) /\ r.dir /\ r.bin /\ r.manifest = "completed" /\ r.device = w.device
      /\ r.data = File /\ Able(r)
  BY <1>3, <1>4, <1>5, RecordedDirectory
<1>7. disk' = [disk EXCEPT ![w.id] = r]
  BY <1>1, <1>2, <1>3, <1>5
<1>8. disk'[w.id] = r /\ \A j \in Id : j # w.id => disk'[j] = disk[j]
  BY <1>2, <1>3, <1>7, OneDirectory
<1>9. \A d \in Device : known[d].id = w.id => known[d].offset <= Len(r.data)
  BY <1>2, <1>3, <1>6, SizeIsNat DEF Agrees, Told, Id
<1>10. Agrees(disk', given, entries, known)
  <2>1. Agrees([disk EXCEPT ![w.id] = r], given, entries, known)
    BY <1>2, <1>3, <1>4, <1>6, <1>9, DirectoryChanges
  <2>2. QED
    BY <1>7, <2>1
<1>11. Agrees(disk', given', entries', known')
  <2>1. PICK yes \in BOOLEAN : yes = TRUE
    OBVIOUS
  <2>2. MayTell(w.device, w.id, Size, yes)
    BY <1>1, <2>1, Zenon
  <2>7. Size \in 0 .. Size
    BY SizeIsNat
  <2>3. Size <= Len(disk'[w.id].data)
    BY <1>6, <1>8, TheFile, SizeIsNat
  <2>4. w.id \in entries /\ disk'[w.id].manifest = "completed"
    BY <1>3, <1>6, <1>8
  <2>5. Agrees(disk', given, entries, known')
    BY <1>3, <1>4, <1>10, <2>2, <2>7, <2>3, <2>4, MayLearn
  <2>6. QED
    BY <1>1, <2>5
<1>12. OneAtWork' /\ working' = {}
  BY <1>1, <1>2, Ended DEF upload, OneAtWork
<1>13. ~Making(w) /\ Broken(disk', torn', working')
  BY <1>1, <1>2, <1>3, <1>6, <1>8 DEF Broken, Making
<1>14. Ables(disk') = Ables(disk) \cup {w.id}
  BY <1>3, <1>6, <1>8 DEF Ables
<1>15. /\ DOMAIN sessions' = DOMAIN sessions
       /\ \A i \in DOMAIN sessions :
              sessions'[i] = sessions[i] \/ (i = w.id /\ sessions'[i] = TRUE)
  BY <1>1
<1>16. /\ \A i \in DOMAIN sessions' : i <= given /\ sessions'[i] \in BOOLEAN
       /\ \A i \in DOMAIN sessions' : sessions'[i] => disk'[i].manifest = "completed"
  BY <1>2, <1>6, <1>8, <1>15 DEF Remembers
<1>17. Remembers'
  BY <1>1, <1>2, <1>3, <1>14, <1>15, <1>16 DEF Remembers, upload
<1>18. Kept
  BY <1>6, <1>8 DEF Kept
<1>19. QED
  BY <1>11, <1>12, <1>13, <1>17, <1>18 DEF UploadInv

(* All steps of a request.                                                 *)
LEMMA UploadStepKeeps ==
  ASSUME UploadInv, NEW w \in working, UploadStep(w), UNCHANGED surface
  PROVE  UploadInv' /\ Kept
BY ExamineKeeps, ExpireKeeps, LoadedKeeps, FindKeeps, MakeDirKeeps, MakePartKeeps, CreatedKeeps,
  AppendChunkKeeps, LinkKeeps, StoreEntryKeeps, CompletedKeeps, RemoveKeeps DEF UploadStep

-----------------------------------------------------------------------------
(* Uploads: requests that are broken off *)

(* A directory with nothing in it.                                         *)
LEMMA NothingThere ==
  ASSUME NEW r \in Directory, ~r.dir, r.data = <<>>, ~r.part, ~r.bin, r.manifest = "none",
         r.device = 0
  PROVE  r = NoDir
BY DEF Directory, NoDir

(* What is left of a removal.                                              *)
LEMMA PartlyRemoved ==
  ASSUME NEW e, Whole(e), ~e.bin, NEW r,
         \E p \in {FALSE, e.part}, m \in {"none", e.manifest} :
           r = [e EXCEPT !.part = p, !.manifest = m]
  PROVE  /\ Whole(r) /\ ~r.bin /\ r.device = e.device /\ r.manifest # "completed"
         /\ (r.dir <=> e.dir) /\ r.data = e.data /\ (Able(r) => Able(e))
<1>0. PICK p \in {FALSE, e.part}, m \in {"none", e.manifest} :
        r = [e EXCEPT !.part = p, !.manifest = m]
  OBVIOUS
<1>1. e \in Directory /\ e.manifest # "completed"
  BY DEF Whole
<1>2. /\ r \in Directory /\ ~r.bin /\ r.device = e.device /\ (r.dir <=> e.dir)
      /\ r.data = e.data /\ r.manifest = m /\ (r.part => e.part)
  <2>1. p \in BOOLEAN /\ (p => e.part)
    BY <1>1 DEF Directory
  <2>2. m \in {"none", "open", "completed"}
    BY <1>1 DEF Directory
  <2>3. QED
    BY <1>0, <1>1, <2>1, <2>2 DEF Directory
<1>3. r.manifest # "completed" /\ (r.manifest # "none" => e.manifest # "none")
  BY <1>1, <1>2
<1>4. ~r.dir => r = NoDir
  <2>1. ASSUME ~r.dir PROVE r = NoDir
    <3>1. e = NoDir
      BY <1>2, <2>1 DEF Whole
    <3>2. r.data = <<>> /\ ~r.part /\ r.manifest = "none" /\ r.device = 0
      BY <1>2, <3>1 DEF NoDir
    <3>3. QED
      BY <1>2, <2>1, <3>2, NothingThere
  <2>2. QED
    BY <2>1
<1>5. Whole(r)
  BY <1>2, <1>3, <1>4 DEF Whole
<1>6. Able(r) => Able(e)
  BY <1>1, <1>2, <1>3 DEF Able
<1>7. QED
  BY <1>2, <1>3, <1>5, <1>6

(* Part of a chunk.                                                        *)
LEMMA PartOfChunk ==
  ASSUME NEW t \in Seq(0 .. Size), NEW k \in Nat, InPlace(t, k), k + Len(t) <= Size,
         NEW n \in 0 .. Len(t), NEW s, s = SubSeq(t, 1, n)
  PROVE  s \in Seq(0 .. Size) /\ InPlace(s, k) /\ k + Len(s) <= Size
<1>1. /\ s \in Seq(0 .. Size) /\ Len(s) = n /\ \A j \in 1 .. n : s[j] = t[j]
      /\ n \in Nat /\ Len(t) \in Nat /\ n <= Len(t)
  <2>1. /\ n \in Int /\ 1 \in Int /\ n - 1 + 1 = n /\ n \in Nat
        /\ \A j \in 1 .. n : t[j] \in 0 .. Size
    <3>1. n \in Nat /\ Len(t) \in Nat /\ n <= Len(t)
      OBVIOUS
    <3>2. \A j \in 1 .. n : j \in 1 .. Len(t)
      BY <3>1
    <3>3. \A j \in 1 .. Len(t) : t[j] \in 0 .. Size
      BY ElementOfSeq
    <3>4. QED
      BY <3>1, <3>2, <3>3
  <2>2. /\ s \in Seq(0 .. Size) /\ Len(s) = IF 1 <= n THEN n - 1 + 1 ELSE 0
        /\ \A j \in 1 .. n - 1 + 1 : s[j] = t[1 + j - 1]
    BY <2>1, SubSeqProperties
  <2>3. \A j \in 1 .. n : 1 + j - 1 = j
    BY <2>1
  <2>4. QED
    BY <2>1, <2>2, <2>3
<1>2. \A j \in 1 .. n : j \in 1 .. Len(t)
  BY <1>1
<1>3. InPlace(s, k)
  BY <1>1, <1>2 DEF InPlace
<1>4. QED
  BY <1>1, <1>3, SizeIsNat

(* What is left of any request is a directory that lost nothing promised.  *)
Leaves(e, r, c) ==
  /\ Whole(r) /\ (r.bin <=> e.bin) /\ r.device = e.device
  /\ (r.manifest = "completed") <=> (e.manifest = "completed")
  /\ (r.dir <=> e.dir) /\ Len(e.data) <= Len(r.data)
  /\ Able(r) => Able(e)
  /\ r.dir /\ ~Able(r) => ~Able(e) \/ c

(* Whatever was at work, what is left of its directory is sound.           *)
LEMMA ResidueIsSound ==
  ASSUME UploadInv, NEW w \in working, Target(w) # 0, NEW r \in Residue(w)
  PROVE  Target(w) \in Id /\ Leaves(disk[Target(w)], r, Target(w) \in Tears(w))
<1> DEFINE i == Target(w)
<1>1. /\ Sound(w) /\ w \in WorkType /\ disk \in [Id -> Directory]
  BY OneDirectoryAtWork
<1>2. i \in Id
  BY <1>1 DEF Target, WorkType
<1>3. PICK e : e = disk[i]
  OBVIOUS
<1>4. Whole(e) /\ e \in Directory /\ Len(e.data) \in Nat
  BY <1>2, <1>3, OneDirectoryAtWork DEF Whole, Directory
<1>5. CASE Removing(w)
  <2>1. ~e.bin
    BY <1>1, <1>3, <1>5 DEF Removing, Target, Sound
  <2>2. \E p \in {FALSE, e.part}, m \in {"none", e.manifest} :
          r = [e EXCEPT !.part = p, !.manifest = m]
    BY <1>3, <1>5 DEF Residue
  <2>3. /\ Whole(r) /\ ~r.bin /\ r.device = e.device /\ r.manifest # "completed"
        /\ (r.dir <=> e.dir) /\ r.data = e.data /\ (Able(r) => Able(e))
    BY <1>4, <2>1, <2>2, PartlyRemoved
  <2>4. e.manifest # "completed" /\ i \in Tears(w)
    BY <1>4, <1>5, <2>1 DEF Whole, Tears
  <2>5. QED
    BY <1>2, <1>3, <1>4, <2>1, <2>3, <2>4 DEF Leaves
<1>6. CASE ~Removing(w) /\ w.step = "patch"
  <2>1. i = w.id /\ ~e.bin /\ e.dir
    BY <1>1, <1>3, <1>6 DEF Removing, Target, Sound
  <2>2. PICK t : t = w.units
    OBVIOUS
  <2>3. t \in Seq(0 .. Size) /\ InPlace(t, Len(e.data)) /\ Len(e.data) + Len(t) <= Size
    BY <1>1, <1>3, <1>6, <2>1, <2>2 DEF Sound, WorkType, Offset
  <2>4. PICK n \in 0 .. Len(t) : r = [e EXCEPT !.data = @ \o SubSeq(t, 1, n)]
    <3>1. Residue(w) = {[e EXCEPT !.data = @ \o SubSeq(t, 1, n)] : n \in 0 .. Len(t)}
      BY <1>3, <1>6, <2>2 DEF Residue
    <3>2. QED
      BY <3>1
  <2>5. PICK s : s = SubSeq(t, 1, n)
    OBVIOUS
  <2>6. s \in Seq(0 .. Size) /\ InPlace(s, Len(e.data)) /\ Len(e.data) + Len(s) <= Size
    BY <1>4, <2>3, <2>4, <2>5, PartOfChunk
  <2>7. e \in Directory /\ s \in Seq(0 .. Size) /\ r = [e EXCEPT !.data = @ \o s]
    BY <1>4, <2>4, <2>5, <2>6
  <2>8. /\ r \in Directory /\ r.dir /\ ~r.bin /\ r.manifest = e.manifest
        /\ (r.part <=> e.part) /\ r.data = e.data \o s /\ r.device = e.device
    <3>1. /\ r \in Directory /\ (r.dir <=> e.dir) /\ (r.bin <=> e.bin) /\ r.manifest = e.manifest
          /\ (r.part <=> e.part) /\ r.device = e.device /\ r.data = e.data \o s
      BY <2>7, LongerFields
    <3>2. QED
      BY <2>1, <3>1
  <2>9. /\ Whole(r) /\ Len(e.data) <= Len(r.data) /\ (Able(r) <=> Able(e))
    BY <1>4, <2>1, <2>6, <2>8, LongerDirectory
  <2>10. QED
    BY <1>2, <1>3, <2>1, <2>8, <2>9 DEF Leaves
<1>7. CASE ~Removing(w) /\ w.step # "patch"
  <2>1. r = e
    BY <1>3, <1>7 DEF Residue
  <2>2. QED
    BY <1>2, <1>3, <1>4, <2>1 DEF Leaves
<1>8. QED
  BY <1>5, <1>6, <1>7

(* A directory that lost nothing promised keeps the disk in agreement.     *)
LEMMA LeavesAgree ==
  ASSUME Agrees(disk, given, entries, known), disk \in [Id -> Directory], given \in Nat,
         NEW i \in Id, NEW r, NEW c, Leaves(disk[i], r, c), disk' = [disk EXCEPT ![i] = r],
         UNCHANGED <<given, entries, known>>
  PROVE  /\ Agrees(disk', given', entries', known') /\ Kept
         /\ Ables(disk') \subseteq Ables(disk)
         /\ \A j \in Id : disk[j].manifest = "completed" => disk'[j].manifest = "completed"
         /\ \A j \in Id : disk'[j].dir /\ ~Able(disk'[j]) =>
              \/ disk[j].dir /\ ~Able(disk[j])
              \/ j = i /\ c
<1>1. disk'[i] = r /\ \A j \in Id : j # i => disk'[j] = disk[j]
  BY OneDirectory
<1>2. CASE i <= given
  <2>1. given \in 0 .. MaxIds /\ given <= given
    BY DEF Agrees
  <2>2. /\ Whole(r) /\ (r.bin <=> disk[i].bin) /\ r.device = disk[i].device
        /\ (r.manifest = "completed" <=> disk[i].manifest = "completed")
        /\ (r.dir <=> disk[i].dir) /\ Len(disk[i].data) <= Len(r.data)
    BY DEF Leaves
  <2>3. ASSUME NEW d \in Device, known[d].id = i, r.dir
        PROVE  known[d].offset <= Len(r.data)
    <3>1. known[d] \in Knowledge /\ Told(disk, entries, known[d]) /\ i # 0 /\ Whole(disk[i])
      BY SizeIsNat DEF Agrees, Id
    <3>2. disk[i].dir
      BY <2>2, <2>3
    <3>3. known[d].offset <= Len(disk[i].data) /\ known[d].offset \in Nat
      BY <2>3, <3>1, <3>2, SizeIsNat DEF Told, Knowledge
    <3>4. Len(disk[i].data) \in Nat /\ Len(r.data) \in Nat
      BY <2>2, <3>1 DEF Whole, Directory
    <3>5. QED
      BY <2>2, <3>3, <3>4
  <2>4. r.bin => known[r.device].id = i
    BY <2>2 DEF Agrees
  <2>5. r.manifest = "completed" => i \in entries
    BY <2>2 DEF Agrees
  <2>6. Agrees([disk EXCEPT ![i] = r], given, entries, known)
    BY <1>2, <2>1, <2>2, <2>3, <2>4, <2>5, DirectoryChanges
  <2>7. Agrees(disk', given', entries', known')
    BY <2>6
  <2>8. QED
    BY <1>1, <2>2, <2>7 DEF Kept, Ables, Leaves
<1>3. CASE ~(i <= given)
  <2>1. disk[i] = NoDir
    BY <1>3, SizeIsNat DEF Agrees, Id
  <2>2. r = NoDir
    BY <2>1 DEF Leaves, Whole, NoDir
  <2>3. disk' = disk
    BY <2>1, <2>2
  <2>4. QED
    BY <2>3 DEF Kept
<1>4. QED
  BY <1>2, <1>3

(* Whoever is making a directory is at that one.                           *)
LEMMA MakerIsAtIt ==
  ASSUME OneAtWork, NEW w \in working, Making(w)
  PROVE  Target(w) = w.id /\ w.id # 0 /\ Tears(w) = {w.id} /\ ~disk[w.id].bin
         /\ disk[w.id].manifest = "none" /\ w.id \in Id /\ w.id <= given
<1>1. Sound(w) /\ w \in WorkType /\ w.step \in {"part", "manifest"}
  BY AtWork DEF Making
<1>2. w.doomed = 0 /\ w.id # 0 /\ w.id \in Id /\ w.id \in 1 .. given
  BY <1>1 DEF Sound, WorkType
<1>3. QED
  BY <1>1, <1>2 DEF Target, Tears, Making, Sound

(* A request that has no session yet works on no directory.                *)
LEMMA NothingIsMade ==
  ASSUME OneAtWork, NEW w \in working, Target(w) = 0
  PROVE  ~Making(w)
BY MakerIsAtIt

(* Nobody is at work.                                                      *)
LEMMA NobodyAtWork ==
  ASSUME routers' \in Nat, router' \in {0, routers'}, unavailable' \in BOOLEAN, working' = {}
  PROVE  OneAtWork'
BY DEF OneAtWork

(* The memory is empty.                                                    *)
LEMMA NothingRemembered ==
  ASSUME Remembers, sessions' = <<>>, reserved' = 0, router' = 0 \/ unavailable',
         Ables(disk') \subseteq Ables(disk)
  PROVE  Remembers'
<1>1. DOMAIN sessions' = {}
  OBVIOUS
<1>2. Fits(Ables(disk'))
  BY SmallerFits DEF Remembers, Ables
<1>3. Cardinality({}) = 0 /\ Size * 0 = 0
  BY FS_EmptySet, SizeIsNat
<1>4. QED
  BY <1>1, <1>2, <1>3 DEF Remembers

(* An effect on the disk that fails.                                       *)
LEMMA FailKeeps ==
  ASSUME UploadInv, NEW w \in working, Fail(w), UNCHANGED surface
  PROVE  UploadInv' /\ Kept
<1> DEFINE i == Target(w)
<1>1. /\ Finish(w) /\ UNCHANGED <<router, routers, given, entries, known>>
      /\ IF i = 0 THEN UNCHANGED <<disk, torn>>
         ELSE \E r \in Residue(w) \cup (IF Making(w) THEN {NoDir} ELSE {}) :
                /\ disk' = [disk EXCEPT ![i] = r]
                /\ torn' = IF r = NoDir THEN torn ELSE torn \cup Tears(w)
      /\ IF w.kind = "load" /\ Live(w)
         THEN unavailable' = TRUE /\ sessions' = <<>> /\ reserved' = 0
         ELSE UNCHANGED <<unavailable, sessions, reserved>>
  BY DEF Fail
<1>2. /\ Sound(w) /\ w \in WorkType /\ working = {w}
      /\ Agrees(disk, given, entries, known) /\ Broken(disk, torn, working)
      /\ Remembers /\ OneAtWork
      /\ given \in Nat /\ given \in 0 .. MaxIds /\ disk \in [Id -> Directory]
  BY OneDirectoryAtWork
<1>3. unavailable' \in BOOLEAN /\ routers' \in Nat /\ router' \in {0, routers'}
  BY <1>1, <1>2 DEF OneAtWork
<1>4. working' = {} /\ OneAtWork'
  BY <1>1, <1>2, <1>3, NobodyAtWork DEF Finish
<1>5. /\ Agrees(disk', given', entries', known') /\ Kept
      /\ Broken(disk', torn', working') /\ Ables(disk') \subseteq Ables(disk)
      /\ \A j \in Id : disk[j].manifest = "completed" => disk'[j].manifest = "completed"
  <2>1. CASE i = 0
    <3>1. ~Making(w)
      BY <1>2, <2>1, NothingIsMade
    <3>2. QED
      BY <1>1, <1>2, <2>1, <3>1 DEF Broken, Kept
  <2>2. ASSUME i # 0, NEW r \in Residue(w), disk' = [disk EXCEPT ![i] = r],
               torn' = IF r = NoDir THEN torn ELSE torn \cup Tears(w)
        PROVE  /\ Agrees(disk', given', entries', known') /\ Kept
               /\ Broken(disk', torn', working') /\ Ables(disk') \subseteq Ables(disk)
               /\ \A j \in Id : disk[j].manifest = "completed" =>
                                disk'[j].manifest = "completed"
    <3>1. i \in Id /\ Leaves(disk[i], r, i \in Tears(w))
      BY <2>2, ResidueIsSound
    <3>2. PICK c \in BOOLEAN : c <=> i \in Tears(w)
      BY Zenon
    <3>3. Leaves(disk[i], r, c)
      BY <3>1, <3>2 DEF Leaves
    <3>4. /\ Agrees(disk', given', entries', known') /\ Kept
          /\ Ables(disk') \subseteq Ables(disk)
          /\ \A j \in Id : disk[j].manifest = "completed" => disk'[j].manifest = "completed"
          /\ \A j \in Id : disk'[j].dir /\ ~Able(disk'[j]) =>
               \/ disk[j].dir /\ ~Able(disk[j])
               \/ j = i /\ c
      BY <1>1, <1>2, <2>2, <3>1, <3>3, LeavesAgree
    <3>5. disk'[i] = r /\ ~NoDir.dir
      BY <1>2, <2>2, <3>1, OneDirectory DEF NoDir
    <3>6. Broken(disk', torn', working')
      <4>1. ASSUME NEW j \in Id, disk'[j].dir, ~Able(disk'[j]) PROVE j \in torn'
        <5>1. CASE j = i
          <6>1. torn' = torn \cup Tears(w)
            BY <2>2, <3>5, <4>1, <5>1
          <6>2. CASE c
            BY <3>2, <5>1, <6>1, <6>2
          <6>3. CASE disk[j].dir /\ ~Able(disk[j])
            BY <1>2, <6>1, <6>3, MakerIsAtIt DEF Broken
          <6>4. QED
            BY <3>4, <4>1, <6>2, <6>3
        <5>2. CASE j # i
          <6>1. disk[j].dir /\ ~Able(disk[j])
            BY <3>4, <4>1, <5>2
          <6>2. ~(Making(w) /\ w.id = j)
            BY <1>2, <5>2, MakerIsAtIt
          <6>3. QED
            BY <1>2, <2>2, <6>1, <6>2 DEF Broken
        <5>3. QED
          BY <5>1, <5>2
      <4>2. QED
        BY <4>1 DEF Broken
    <3>7. QED
      BY <3>4, <3>6
  <2>3. ASSUME Making(w), disk' = [disk EXCEPT ![i] = NoDir], torn' = torn
        PROVE  /\ Agrees(disk', given', entries', known') /\ Kept
               /\ Broken(disk', torn', working') /\ Ables(disk') \subseteq Ables(disk)
               /\ \A j \in Id : disk[j].manifest = "completed" =>
                                disk'[j].manifest = "completed"
    <3>1. /\ i = w.id /\ ~disk[i].bin /\ disk[i].manifest = "none" /\ i \in Id /\ i <= given
          /\ given <= given
      BY <1>2, <2>3, MakerIsAtIt
    <3>2. /\ Whole(NoDir) /\ ~NoDir.bin /\ NoDir.manifest = "none" /\ ~NoDir.dir /\ ~Able(NoDir)
      <4>1. NoDir \in Directory
        BY DEF NoDir, Directory
      <4>2. QED
        BY <4>1, SizeIsNat DEF NoDir, Whole, InPlace, Able
    <3>3. Agrees([disk EXCEPT ![i] = NoDir], given, entries, known)
      BY <1>2, <3>1, <3>2, DirectoryChanges
    <3>4. disk'[i] = NoDir /\ \A j \in Id : j # i => disk'[j] = disk[j]
      BY <1>2, <2>3, <3>1, OneDirectory
    <3>5. Broken(disk', torn', working')
      BY <1>2, <2>3, <3>1, <3>2, <3>4 DEF Broken
    <3>6. QED
      BY <1>1, <2>3, <3>1, <3>2, <3>3, <3>4, <3>5 DEF Kept, Ables
  <2>4. QED
    BY <1>1, <2>1, <2>2, <2>3
<1>6. Remembers'
  <2>1. CASE w.kind = "load" /\ Live(w)
    BY <1>1, <1>2, <1>5, <2>1, NothingRemembered
  <2>2. CASE ~(w.kind = "load" /\ Live(w))
    <3>1. UNCHANGED memory /\ given <= given'
      BY <1>1, <1>2, <2>2 DEF memory, upload
    <3>2. QED
      BY <1>1, <1>2, <1>5, <3>1, MemoryKept
  <2>3. QED
    BY <2>1, <2>2
<1>7. QED
  BY <1>4, <1>5, <1>6 DEF UploadInv

(* Other bytes are as much in their places.                                *)
LEMMA ReadOtherKeeps ==
  ASSUME UploadInv, NEW w \in working, ReadOther(w), UNCHANGED surface
  PROVE  UploadInv' /\ Kept
<1>1. /\ w.kind = "patch" /\ UNCHANGED <<memory, disk, given, entries, known, torn>>
      /\ Becomes(w, [w EXCEPT !.units = [n \in DOMAIN w.units |-> 0]])
  BY DEF ReadOther
<1>2. Sound(w) /\ w \in WorkType /\ w.step = "patch" /\ ~Making(w)
  BY <1>1, AtWork DEF UploadInv, Sound, Making
<1>3. PICK t : t = w.units
  OBVIOUS
<1>4. PICK s : s = [n \in DOMAIN t |-> 0]
  OBVIOUS
<1>5. t \in Seq(0 .. Size) /\ 0 \in 0 .. Size
  BY <1>2, <1>3, SizeIsNat DEF WorkType
<1>6. s \in Seq(0 .. Size) /\ Len(s) = Len(t) /\ \A n \in 1 .. Len(s) : s[n] = 0
  <2>1. DOMAIN t = 1 .. Len(t) /\ Len(t) \in Nat
    BY <1>5
  <2>2. s = [n \in 1 .. Len(t) |-> 0]
    BY <1>4, <2>1
  <2>3. s \in [1 .. Len(t) -> 0 .. Size] /\ \A n \in 1 .. Len(t) : s[n] = 0
    BY <1>5, <2>2
  <2>4. s \in Seq(0 .. Size) /\ Len(s) = Len(t)
    BY <2>1, <2>2, <2>3
  <2>5. QED
    BY <2>3, <2>4
<1>7. PICK v : v = [w EXCEPT !.units = s]
  OBVIOUS
<1>8. /\ v \in WorkType /\ v.router = w.router /\ v.kind = w.kind /\ v.device = w.device
      /\ v.id = w.id /\ v.step = w.step /\ v.doomed = w.doomed /\ v.expire = w.expire
      /\ v.units = s
  BY <1>2, <1>6, <1>7 DEF WorkType
<1>9. InPlace(v.units, Offset(v.id))
  BY <1>6, <1>8 DEF InPlace
<1>10. Sound(v)
  BY <1>2, <1>3, <1>6, <1>8, <1>9 DEF Sound, Placing, Publishing, Finding
<1>11. Becomes(w, v)
  BY <1>1, <1>3, <1>4, <1>7
<1>12. QED
  BY <1>1, <1>2, <1>8, <1>10, <1>11, OnlyMoves DEF Unmoved

(* The process stops at any point.                                         *)
LEMMA CrashKeeps ==
  ASSUME UploadInv, Crash
  PROVE  UploadInv' /\ Kept
<1>1. /\ torn' = torn \cup UNION {Tears(w) : w \in working} /\ working' = {}
      /\ router' = 0 /\ sessions' = <<>> /\ reserved' = 0 /\ unavailable' = FALSE
      /\ UNCHANGED <<routers, surface, given, entries, known>>
  BY DEF Crash, StopRouter
<1>2. PICK left : /\ \A w \in working : Target(w) # 0 => left[w] \in Residue(w)
                  /\ disk' = [i \in Id |->
                       IF \E w \in working : Target(w) = i
                       THEN left[CHOOSE w \in working : Target(w) = i] ELSE disk[i]]
  BY DEF Crash
<1>3. /\ Agrees(disk, given, entries, known) /\ Broken(disk, torn, working)
      /\ Remembers /\ OneAtWork /\ given \in Nat /\ disk \in [Id -> Directory]
  BY SizeIsNat DEF UploadInv, Agrees
<1>4. unavailable' \in BOOLEAN
  BY <1>1, Zenon
<1>5. OneAtWork'
  BY <1>1, <1>3, <1>4, NobodyAtWork DEF OneAtWork
<1>6. CASE \A w \in working : Target(w) = 0
  <2>1. 0 \notin Id
    BY SizeIsNat DEF Id
  <2>2. disk' = disk
    BY <1>2, <1>3, <1>6, <2>1
  <2>3. \A w \in working : ~Making(w)
    BY <1>3, <1>6, NothingIsMade
  <2>4. Broken(disk', torn', working')
    BY <1>1, <1>3, <2>2, <2>3 DEF Broken
  <2>5. Ables(disk') \subseteq Ables(disk) /\ Kept /\ Agrees(disk', given', entries', known')
    BY <1>1, <1>3, <2>2 DEF Kept
  <2>6. QED
    BY <1>1, <1>3, <1>5, <2>4, <2>5, NothingRemembered DEF UploadInv
<1>7. ASSUME NEW w \in working, Target(w) # 0 PROVE UploadInv' /\ Kept
  <2> DEFINE i == Target(w)
             r == left[w]
  <2>1. working = {w}
    BY <1>3, AtWork
  <2>2. r \in Residue(w)
    BY <1>2, <1>7
  <2>3. i \in Id /\ Leaves(disk[i], r, i \in Tears(w))
    BY <1>7, <2>2, ResidueIsSound
  <2>4. (CHOOSE u \in working : Target(u) = i) = w
    BY <2>1
  <2>5. disk' = [j \in Id |-> IF j = i THEN r ELSE disk[j]]
    BY <1>2, <2>1, <2>4
  <2>6. disk' = [disk EXCEPT ![i] = r]
    BY <1>3, <2>5
  <2>7. PICK c \in BOOLEAN : c <=> i \in Tears(w)
    BY Zenon
  <2>8. Leaves(disk[i], r, c)
    BY <2>3, <2>7 DEF Leaves
  <2> HIDE DEF r
  <2>9. /\ Agrees(disk', given', entries', known') /\ Kept
        /\ Ables(disk') \subseteq Ables(disk)
        /\ \A j \in Id : disk'[j].dir /\ ~Able(disk'[j]) =>
             \/ disk[j].dir /\ ~Able(disk[j])
             \/ j = i /\ c
    BY <1>1, <1>3, <2>3, <2>6, <2>8, LeavesAgree
  <2>10. Tears(w) \subseteq torn' /\ torn \subseteq torn'
    BY <1>1
  <2>11. Broken(disk', torn', working')
    BY <1>3, <2>1, <2>7, <2>9, <2>10, MakerIsAtIt DEF Broken
  <2>12. QED
    BY <1>1, <1>3, <1>5, <2>9, <2>11, NothingRemembered DEF UploadInv
<1>8. QED
  BY <1>6, <1>7

-----------------------------------------------------------------------------
(* Uploads: requests begin *)

(* A request may begin while the router is up and nobody is at work.       *)
LEMMA MayBegin ==
  ASSUME UploadInv, router # 0, ~unavailable, Free
  PROVE  working = {} /\ router \in Nat \ {0} /\ router = routers
<1>1. router = routers /\ routers \in Nat
  BY DEF UploadInv, OneAtWork
<1>2. \A w \in working : w.router = router
  BY <1>1, AtWork DEF UploadInv
<1>3. QED
  BY <1>1, <1>2 DEF Free

(* What a device's phone may count on that has a session.                  *)
LEMMA OwnSession ==
  ASSUME UploadInv, NEW d \in Device, Owned(d, known[d].id)
  PROVE  LET i == known[d].id IN
         /\ i \in Id /\ i <= given /\ i \in DOMAIN sessions /\ disk[i].device = d
         /\ Whole(disk[i]) /\ sessions[i] \in BOOLEAN
         /\ (sessions[i] => disk[i].manifest = "completed")
<1>1. known[d].id \in DOMAIN sessions /\ disk[known[d].id].device = d
  BY DEF Owned
<1>2. /\ known[d].id \in Id /\ known[d].id <= given /\ sessions[known[d].id] \in BOOLEAN
      /\ (sessions[known[d].id] => disk[known[d].id].manifest = "completed")
  BY <1>1 DEF UploadInv, Remembers
<1>3. Whole(disk[known[d].id])
  BY <1>2 DEF UploadInv, Agrees
<1>4. QED
  BY <1>1, <1>2, <1>3

(* A request that is sound for its first step begins.                      *)
LEMMA BeginKeeps ==
  ASSUME UploadInv, router # 0, ~unavailable, Free, NEW v, Begin(v), v.router = router,
         Sound(v), UNCHANGED known, Asked, UNCHANGED surface
  PROVE  UploadInv' /\ Kept
<1>1. working = {} /\ router = routers
  BY MayBegin
<1>2. working' = {v} /\ UNCHANGED <<memory, disk, given, entries, torn, known, surface>>
  BY <1>1 DEF Begin, Asked
<1>3. Sound(v)'
  BY <1>2 DEF Sound, memory, upload, Offset
<1>4. OneAtWork'
  BY <1>1, <1>2, <1>3 DEF UploadInv, OneAtWork, memory, upload
<1>5. Broken(disk', torn', working')
  BY <1>1, <1>2 DEF UploadInv, Broken
<1>6. Remembers'
  BY <1>2, MemoryKept, SizeIsNat DEF UploadInv, Agrees
<1>7. QED
  BY <1>2, <1>4, <1>5, <1>6 DEF UploadInv, Kept

(* A request may also be answered at once.                                 *)
LEMMA AnswerKeeps ==
  ASSUME UploadInv, UNCHANGED working, Agrees(disk, given, entries, known'), Asked,
         UNCHANGED surface, working = {}
  PROVE  UploadInv' /\ Kept
<1>1. UNCHANGED <<memory, disk, given, entries, torn, surface, working>>
  BY DEF Asked
<1>2. OneAtWork' /\ Remembers' /\ Broken(disk', torn', working')
  BY <1>1, MemoryKept, SizeIsNat
    DEF UploadInv, OneAtWork, Remembers, Broken, memory, upload, Agrees
<1>3. QED
  BY <1>1, <1>2 DEF UploadInv, Kept

(* A create, of a phone that knows no session yet.                         *)
LEMMA AskCreateKeeps ==
  ASSUME UploadInv, NEW d \in Device, AskCreate(d), UNCHANGED surface
  PROVE  UploadInv' /\ Kept
<1>1. /\ router # 0 /\ ~unavailable /\ Free /\ known[d].id = 0 /\ UNCHANGED known /\ Asked
  BY DEF AskCreate, MayUpload
<1>2. PICK E \in SUBSET {i \in DOMAIN sessions : ~sessions[i]} :
        Begin([Work(d, "create", 0) EXCEPT !.expire = E])
  BY DEF AskCreate
<1>3. E \subseteq Id /\ router \in Nat \ {0}
  BY <1>1, MayBegin DEF UploadInv, Remembers
<1>4. PICK v : v = [Work(d, "create", 0) EXCEPT !.expire = E]
  OBVIOUS
<1>5. /\ v.router = router /\ v.kind = "create" /\ v.device = d /\ v.id = 0 /\ v.step = "create"
      /\ v.doomed = 0 /\ v \in WorkType
  <2>1. PICK u : u = Work(d, "create", 0)
    OBVIOUS
  <2>2. /\ u.router = router /\ u.kind = "create" /\ u.device = d /\ u.id = 0
        /\ u.step = "create" /\ u.doomed = 0 /\ u \in WorkType
    BY <1>3, <2>1 DEF Work, WorkType
  <2>3. v = [u EXCEPT !.expire = E]
    BY <1>4, <2>1
  <2>4. QED
    BY <1>3, <2>2, <2>3 DEF WorkType
<1>6. Sound(v)
  BY <1>1, <1>5 DEF Sound, Placing, Publishing, Finding
<1>7. QED
  BY <1>1, <1>2, <1>4, <1>5, <1>6, BeginKeeps

(* A status request is answered with what is so.                           *)
LEMMA AskKeeps ==
  ASSUME UploadInv, NEW d \in Device, Ask(d), UNCHANGED surface
  PROVE  UploadInv' /\ Kept
<1> DEFINE i == known[d].id
<1>1. /\ router # 0 /\ ~unavailable /\ Free /\ Owned(d, i) /\ UNCHANGED working /\ Asked
      /\ Tell(d, i, Offset(i), sessions[i]) /\ Agrees(disk, given, entries, known)
  BY DEF Ask, MayUpload, UploadInv
<1>2. /\ i \in Id /\ i <= given /\ Whole(disk[i]) /\ sessions[i] \in BOOLEAN
      /\ (sessions[i] => disk[i].manifest = "completed")
  BY <1>1, OwnSession
<1>3. /\ Offset(i) \in 0 .. Size /\ Offset(i) <= Len(disk[i].data)
      /\ (sessions[i] => i \in entries)
  BY <1>1, <1>2, SizeIsNat DEF Whole, Directory, Offset, Agrees
<1>4. Agrees(disk, given, entries, known')
  BY <1>1, <1>2, <1>3, MayLearn
<1>5. QED
  BY <1>1, <1>4, MayBegin, AnswerKeeps

(* The units of a chunk are those that follow.                             *)
LEMMA TheUnits ==
  ASSUME NEW from \in 0 .. Size
  PROVE  Units(from) \in Seq(0 .. Size) /\ InPlace(Units(from), from)
<1> DEFINE m == Min({from + Chunk, Size})
<1>1. from \in Nat /\ from + Chunk \in Nat /\ Size \in Nat
  BY SizeIsNat
<1>2. m \in {from + Chunk, Size} /\ m <= Size
  <2>1. CASE from + Chunk <= Size
    BY <1>1, <2>1 DEF Min
  <2>2. CASE from + Chunk > Size
    BY <1>1, <2>2 DEF Min
  <2>3. QED
    BY <1>1, <2>1, <2>2
<1>3. m \in Nat /\ m <= Size
  BY <1>1, <1>2
<1> HIDE DEF m
<1>4. from + 1 \in Int /\ m \in Int /\ \A n \in from + 1 .. m : n \in 1 .. Size
  BY <1>1, <1>3
<1>5. \A n \in from + 1 .. m : File[n] = n /\ File[n] \in 0 .. Size
  BY <1>1, <1>4, TheFile
<1>6. PICK s : s = SubSeq(File, from + 1, m)
  OBVIOUS
<1>7. /\ s \in Seq(0 .. Size) /\ Len(s) = IF from + 1 <= m THEN m - (from + 1) + 1 ELSE 0
      /\ \A j \in 1 .. m - (from + 1) + 1 : s[j] = File[from + 1 + j - 1]
  BY <1>4, <1>5, <1>6, SubSeqProperties
<1>8. ASSUME NEW j \in 1 .. Len(s) PROVE s[j] \in {0, from + j}
  <2>1. j \in 1 .. m - (from + 1) + 1 /\ from + 1 + j - 1 = from + j /\ from + j \in from + 1 .. m
    BY <1>1, <1>3, <1>7
  <2>2. QED
    BY <1>5, <1>7, <2>1
<1>9. QED
  BY <1>6, <1>7, <1>8 DEF Units, InPlace, m

(* A chunk is accepted from where the payload ends.                        *)
LEMMA AskPatchKeeps ==
  ASSUME UploadInv, NEW d \in Device, NEW from \in 0 .. Size, AskPatch(d, from),
         UNCHANGED surface
  PROVE  UploadInv' /\ Kept
<1> DEFINE i == known[d].id
<1>1. /\ router # 0 /\ ~unavailable /\ Free /\ Owned(d, i) /\ ~disk[i].bin
      /\ MayAppend(i, from) /\ UNCHANGED known /\ Asked
      /\ Begin([Work(d, "patch", i) EXCEPT !.units = Units(from)])
  BY DEF AskPatch, MayUpload
<1>2. i \in Id /\ i <= given /\ disk[i].device = d /\ router \in Nat \ {0}
  BY <1>1, OwnSession, MayBegin
<1>3. PICK t : t = Units(from)
  OBVIOUS
<1>4. /\ t \in Seq(0 .. Size) /\ InPlace(t, Offset(i)) /\ Offset(i) + Len(t) <= Size
      /\ disk[i].dir
  BY <1>1, <1>3, TheUnits DEF MayAppend, Readable
<1>5. PICK v : v = [Work(d, "patch", i) EXCEPT !.units = t]
  OBVIOUS
<1>6. /\ v.router = router /\ v.kind = "patch" /\ v.device = d /\ v.id = i /\ v.step = "patch"
      /\ v.doomed = 0 /\ v.expire = {} /\ v.units = t /\ v \in WorkType
  BY <1>2, <1>4, <1>5 DEF Work, WorkType
<1>7. Sound(v)
  BY <1>1, <1>2, <1>4, <1>6 DEF Sound, Placing, Publishing, Finding
<1>8. QED
  BY <1>1, <1>3, <1>5, <1>6, <1>7, BeginKeeps

(* A completion begins when all of the file is there, or was complete.     *)
LEMMA AskCompleteKeeps ==
  ASSUME UploadInv, NEW d \in Device, AskComplete(d), UNCHANGED surface
  PROVE  UploadInv' /\ Kept
<1> DEFINE i == known[d].id
<1>1. /\ router # 0 /\ ~unavailable /\ Free /\ Owned(d, i) /\ Asked
      /\ Agrees(disk, given, entries, known) /\ Remembers
  BY DEF AskComplete, MayUpload, UploadInv
<1>2. /\ i \in Id /\ i <= given /\ i \in DOMAIN sessions /\ disk[i].device = d
      /\ Whole(disk[i]) /\ sessions[i] \in BOOLEAN
      /\ (sessions[i] => disk[i].manifest = "completed")
  BY <1>1, OwnSession
<1>3. working = {} /\ router \in Nat \ {0}
  BY <1>1, MayBegin
<1>4. CASE sessions[i]
  <2>1. UNCHANGED working
    BY <1>4 DEF AskComplete
  <2>2. PICK yes \in BOOLEAN : yes = TRUE
    OBVIOUS
  <2>3. MayTell(d, i, Size, TRUE)
    BY <1>4 DEF AskComplete
  <2>4. MayTell(d, i, Size, yes)
    BY <2>2, <2>3, Zenon
  <2>5. /\ disk[i].manifest = "completed" /\ i \in entries /\ Size \in 0 .. Size
        /\ Size <= Len(disk[i].data)
    BY <1>1, <1>2, <1>4, TheFile, SizeIsNat DEF Agrees, Whole
  <2>6. Agrees(disk, given, entries, known')
    BY <1>1, <1>2, <2>4, <2>5, MayLearn
  <2>7. QED
    BY <1>1, <1>3, <2>1, <2>6, AnswerKeeps
<1>5. CASE ~sessions[i]
  <2>1. /\ disk[i].bin \/ disk[i].part
        /\ Verified(i) /\ UNCHANGED known
        /\ Begin([Work(d, "complete", i) EXCEPT
                    !.step = IF disk[i].bin THEN "store" ELSE "link"])
    BY <1>5 DEF AskComplete
  <2>2. disk[i].dir /\ disk[i].data = File
    BY <1>2, <2>1 DEF Verified, Whole, NoDir
  <2>3. PICK s \in {"store", "link"} : s = IF disk[i].bin THEN "store" ELSE "link"
    OBVIOUS
  <2>4. PICK v : v = [Work(d, "complete", i) EXCEPT !.step = s]
    OBVIOUS
  <2>5. /\ v.router = router /\ v.kind = "complete" /\ v.device = d /\ v.id = i /\ v.step = s
        /\ v.doomed = 0 /\ v.expire = {} /\ v \in WorkType
    <3>1. PICK u : u = Work(d, "complete", i)
      OBVIOUS
    <3>2. /\ u.router = router /\ u.kind = "complete" /\ u.device = d /\ u.id = i
          /\ u.doomed = 0 /\ u.expire = {}
      BY <3>1 DEF Work
    <3>5. u = [router |-> router, device |-> d, kind |-> "complete", id |-> i,
               step |-> "complete", units |-> <<>>, expire |-> {}, doomed |-> 0]
      BY <3>1 DEF Work
    <3>3. v = [u EXCEPT !.step = s]
      BY <2>4, <3>1
    <3>4. v \in WorkType
      <4>1. v = [router |-> router, device |-> d, kind |-> "complete", id |-> i,
                 step |-> s, units |-> <<>>, expire |-> {}, doomed |-> 0]
        BY <3>3, <3>5
      <4>2. i \in Id \cup {0} /\ d \in Device \cup {0} /\ {} \in SUBSET Id
        BY <1>2
      <4>3. QED
        BY <1>3, <2>3, <4>1, <4>2 DEF WorkType
    <3>6. QED
      BY <3>2, <3>3, <3>4, <3>5
  <2>6. Fits(Ables(disk) \cup {i})
    <3>1. /\ DOMAIN sessions \in SUBSET Id /\ Ables(disk) \cup {i} \in SUBSET DOMAIN sessions
          /\ Fits(DOMAIN sessions)
      BY <1>1, <1>2 DEF Remembers
    <3>2. QED
      BY <3>1, SmallerFits
  <2>7. s = "store" => disk[i].bin
    BY <2>3
  <2>8. Sound(v)
    BY <1>1, <1>2, <2>2, <2>3, <2>5, <2>6, <2>7 DEF Sound, Placing, Publishing, Finding
  <2>9. QED
    BY <1>1, <2>1, <2>3, <2>4, <2>5, <2>8, BeginKeeps
<1>6. QED
  BY <1>2, <1>4, <1>5

(* A removal begins for what is not published.                             *)
LEMMA AskDeleteKeeps ==
  ASSUME UploadInv, NEW d \in Device, AskDelete(d), UNCHANGED surface
  PROVE  UploadInv' /\ Kept
<1> DEFINE i == known[d].id
<1>1. /\ router # 0 /\ ~unavailable /\ Free /\ Owned(d, i) /\ ~disk[i].bin
      /\ UNCHANGED known /\ Asked /\ Begin(Work(d, "delete", i))
  BY DEF AskDelete, MayUpload
<1>2. i \in Id /\ i <= given /\ disk[i].device = d /\ router \in Nat \ {0}
  BY <1>1, OwnSession, MayBegin
<1>3. PICK v : v = Work(d, "delete", i)
  OBVIOUS
<1>4. /\ v.router = router /\ v.kind = "delete" /\ v.device = d /\ v.id = i /\ v.step = "delete"
      /\ v.doomed = 0 /\ v.expire = {} /\ v \in WorkType
  BY <1>2, <1>3 DEF Work, WorkType
<1>5. Sound(v)
  BY <1>1, <1>2, <1>4 DEF Sound, Placing, Publishing, Finding
<1>6. QED
  BY <1>1, <1>3, <1>4, <1>5, BeginKeeps

-----------------------------------------------------------------------------
(* Uploads: routers start and stop *)

(* A router starts with just what is on the disk, or stays unavailable.    *)
LEMMA StartKeeps ==
  ASSUME UploadInv, working = {}, StartRouter
  PROVE  UploadInv' /\ Kept
<1> DEFINE found == {i \in Id : disk[i].dir}
<1>1. /\ router' = routers + 1 /\ routers' = routers + 1
      /\ UNCHANGED <<surface, disk, given, entries, known, torn>>
      /\ routers \in Nat /\ routers + 1 # 0
  <2>1. routers \in Nat
    BY DEF UploadInv, OneAtWork
  <2>2. /\ router' = routers + 1 /\ routers' = routers + 1
        /\ UNCHANGED <<surface, disk, given, entries, known, torn>>
    BY Zenon DEF StartRouter
  <2>3. QED
    BY <2>1, <2>2
<1>2. /\ Agrees(disk', given', entries', known') /\ Kept /\ Ables(disk') = Ables(disk)
      /\ given \in Nat
  BY <1>1, SizeIsNat DEF UploadInv, Kept, Agrees
<1>3. \A i \in Id : Readable(i) <=> Able(disk[i])
  BY DEF Readable, Able
<1>4. CASE \A i \in found : Readable(i)
  <2>1. /\ unavailable' = FALSE /\ reserved' = Size * Cardinality(found)
        /\ sessions' = [i \in found |-> disk[i].manifest = "completed"]
        /\ \E E \in SUBSET {i \in found : disk[i].manifest = "open"} :
             IF E = {} THEN UNCHANGED working
             ELSE Begin([Work(0, "load", 0) EXCEPT !.router = routers + 1, !.expire = E])
    BY <1>4 DEF StartRouter
  <2>2. found = Ables(disk) /\ DOMAIN sessions' = found
    BY <1>3, <1>4, <2>1 DEF Ables, Able
  <2>3. /\ \A i \in found : i <= given /\ (sessions'[i] <=> disk[i].manifest = "completed")
        /\ \A i \in found : sessions'[i] \in BOOLEAN
    <3>1. \A i \in found : i \in Nat /\ ~NoDir.dir
      BY SizeIsNat DEF Id, NoDir
    <3>2. \A i \in found : ~(i > given)
      BY <3>1 DEF UploadInv, Agrees
    <3>3. \A i \in found : i <= given
      BY <1>2, <3>1, <3>2
    <3>4. QED
      BY <2>1, <3>3
  <2>4. Remembers'
    BY <1>1, <1>2, <2>1, <2>2, <2>3 DEF UploadInv, Remembers
  <2>5. unavailable' \in BOOLEAN
    BY <2>1, Zenon
  <2>6. PICK E \in SUBSET found :
          IF E = {} THEN UNCHANGED working
          ELSE Begin([Work(0, "load", 0) EXCEPT !.router = routers + 1, !.expire = E])
    BY <2>1
  <2>7. CASE E = {}
    <3>1. working' = {}
      BY <2>6, <2>7
    <3>2. OneAtWork'
      BY <1>1, <2>5, <3>1, NobodyAtWork
    <3>3. Broken(disk', torn', working')
      BY <1>1, <3>1 DEF UploadInv, Broken
    <3>4. QED
      BY <1>2, <2>4, <3>2, <3>3 DEF UploadInv
  <2>8. CASE E # {}
    <3>1. PICK u : u = Work(0, "load", 0)
      OBVIOUS
    <3>2. PICK v : v = [u EXCEPT !.router = routers + 1, !.expire = E]
      OBVIOUS
    <3>3. u = [router |-> router, device |-> 0, kind |-> "load", id |-> 0, step |-> "load",
               units |-> <<>>, expire |-> {}, doomed |-> 0]
      BY <3>1 DEF Work
    <3>4. /\ v.router = routers + 1 /\ v.kind = "load" /\ v.device = 0 /\ v.id = 0
          /\ v.step = "load" /\ v.doomed = 0
      BY <3>2, <3>3
    <3>5. v \in WorkType
      <4>1. v = [router |-> routers + 1, device |-> 0, kind |-> "load", id |-> 0,
                 step |-> "load", units |-> <<>>, expire |-> E, doomed |-> 0]
        BY <3>2, <3>3
      <4>2. routers + 1 \in Nat \ {0} /\ E \in SUBSET Id /\ <<>> \in Seq(0 .. Size)
        BY <1>1, <2>6
      <4>3. QED
        BY <4>1, <4>2 DEF WorkType
    <3>6. Sound(v)'
      BY <3>4, <3>5 DEF Sound, Placing, Publishing, Finding
    <3>7. working' = {v}
      BY <2>6, <2>8, <3>1, <3>2 DEF Begin
    <3>8. OneAtWork'
      BY <1>1, <2>1, <2>5, <3>4, <3>6, <3>7 DEF OneAtWork
    <3>9. Broken(disk', torn', working')
      BY <1>1 DEF UploadInv, Broken
    <3>10. QED
      BY <1>2, <2>4, <3>8, <3>9 DEF UploadInv
  <2>9. QED
    BY <2>7, <2>8
<1>5. CASE ~(\A i \in found : Readable(i))
  <2>1. unavailable' = TRUE /\ sessions' = <<>> /\ reserved' = 0 /\ UNCHANGED working
    BY <1>5 DEF StartRouter
  <2>2. Remembers'
    BY <1>2, <2>1, NothingRemembered DEF UploadInv
  <2>3. unavailable' \in BOOLEAN /\ working' = {}
    BY <2>1
  <2>4. OneAtWork'
    BY <1>1, <2>3, NobodyAtWork
  <2>5. Broken(disk', torn', working')
    BY <1>1, <2>3 DEF UploadInv, Broken
  <2>6. QED
    BY <1>2, <2>2, <2>4, <2>5 DEF UploadInv
<1>6. QED
  BY <1>4, <1>5

(* A request at work goes on after its gateway is stopped.                 *)
LEMMA StopKeeps ==
  ASSUME UploadInv, StopRouter, surface # "configured",
         UNCHANGED <<surface, disk, given, entries, working, known, torn>>
  PROVE  UploadInv' /\ Kept
<1>1. router' = 0 /\ sessions' = <<>> /\ reserved' = 0 /\ unavailable' = FALSE
      /\ UNCHANGED routers
  BY DEF StopRouter
<1>2. DOMAIN sessions' = {}
  BY <1>1
<1>3. Remembers'
  BY <1>1, NothingRemembered DEF UploadInv
<1>4. \A w \in working : Sound(w)'
  BY <1>1, <1>2 DEF UploadInv, OneAtWork, Sound, Offset
<1>5. unavailable' \in BOOLEAN
  BY <1>1, Zenon
<1>6. OneAtWork'
  BY <1>1, <1>4, <1>5 DEF UploadInv, OneAtWork
<1>7. QED
  BY <1>3, <1>6 DEF UploadInv, Kept

-----------------------------------------------------------------------------
(* Uploads: the theorems *)

(* Every step of the gateway, the phones and the process keeps the uploads *)
(* in order, when no gateway starts over the work of the one before.       *)
LEMMA UploadsInductive ==
  ASSUME ~Overlap, UploadInv, [Next]_vars
  PROVE  UploadInv' /\ Kept
<1>1. CASE UNCHANGED uploadVars
  <2>1. UNCHANGED <<surface, router, routers, unavailable, sessions, reserved, disk, given,
                    entries, working, known, torn>>
    BY <1>1 DEF uploadVars
  <2>2. \A w \in working : Sound(w)'
    BY <2>1 DEF UploadInv, OneAtWork, Sound, Offset
  <2>3. OneAtWork'
    BY <2>1, <2>2 DEF UploadInv, OneAtWork
  <2>4. Remembers'
    BY <2>1 DEF UploadInv, Remembers
  <2>5. QED
    BY <2>1, <2>3, <2>4 DEF UploadInv, Kept
<1>2. CASE Pairing
  <2>1. surface = "paired" /\ surface # "configured"
    BY <1>2 DEF Pairing
  <2>2. CASE NoUpload
    BY <1>1, <2>2 DEF NoUpload
  <2>3. CASE (Overlap \/ working = {}) /\ StartRouter
    BY <2>3, StartKeeps
  <2>4. CASE /\ StopRouter
             /\ UNCHANGED <<surface, disk, given, entries, working, known, torn, faults>>
    BY <2>1, <2>4, StopKeeps
  <2>5. QED
    BY <1>2, <2>2, <2>3, <2>4 DEF Pairing
<1>3. CASE StartConfigured
  BY <1>3, StartKeeps DEF StartConfigured, UploadInv, OneAtWork
<1>4. CASE Requests
  BY <1>4, AskCreateKeeps, AskKeeps, AskCompleteKeeps, AskDeleteKeeps, AskPatchKeeps DEF Requests
<1>5. CASE Steps
  BY <1>5, UploadStepKeeps, FailKeeps, ReadOtherKeeps DEF Steps
<1>6. CASE Crashes
  BY <1>6, CrashKeeps DEF Crashes
<1>7. CASE UNCHANGED vars
  BY <1>1, <1>7 DEF vars
<1>8. QED
  BY <1>2, <1>3, <1>4, <1>5, <1>6, <1>7 DEF Next

(* At first nothing is on the disk.                                        *)
LEMMA UploadsInitially == Init => UploadInv
<1> SUFFICES ASSUME Init PROVE UploadInv
  OBVIOUS
<1>1. /\ router = 0 /\ routers = 0 /\ unavailable = FALSE /\ sessions = <<>> /\ reserved = 0
      /\ disk = [i \in Id |-> NoDir] /\ given = 0 /\ entries = {} /\ working = {}
      /\ known = [d \in Device |-> Unknown]
  BY DEF Init, UploadInit
<1>2. /\ NoDir \in Directory /\ Whole(NoDir) /\ ~NoDir.bin /\ NoDir.manifest = "none"
      /\ ~NoDir.dir /\ ~Able(NoDir)
  <2>1. NoDir \in Directory
    BY DEF NoDir, Directory
  <2>2. QED
    BY <2>1, SizeIsNat DEF NoDir, Whole, InPlace, Able
<1>3. /\ Unknown \in Knowledge /\ Unknown.id = 0 /\ ~Unknown.done
  BY SizeIsNat DEF Unknown, Knowledge
<1>4. Agrees(disk, given, entries, known)
  BY <1>1, <1>2, <1>3, SizeIsNat DEF Agrees, Told
<1>5. Broken(disk, torn, working)
  BY <1>1, <1>2 DEF Broken
<1>6. OneAtWork
  <2>1. unavailable \in BOOLEAN
    BY <1>1, Zenon
  <2>2. QED
    BY <1>1, <2>1 DEF OneAtWork
<1>7. Remembers
  <2>1. Ables(disk) = {} /\ DOMAIN sessions = {}
    BY <1>1, <1>2 DEF Ables
  <2>2. Cardinality({}) = 0 /\ Size * 0 = 0
    BY FS_EmptySet, SizeIsNat
  <2>3. QED
    <3>1. Cardinality(DOMAIN sessions) = 0 /\ Cardinality(Ables(disk)) = 0
      BY <2>1, <2>2
    <3>2. 0 <= MaxSessions /\ 0 <= MaxStored
      BY SizeIsNat
    <3>3. Fits(Ables(disk)) /\ reserved = Size * Cardinality(DOMAIN sessions)
      BY <1>1, <2>2, <3>1, <3>2 DEF Fits
    <3>4. QED
      BY <1>1, <2>1, <3>3 DEF Remembers
<1>8. QED
  BY <1>4, <1>5, <1>6, <1>7 DEF UploadInv

(* Every byte is in its place, and what is published is the file that was  *)
(* announced, with its entry, and the only one of its request.             *)
THEOREM UploadsAreAlwaysWhole == ~Overlap /\ Spec => []UploadsAreWhole
<1> SUFFICES ASSUME ~Overlap PROVE Spec => []UploadsAreWhole
  OBVIOUS
<1>1. UploadInv => UploadsAreWhole
  BY DEF UploadInv, Agrees, Whole, InPlace, UploadsAreWhole, Offset
<1>2. QED
  BY <1>1, UploadsInitially, UploadsInductive, PTL DEF Spec

(* What a phone was told stays true.                                       *)
THEOREM ToldStaysTrue == ~Overlap /\ Spec => []ToldIsTrue
<1> SUFFICES ASSUME ~Overlap PROVE Spec => []ToldIsTrue
  OBVIOUS
<1>1. UploadInv => ToldIsTrue
  BY DEF UploadInv, Agrees, Told, ToldIsTrue, Offset
<1>2. QED
  BY <1>1, UploadsInitially, UploadsInductive, PTL DEF Spec

(* The router reserves exactly what its sessions take, and keeps its       *)
(* quotas across restarts.                                                 *)
THEOREM QuotaStaysExact == ~Overlap /\ Spec => []QuotaIsExact
<1> SUFFICES ASSUME ~Overlap PROVE Spec => []QuotaIsExact
  OBVIOUS
<1>1. UploadInv => QuotaIsExact
  <2> SUFFICES ASSUME UploadInv, router # 0, ~unavailable
               PROVE  /\ {i \in Id : Readable(i)} \subseteq DOMAIN sessions
                      /\ reserved = Size * Cardinality(DOMAIN sessions)
                      /\ reserved <= MaxStored /\ Cardinality(DOMAIN sessions) <= MaxSessions
    BY DEF QuotaIsExact
  <2>1. {i \in Id : Readable(i)} = Ables(disk)
    BY DEF Ables, Able, Readable
  <2>2. QED
    BY <2>1 DEF UploadInv, Remembers, Fits
<1>2. QED
  BY <1>1, UploadsInitially, UploadsInductive, PTL DEF Spec

(* A start fails only for what was broken off while it was made or         *)
(* removed.                                                                *)
THEOREM OnlyTornStaysUnreadable == ~Overlap /\ Spec => []OnlyTornIsUnreadable
<1> SUFFICES ASSUME ~Overlap PROVE Spec => []OnlyTornIsUnreadable
  OBVIOUS
<1>1. UploadInv => OnlyTornIsUnreadable
  BY DEF UploadInv, Broken, OnlyTornIsUnreadable, Readable, Able
<1>2. QED
  BY <1>1, UploadsInitially, UploadsInductive, PTL DEF Spec

(* A published file stays.                                                 *)
THEOREM PublishedStays == ~Overlap /\ Spec => PublishedIsKept
<1> SUFFICES ASSUME ~Overlap PROVE Spec => PublishedIsKept
  OBVIOUS
<1>1. QED
  BY UploadsInitially, UploadsInductive, PTL DEF Spec, PublishedIsKept, Kept
=============================================================================
