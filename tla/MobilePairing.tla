--------------------------- MODULE MobilePairing ---------------------------
(***************************************************************************)
(* Pairing of phones with one desktop: mobile_connect.rs, and the phones'  *)
(* side of it in connection_client.dart.                                   *)
(*                                                                         *)
(* Everything is in memory: a gateway that stops, or the process, forgets  *)
(* all codes and devices.  The state is under one lock, so a request that  *)
(* pairs is one action.  A phone repeats the bytes of its request on the   *)
(* other route, so it may be handled several times and late, and any       *)
(* answer may be lost.                                                     *)
(***************************************************************************)
EXTENDS Naturals, Sequences, FiniteSets

CONSTANTS
  Phone,        \* the phones
  MaxDevices,   \* MAX_DEVICES
  MaxTickets    \* bound: the codes that are shown

ASSUME PairingAssumption == MaxDevices \in Nat /\ MaxTickets \in Nat

VARIABLES
  running,      \* a gateway is listening
  shown,        \* the number of codes shown so far
  pair,         \* the pending pairing: its code, and the request that used it
  devices,      \* the devices in the table
  lapsed,       \* the devices whose deadline has passed
  paired,       \* history: the request that made each device
  sent,         \* the requests sent: a phone and a code
  credential    \* the device each phone connects as, 0 for none

gatewayState == <<running, shown, pair, devices, lapsed, paired>>
phoneState == <<sent, credential>>
pairingVars == <<gatewayState, phoneState>>

Request == Phone \X (1 .. MaxTickets)
NoPair == [ticket |-> 0, by |-> <<>>, device |-> 0]

PairingInit ==
  /\ running = FALSE /\ shown = 0 /\ pair = NoPair
  /\ devices = {} /\ lapsed = {} /\ paired = <<>>
  /\ sent = {}
  /\ credential = [p \in Phone |-> 0]

(* A bearer token is accepted when its device is in the table in time.     *)
Authorized(d) == d \in devices \ lapsed

-----------------------------------------------------------------------------
(* The desktop *)

(* A new code takes the place of the last; the first one starts a gateway. *)
ShowTicket ==
  /\ shown < MaxTickets /\ shown' = shown + 1
  /\ pair' = [NoPair EXCEPT !.ticket = shown + 1]
  /\ running' = TRUE
  /\ UNCHANGED <<devices, lapsed, paired, phoneState>>

(* A code whose time is over is answered like one that never was.          *)
TicketExpires ==
  /\ pair # NoPair /\ pair' = NoPair
  /\ UNCHANGED <<running, shown, devices, lapsed, paired, phoneState>>

DeviceExpires(d) ==
  /\ Authorized(d) /\ lapsed' = lapsed \cup {d}
  /\ UNCHANGED <<running, shown, pair, devices, paired, phoneState>>

Revoke(d) ==
  /\ d \in devices /\ devices' = devices \ {d}
  /\ UNCHANGED <<running, shown, pair, lapsed, paired, phoneState>>

(* Stopping the gateway and stopping the process forget the same.          *)
Forget ==
  /\ running /\ running' = FALSE
  /\ pair' = NoPair /\ devices' = {}
  /\ UNCHANGED <<shown, lapsed, paired, phoneState>>

(* GET /v1/mobile/status drops the devices whose time is over.             *)
Status ==
  /\ running /\ devices' = devices \ lapsed
  /\ UNCHANGED <<running, shown, pair, lapsed, paired, phoneState>>

-----------------------------------------------------------------------------
(* The phone *)

(* Scanning a code closes the last connection and makes one with a request *)
(* id of its own.                                                          *)
Scan(p, t) ==
  /\ t \in 1 .. shown /\ \A s \in 1 .. shown : <<p, s>> \in sent => s < t
  /\ sent' = sent \cup {<<p, t>>}
  /\ credential' = [credential EXCEPT ![p] = 0]
  /\ UNCHANGED gatewayState

(* The answer with device d reaches the connection that was made last, or  *)
(* is lost.                                                                *)
Answer(p, t, d) ==
  /\ \/ UNCHANGED credential
     \/ /\ \A s \in 1 .. shown : <<p, s>> \in sent => s <= t
        /\ credential' = [credential EXCEPT ![p] = d]
  /\ UNCHANGED sent

-----------------------------------------------------------------------------
(* POST /v1/pair *)

Current(t) == running /\ pair.ticket = t

(* Mutant of Room: the limit counts one too few.                           *)
RoomForOneMore == Cardinality(devices \ lapsed) <= MaxDevices

Room == Cardinality(devices \ lapsed) < MaxDevices

FirstUse(p, t) ==
  /\ Current(t) /\ pair.by = <<>> /\ Room
  /\ LET d == Len(paired) + 1 IN
     /\ devices' = (devices \ lapsed) \cup {d}
     /\ paired' = Append(paired, <<p, t>>)
     /\ pair' = [pair EXCEPT !.by = <<p, t>>, !.device = d]
     /\ Answer(p, t, d)
  /\ UNCHANGED <<running, shown, lapsed>>

(* The table is full; those whose time is over are gone all the same.      *)
LimitReached(t) ==
  /\ Current(t) /\ pair.by = <<>> /\ ~Room
  /\ devices' = devices \ lapsed
  /\ UNCHANGED <<running, shown, pair, lapsed, paired, phoneState>>

(* Mutant of Repeated: whoever shows the code is answered.                 *)
RepeatedByAnyone(p, t) ==
  /\ Current(t) /\ pair.by # <<>> /\ pair.device \in devices
  /\ Answer(p, t, pair.device)
  /\ UNCHANGED gatewayState
(* Mutant of Repeated: the device is put back for its request.             *)
RepeatedRestoring(p, t) ==
  /\ Current(t) /\ pair.by = <<p, t>>
  /\ devices' = devices \cup {pair.device}
  /\ Answer(p, t, pair.device)
  /\ UNCHANGED <<running, shown, pair, lapsed, paired>>

(* The request that used the code is answered again while its device is    *)
(* still in the table.                                                     *)
Repeated(p, t) ==
  /\ Current(t) /\ pair.by = <<p, t>> /\ pair.device \in devices
  /\ Answer(p, t, pair.device)
  /\ UNCHANGED gatewayState

HandlePair(p, t) == FirstUse(p, t) \/ LimitReached(t) \/ Repeated(p, t)

PairingStep ==
  \/ TicketExpires \/ Status
  \/ \E d \in devices : DeviceExpires(d) \/ Revoke(d)
  \/ \E p \in Phone, t \in 1 .. shown : Scan(p, t)
  \/ \E r \in sent : HandlePair(r[1], r[2])

-----------------------------------------------------------------------------
(* Properties *)

PairingTypeOK ==
  /\ running \in BOOLEAN /\ shown \in 0 .. MaxTickets
  /\ paired \in Seq(Request)
  /\ pair \in [ticket : 0 .. MaxTickets, by : {<<>>} \cup Request,
               device : 0 .. Len(paired)]
  /\ devices \subseteq 1 .. Len(paired) /\ lapsed \subseteq 1 .. Len(paired)
  /\ sent \subseteq Request
  /\ credential \in [Phone -> 0 .. Len(paired)]

(* However often requests are repeated and answers lost, a code pairs one  *)
(* device, no phone gets the credentials that another phone's request      *)
(* made, and never more than MAX_DEVICES may connect at a time.            *)
PairingIsExclusive ==
  /\ \A d, e \in 1 .. Len(paired) : paired[d][2] = paired[e][2] => d = e
  /\ \A p \in Phone : credential[p] # 0 => paired[credential[p]][1] = p
  /\ Cardinality({d \in devices : Authorized(d)}) <= MaxDevices

(* A device that was revoked, or forgotten with its gateway, stays out,    *)
(* though its pairing request is repeated.                                 *)
RevokedStaysOut ==
  [][\A d \in 1 .. Len(paired) : d \notin devices => d \notin devices']_pairingVars

=============================================================================
