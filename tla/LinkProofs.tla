------------------------------ MODULE LinkProofs ------------------------------
(***************************************************************************)
(* What is proved of the links of the box to the outside: the identity     *)
(* that it shows to its broker (TlsConnect), the acknowledgements that it  *)
(* gives to a cat's tracker (BleMotion), and the packets that it takes out *)
(* of a stream of bytes (MqttFrames).                                      *)
(***************************************************************************)
EXTENDS TlsConnect, BleMotion, MqttFrames, SequenceTheorems, TLAPS

-----------------------------------------------------------------------------
(* TlsConnect: the PKCS #11 session and the list of objects are shared by all the attempts to *)
(* connect, so what one attempt has left there is what the next one starts from.               *)

\* A handle is that of what this attempt was asked to use.
Right(o) == handles[o] \in 1..Len(objects) /\ objects[handles[o]] = <<whose, o>>

\* The session has an operation open only where the code is in the middle of it.
NothingLeftOpen ==
  /\ searching = IF tlsAt \in {"find", "final"} THEN <<whose, target>> ELSE NoLabel
  /\ signing = (tlsAt = "sign")
  /\ loadedKey = IF tlsAt = "sign" THEN handles["key"] ELSE 0

Handshaking == tlsAt \in {"connect", "signInit", "sign", "verify"}
Looking     == tlsAt \in {"init", "find", "final", "attribute"}

RightObjects ==
  /\ Handshaking \/ (Looking /\ target = "cert") => Right("key")
  /\ Handshaking => Right("cert")
  /\ tlsAt \in {"final", "attribute"} => Right(target) \/ (handles[target] = 0 /\ cause)

SignedOrCause == tlsAt = "verify" => cause \/ signature = <<whose, "key">>

TlsInv == TlsTypeOK /\ NothingLeftOpen /\ RightObjects /\ SignedOrCause /\ FailsForACause

\* The list has room for the claim's key and certificate and for the device's own ones:
\* pkcs11configMAX_NUM_OBJECTS is 6 (core_pkcs11_config.h).
RoomForAll == MaxObjects >= 4

\* prvAddObjectToList: an object that is not in the list yet finds room there.
LEMMA ObjectFindsRoom ==
  ASSUME RoomForAll, TlsTypeOK, NEW l \in Labels, \A h \in DOMAIN objects : objects[h] # l
  PROVE  Len(objects) < MaxObjects
<1>1. objects \in Seq(Labels) /\ Len(objects) \in Nat /\ DOMAIN objects = 1..Len(objects)
  BY LenProperties DEF TlsTypeOK
<1>2. \A i \in 1..Len(objects) : objects[i] \in Labels  BY <1>1, ElementOfSeq
<1>3. \A i, j \in 1..Len(objects) : objects[i] = objects[j] => i = j
  BY <1>1 DEF TlsTypeOK, IsInjective
<1>4. SUFFICES ASSUME Len(objects) >= 4 PROVE FALSE
  BY <1>1, TlsAssumption DEF RoomForAll
<1>5. /\ objects[1] \in Labels /\ objects[2] \in Labels /\ objects[3] \in Labels /\ objects[4] \in Labels
      /\ objects[1] # l /\ objects[2] # l /\ objects[3] # l /\ objects[4] # l
      /\ objects[1] # objects[2] /\ objects[1] # objects[3] /\ objects[1] # objects[4]
      /\ objects[2] # objects[3] /\ objects[2] # objects[4] /\ objects[3] # objects[4]
  BY <1>1, <1>2, <1>3, <1>4
<1>6. PICK a, b, c, d : a = <<"claim", "cert">> /\ b = <<"claim", "key">>
                        /\ c = <<"device", "cert">> /\ d = <<"device", "key">>
  OBVIOUS
<1>7. \A x \in Labels : x \in {a, b, c, d}  BY <1>6 DEF Labels, Identities
<1> QED  BY <1>5, <1>7

\* The parts of TlsTypeOK
ListOK    == objects \in Seq(Labels) /\ IsInjective(objects) /\ Len(objects) <= MaxObjects
FlagsOK   == registered \in BOOLEAN /\ signing \in BOOLEAN /\ cause \in BOOLEAN
SessionOK == /\ inFlash \subseteq Labels
             /\ searching \in Labels \cup {NoLabel} /\ loadedKey \in 0..MaxObjects
             /\ signature \in Labels \cup {NoSignature}
AttemptOK == /\ whose \in Identities /\ target \in {"cert", "key"} /\ attempts \in 0..MaxAttempts
             /\ handles \in [{"cert", "key"} -> 0..MaxObjects]
PlaceOK   == tlsAt \in {"idle", "context", "init", "find", "final", "attribute", "connect", "signInit",
                       "sign", "verify", "failed", "connected", "up"}

\* TlsTypeOK is the conjunction of its parts.
LEMMA TlsParts == TlsTypeOK <=> ListOK /\ FlagsOK /\ SessionOK /\ AttemptOK /\ PlaceOK
BY DEF TlsTypeOK, ListOK, FlagsOK, SessionOK, AttemptOK, PlaceOK

\* The same of the next state
LEMMA TlsPartsNext == TlsTypeOK' <=> ListOK' /\ FlagsOK' /\ SessionOK' /\ AttemptOK' /\ PlaceOK'
BY TlsParts, PTL

\* A reset leaves an empty session and an empty list.
LEMMA CleanSlate == TlsTypeOK /\ TlsReboot => TlsInv'
<1> SUFFICES ASSUME TlsTypeOK, TlsReboot PROVE TlsInv'
  OBVIOUS
<1>1. objects' = <<>> /\ objects' \in Seq(Labels) /\ Len(objects') = 0 /\ DOMAIN objects' = {}
  BY EmptySeq DEF TlsReboot
<1>2. SessionOK' /\ PlaceOK'
  BY TlsParts, TlsAssumption DEF SessionOK, PlaceOK, TlsReboot
<1>6. FlagsOK'
  BY TlsParts, Zenon DEF FlagsOK, TlsReboot
<1>5. AttemptOK'
  <2>1. 0 \in 0..MaxAttempts /\ 0 \in 0..MaxObjects  BY TlsAssumption
  <2> QED  BY <2>1 DEF AttemptOK, TlsReboot, Identities
<1>3. ListOK'
  BY <1>1, TlsAssumption DEF ListOK, IsInjective
<1>4. TlsTypeOK'  BY <1>2, <1>3, <1>5, <1>6, TlsPartsNext
<1> QED  BY <1>4 DEF TlsInv, TlsReboot, NothingLeftOpen, RightObjects, SignedOrCause, FailsForACause,
               Handshaking, Looking

\* What is not a step of the search or of the signature leaves the session and the list of
\* objects as they are.
OutsideTheSession ==
  OpenSession \/ SessionFails \/ ClaimEnds \/ DeviceConnected \/ ServerRegisters \/ Disconnect
    \/ ConfigureMbedtls \/ Backoff \/ SetupAndConnect \/ HandshakeEnds

\* aws_iot_provisioning_main and connectToBrokerWithBackoffRetries: an attempt begins with
\* nothing open, and a signature is verified with the right handles.
LEMMA OutsideStep == TlsInv /\ OutsideTheSession => TlsInv'
<1> SUFFICES ASSUME TlsInv, OutsideTheSession PROVE TlsInv'
  OBVIOUS
<1> USE DEF TlsInv
<1>1. TlsTypeOK'
  <2>1. FlagsOK' /\ PlaceOK'
    BY TlsParts DEF OutsideTheSession, OpenSession, SessionFails, ClaimEnds, DeviceConnected,
       ServerRegisters, Disconnect, ConfigureMbedtls, Backoff, SetupAndConnect, HandshakeEnds, tlsSession,
       FlagsOK, PlaceOK
  <2>2. AttemptOK' /\ SessionOK'
    BY TlsParts, TlsAssumption DEF OutsideTheSession, OpenSession, SessionFails, ClaimEnds, DeviceConnected,
       ServerRegisters, Disconnect, ConfigureMbedtls, Backoff, SetupAndConnect, HandshakeEnds, tlsSession,
       AttemptOK, SessionOK, Identities
  <2>3. objects' = objects
    BY DEF OutsideTheSession, OpenSession, SessionFails, ClaimEnds, DeviceConnected,
       ServerRegisters, Disconnect, ConfigureMbedtls, Backoff, SetupAndConnect, HandshakeEnds
  <2>4. ListOK'  BY <2>3, TlsParts DEF ListOK
  <2> QED  BY <2>1, <2>2, <2>4, TlsPartsNext
<1>2. CASE OpenSession \/ SessionFails \/ ClaimEnds \/ DeviceConnected \/ ServerRegisters \/ Disconnect
           \/ Backoff
  <2>1. NothingLeftOpen' /\ SignedOrCause' /\ FailsForACause'
    BY <1>2 DEF OpenSession, SessionFails, ClaimEnds, DeviceConnected, ServerRegisters, Disconnect, Backoff,
       tlsSession, NothingLeftOpen, SignedOrCause, FailsForACause
  <2>2. RightObjects'
    BY <1>2 DEF OpenSession, SessionFails, ClaimEnds, DeviceConnected, ServerRegisters, Disconnect, Backoff,
       RightObjects, Handshaking, Looking
  <2> QED  BY <1>1, <2>1, <2>2
<1>3. CASE ConfigureMbedtls
  <2>1. NothingLeftOpen' /\ SignedOrCause' /\ FailsForACause'
    BY <1>3 DEF ConfigureMbedtls, tlsSession, NothingLeftOpen, SignedOrCause, FailsForACause
  <2>2. RightObjects'
    BY <1>3 DEF ConfigureMbedtls, RightObjects, Handshaking, Looking
  <2> QED  BY <1>1, <2>1, <2>2
<1>4. CASE SetupAndConnect
  <2>1. NothingLeftOpen' /\ SignedOrCause' /\ FailsForACause'
    BY <1>4 DEF SetupAndConnect, tlsSession, NothingLeftOpen, SignedOrCause, FailsForACause
  <2>2. Right("key") /\ Right("cert")  BY <1>4 DEF SetupAndConnect, RightObjects, Handshaking
  <2>3. Right("key")' /\ Right("cert")'  BY <2>2, <1>4 DEF SetupAndConnect, Right
  <2>4. RightObjects'  BY <1>4, <2>3 DEF SetupAndConnect, RightObjects, Handshaking, Looking
  <2> QED  BY <1>1, <2>1, <2>4
<1>5. CASE HandshakeEnds
  <2>1. Right("key") /\ Right("cert")  BY <1>5 DEF HandshakeEnds, RightObjects, Handshaking
  <2>2. Shown = <<whose, "cert">>  BY <2>1 DEF Shown, Right
  <2>3. cause \/ Genuine  BY <1>5, <2>2 DEF HandshakeEnds, SignedOrCause, Genuine
  <2>4. FailsForACause'  BY <1>5, <2>3 DEF HandshakeEnds, FailsForACause, TlsTypeOK
  <2>5. NothingLeftOpen' /\ SignedOrCause'
    BY <1>5 DEF HandshakeEnds, tlsSession, NothingLeftOpen, SignedOrCause
  <2>6. RightObjects'  BY <1>5 DEF HandshakeEnds, RightObjects, Handshaking, Looking
  <2> QED  BY <1>1, <2>4, <2>5, <2>6
<1> QED  BY <1>2, <1>3, <1>4, <1>5 DEF OutsideTheSession

\* A handle stays right while neither it nor the list nor what was asked for changes.
LEMMA RightKept ==
  ASSUME NEW o, objects' = objects, handles' = handles, whose' = whose, Right(o)
  PROVE  Right(o)'
BY DEF Right

\* C_FindObjectsInit starts a search, for no operation is open.
LEMMA FindInitStep == TlsInv /\ C_FindObjectsInit => TlsInv'
<1> SUFFICES ASSUME TlsInv, C_FindObjectsInit PROVE TlsInv'
  OBVIOUS
<1> USE DEF TlsInv
<1>1. tlsAt = "init" /\ ~OperationActive
  BY DEF C_FindObjectsInit, NothingLeftOpen, OperationActive
<1>2. /\ objects' = objects /\ handles' = handles /\ whose' = whose /\ target' = target
      /\ inFlash' = inFlash /\ registered' = registered /\ signing' = signing /\ loadedKey' = loadedKey
      /\ attempts' = attempts /\ signature' = signature
  BY DEF C_FindObjectsInit
<1>3. \/ searching' = <<whose, target>> /\ tlsAt' = "find" /\ cause' = cause
      \/ tlsAt' = "failed" /\ cause' = TRUE /\ searching' = searching
  BY <1>1 DEF C_FindObjectsInit
<1>4. TlsTypeOK'
  <2>1. ListOK' /\ AttemptOK' /\ PlaceOK'  BY <1>2, <1>3, TlsParts DEF ListOK, AttemptOK, PlaceOK
  <2>2. FlagsOK'  BY <1>2, <1>3, TlsParts, Zenon DEF FlagsOK
  <2>3. <<whose, target>> \in Labels  BY TlsParts DEF AttemptOK, Labels
  <2>4. SessionOK'  BY <1>2, <1>3, <2>3, TlsParts DEF SessionOK
  <2> QED  BY <2>1, <2>2, <2>4, TlsPartsNext
<1>5. NothingLeftOpen' /\ SignedOrCause' /\ FailsForACause'
  BY <1>1, <1>2, <1>3 DEF NothingLeftOpen, SignedOrCause, FailsForACause
<1>6. RightObjects'
  <2>1. tlsAt' = "find" /\ target' = "cert" => Right("key")'
    BY <1>1, <1>2, RightKept DEF RightObjects, Looking
  <2> QED  BY <1>3, <2>1 DEF RightObjects, Handshaking, Looking
<1> QED  BY <1>4, <1>5, <1>6

\* C_FindObjects gives the handle of what was looked for, new in the list or there before;
\* without one something was not there or could not be read.
LEMMA FindStep == RoomForAll /\ TlsInv /\ C_FindObjects => TlsInv'
<1> SUFFICES ASSUME RoomForAll, TlsInv, C_FindObjects PROVE TlsInv'
  OBVIOUS
<1> USE DEF TlsInv
<1>1. /\ tlsAt = "find" /\ searching = <<whose, target>> /\ ~signing /\ loadedKey = 0
      /\ inFlash' = inFlash /\ registered' = registered /\ signing' = signing /\ loadedKey' = loadedKey
      /\ whose' = whose /\ target' = target /\ attempts' = attempts /\ signature' = signature
  BY DEF C_FindObjects, NothingLeftOpen
<1>2. /\ whose \in Identities /\ target \in {"cert", "key"} /\ handles \in [{"cert", "key"} -> 0..MaxObjects]
      /\ objects \in Seq(Labels) /\ Len(objects) \in Nat /\ DOMAIN objects = 1..Len(objects)
      /\ Len(objects) <= MaxObjects /\ searching \in Labels
  BY <1>1, TlsParts, LenProperties DEF AttemptOK, ListOK, Labels
<1>3. target = "cert" => Right("key")
  BY <1>1 DEF RightObjects, Looking
\* What the rest needs of the new handle and the new list
<1>4. ASSUME NEW n \in 0..MaxObjects, handles' = [handles EXCEPT ![target] = n], tlsAt' = "final",
             searching' = searching, ListOK', cause' \in BOOLEAN,
             \A h \in 1..Len(objects) : h \in 1..Len(objects') /\ objects'[h] = objects[h],
             (n \in 1..Len(objects') /\ objects'[n] = searching) \/ (n = 0 /\ cause')
      PROVE  TlsInv'
  <2>1. handles' \in [{"cert", "key"} -> 0..MaxObjects] /\ handles'[target] = n
        /\ (target = "cert" => handles'["key"] = handles["key"])
    BY <1>2, <1>4
  <2>2. TlsTypeOK'
    <3>1. AttemptOK' /\ PlaceOK'  BY <1>1, <1>4, <2>1, TlsParts DEF AttemptOK, PlaceOK
    <3>2. FlagsOK'  BY <1>1, <1>4, TlsParts, Zenon DEF FlagsOK
    <3>3. SessionOK'  BY <1>1, <1>4, TlsParts DEF SessionOK
    <3> QED  BY <1>4, <3>1, <3>2, <3>3, TlsPartsNext
  <2>3. NothingLeftOpen' /\ SignedOrCause' /\ FailsForACause'
    BY <1>1, <1>4 DEF NothingLeftOpen, SignedOrCause, FailsForACause
  <2>4. target = "cert" => Right("key")'
    BY <1>1, <1>3, <1>4, <2>1 DEF Right
  <2>5. Right(target)' \/ (handles'[target'] = 0 /\ cause')
    BY <1>1, <1>4, <2>1 DEF Right
  <2>6. RightObjects'
    BY <1>1, <1>4, <2>4, <2>5 DEF RightObjects, Handshaking, Looking, Right
  <2> QED  BY <2>2, <2>3, <2>6
<1>5. CASE \E h \in DOMAIN objects : objects[h] = searching
  <2> DEFINE n == CHOOSE h \in DOMAIN objects : objects[h] = searching
  <2>1. n \in 1..Len(objects) /\ objects[n] = searching  BY <1>2, <1>5
  <2>2. handles' = [handles EXCEPT ![target] = n] /\ tlsAt' = "final" /\ objects' = objects
        /\ searching' = searching /\ cause' = cause
    BY <1>5 DEF C_FindObjects
  <2> HIDE DEF n
  <2>3. n \in 0..MaxObjects  BY <1>2, <2>1, TlsAssumption
  <2>4. ListOK'  BY <2>2, TlsParts DEF ListOK
  <2>5. cause' \in BOOLEAN  BY <2>2, TlsParts, Zenon DEF FlagsOK
  <2> QED  BY <1>4, <2>1, <2>2, <2>3, <2>4, <2>5
<1>6. CASE ~\E h \in DOMAIN objects : objects[h] = searching
  <2>1. Len(objects) < MaxObjects  BY <1>2, <1>6, ObjectFindsRoom
  <2>2. CASE Added(searching) /\ UNCHANGED cause
    <3>1. objects' = Append(objects, searching) /\ handles' = [handles EXCEPT ![target] = Len(objects) + 1]
          /\ tlsAt' = "final" /\ searching' = searching /\ cause' = cause
      BY <2>1, <2>2 DEF Added
    <3>2. PICK n \in 0..MaxObjects : n = Len(objects) + 1
      BY <1>2, <2>1, TlsAssumption
    <3>3. objects' \in Seq(Labels) /\ Len(objects') = n /\ objects'[n] = searching
          /\ \A h \in 1..Len(objects) : objects'[h] = objects[h]
      BY <1>2, <3>1, <3>2, AppendProperties
    <3>4. ListOK'
      <4>1. DOMAIN objects' = 1..n  BY <3>3, LenProperties
      <4>2. \A a, b \in 1..Len(objects) : objects[a] = objects[b] => a = b
        BY <1>2, TlsParts DEF ListOK, IsInjective
      <4>3. \A a, b \in 1..n : objects'[a] = objects'[b] => a = b
        BY <1>2, <1>6, <3>2, <3>3, <4>2
      <4> QED  BY <3>3, <4>1, <4>3 DEF ListOK, IsInjective
    <3>5. cause' \in BOOLEAN  BY <3>1, TlsParts, Zenon DEF FlagsOK
    <3>6. \A h \in 1..Len(objects) : h \in 1..Len(objects')  BY <1>2, <3>2, <3>3
    <3>7. n \in 1..Len(objects')  BY <1>2, <3>2, <3>3
    <3> QED  BY <1>4, <3>1, <3>2, <3>3, <3>4, <3>5, <3>6, <3>7
  <2>3. CASE ~(Added(searching) /\ UNCHANGED cause)
    <3>1. handles' = [handles EXCEPT ![target] = 0] /\ cause' = TRUE /\ tlsAt' = "final"
          /\ objects' = objects /\ searching' = searching
      BY <1>6, <2>3 DEF C_FindObjects
    <3>2. ListOK'  BY <3>1, TlsParts DEF ListOK
    <3>3. 0 \in 0..MaxObjects  BY TlsAssumption
    <3> QED  BY <1>4, <3>1, <3>2, <3>3
  <2> QED  BY <2>2, <2>3
<1> QED  BY <1>5, <1>6

\* C_FindObjectsFinal closes the search, whatever it has found.
LEMMA FindFinalStep == TlsInv /\ C_FindObjectsFinal => TlsInv'
<1> SUFFICES ASSUME TlsInv, C_FindObjectsFinal PROVE TlsInv'
  OBVIOUS
<1> USE DEF TlsInv
<1>1. /\ tlsAt = "final" /\ tlsAt' = "attribute" /\ searching' = NoLabel
      /\ objects' = objects /\ handles' = handles /\ whose' = whose /\ target' = target
      /\ inFlash' = inFlash /\ registered' = registered /\ signing' = signing /\ loadedKey' = loadedKey
      /\ attempts' = attempts /\ signature' = signature /\ cause' = cause
  BY DEF C_FindObjectsFinal
<1>2. TlsTypeOK'
  <2>1. ListOK' /\ AttemptOK' /\ PlaceOK'  BY <1>1, TlsParts DEF ListOK, AttemptOK, PlaceOK
  <2>2. FlagsOK' /\ SessionOK'  BY <1>1, TlsParts, Zenon DEF FlagsOK, SessionOK
  <2> QED  BY <2>1, <2>2, TlsPartsNext
<1>3. NothingLeftOpen' /\ SignedOrCause' /\ FailsForACause'
  BY <1>1 DEF NothingLeftOpen, SignedOrCause, FailsForACause
<1>4. RightObjects'
  <2>1. target = "cert" => Right("key")'
    BY <1>1, RightKept DEF RightObjects, Looking
  <2>2. Right(target)' \/ (handles'[target'] = 0 /\ cause')
    BY <1>1 DEF RightObjects, Right
  <2> QED  BY <1>1, <2>1, <2>2 DEF RightObjects, Handshaking, Looking, Right
<1> QED  BY <1>2, <1>3, <1>4

\* C_GetAttributeValue: after the key the certificate, after the certificate the handshake;
\* without a handle it fails, and the search has already noted the cause.
LEMMA AttributeStep == TlsInv /\ C_GetAttributeValue => TlsInv'
<1> SUFFICES ASSUME TlsInv, C_GetAttributeValue PROVE TlsInv'
  OBVIOUS
<1> USE DEF TlsInv
<1>1. /\ tlsAt = "attribute"
      /\ objects' = objects /\ handles' = handles /\ whose' = whose /\ searching' = searching
      /\ inFlash' = inFlash /\ registered' = registered /\ signing' = signing /\ loadedKey' = loadedKey
      /\ attempts' = attempts /\ signature' = signature
  BY DEF C_GetAttributeValue, tlsSession
<1>2. \/ target = "key" /\ handles[target] # 0 /\ target' = "cert" /\ tlsAt' = "init" /\ cause' = cause
      \/ target # "key" /\ handles[target] # 0 /\ target' = target /\ tlsAt' = "connect" /\ cause' = cause
      \/ tlsAt' = "failed" /\ target' = target /\ cause' = (cause \/ handles[target] # 0)
  BY DEF C_GetAttributeValue
<1>3. TlsTypeOK'
  <2>1. ListOK' /\ AttemptOK' /\ PlaceOK'  BY <1>1, <1>2, TlsParts DEF ListOK, AttemptOK, PlaceOK
  <2>2. SessionOK'  BY <1>1, TlsParts, Zenon DEF SessionOK
  <2>3. cause' \in BOOLEAN  BY <1>2, TlsParts, Zenon DEF FlagsOK
  <2>4. FlagsOK'  BY <1>1, <2>3, TlsParts, Zenon DEF FlagsOK
  <2> QED  BY <2>1, <2>2, <2>4, TlsPartsNext
<1>4. NothingLeftOpen' /\ SignedOrCause'
  BY <1>1, <1>2 DEF NothingLeftOpen, SignedOrCause
<1>5. FailsForACause'
  <2>1. handles[target] # 0 \/ cause
    BY <1>1 DEF RightObjects, Right
  <2> QED  BY <1>2, <2>1, Zenon DEF FailsForACause
<1>6. RightObjects'
  <2>1. target \in {"key", "cert"}  BY TlsParts DEF AttemptOK
  <2>2. handles[target] # 0 => Right(target)  BY <1>1 DEF RightObjects
  <2>3. target = "cert" => Right("key")  BY <1>1 DEF RightObjects, Looking
  <2>4. CASE tlsAt' = "init"
    <3>1. Right("key")  BY <1>2, <2>2, <2>4
    <3>2. Right("key")'  BY <1>1, <3>1, RightKept
    <3> QED  BY <2>4, <3>2 DEF RightObjects, Handshaking, Looking
  <2>5. CASE tlsAt' = "connect"
    <3>1. target = "cert" /\ handles[target] # 0  BY <1>2, <2>1, <2>5
    <3>2. Right("key")' /\ Right("cert")'  BY <1>1, <2>2, <2>3, <3>1, RightKept
    <3> QED  BY <2>5, <3>2 DEF RightObjects, Handshaking, Looking
  <2>6. CASE tlsAt' = "failed"
    BY <2>6 DEF RightObjects, Handshaking, Looking
  <2> QED  BY <1>2, <2>4, <2>5, <2>6
<1> QED  BY <1>3, <1>4, <1>5, <1>6

\* C_SignInit takes the key of this attempt, for no operation is open and no key is loaded.
LEMMA SignInitStep == TlsInv /\ C_SignInit => TlsInv'
<1> SUFFICES ASSUME TlsInv, C_SignInit PROVE TlsInv'
  OBVIOUS
<1> USE DEF TlsInv
<1>1. tlsAt = "signInit" /\ ~OperationActive /\ loadedKey = 0 /\ searching = NoLabel /\ signing = FALSE
  BY TlsParts DEF C_SignInit, NothingLeftOpen, OperationActive, FlagsOK
<1>2. /\ objects' = objects /\ handles' = handles /\ whose' = whose /\ searching' = searching
      /\ inFlash' = inFlash /\ registered' = registered /\ target' = target
      /\ attempts' = attempts /\ signature' = signature
  BY DEF C_SignInit
<1>3. \/ loadedKey' = handles["key"] /\ signing' = TRUE /\ tlsAt' = "sign" /\ cause' = cause
      \/ cause' = TRUE /\ tlsAt' = "verify" /\ loadedKey' = 0 /\ signing' = signing
  BY <1>1 DEF C_SignInit, KeyIsLoaded
<1>4. TlsTypeOK'
  <2>1. ListOK' /\ AttemptOK' /\ PlaceOK'  BY <1>2, <1>3, TlsParts DEF ListOK, AttemptOK, PlaceOK
  <2>2. loadedKey' \in 0..MaxObjects  BY <1>3, TlsParts, TlsAssumption DEF AttemptOK
  <2>3. SessionOK'  BY <1>2, <2>2, TlsParts DEF SessionOK
  <2>4. FlagsOK'  BY <1>2, <1>3, TlsParts, Zenon DEF FlagsOK
  <2> QED  BY <2>1, <2>3, <2>4, TlsPartsNext
<1>5. NothingLeftOpen'
  BY <1>1, <1>2, <1>3 DEF NothingLeftOpen
<1>6. SignedOrCause' /\ FailsForACause'
  BY <1>3 DEF SignedOrCause, FailsForACause
<1>7. Right("key")' /\ Right("cert")'
  BY <1>1, <1>2, RightKept DEF RightObjects, Handshaking
<1>8. RightObjects'  BY <1>3, <1>7 DEF RightObjects, Handshaking, Looking
<1> QED  BY <1>4, <1>5, <1>6, <1>8

\* C_Sign signs with the loaded key, and the session is clean after it.
LEMMA SignStep == TlsInv /\ C_Sign => TlsInv'
<1> SUFFICES ASSUME TlsInv, C_Sign PROVE TlsInv'
  OBVIOUS
<1> USE DEF TlsInv
<1>1. /\ tlsAt = "sign" /\ tlsAt' = "verify" /\ signing' = FALSE /\ loadedKey' = 0 /\ searching = NoLabel
      /\ loadedKey = handles["key"]
      /\ objects' = objects /\ handles' = handles /\ whose' = whose /\ searching' = searching
      /\ inFlash' = inFlash /\ registered' = registered /\ target' = target /\ attempts' = attempts
  BY DEF C_Sign, NothingLeftOpen
<1>2. Right("key") /\ Right("cert")  BY <1>1 DEF RightObjects, Handshaking
<1>3. \/ signature' = <<whose, "key">> /\ cause' = cause
      \/ signature' = signature /\ cause' = TRUE
  BY <1>1, <1>2 DEF C_Sign, Right
<1>4. TlsTypeOK'
  <2>1. ListOK' /\ AttemptOK' /\ PlaceOK'  BY <1>1, TlsParts DEF ListOK, AttemptOK, PlaceOK
  <2>2. <<whose, "key">> \in Labels  BY TlsParts DEF AttemptOK, Labels
  <2>3. SessionOK'  BY <1>1, <1>3, <2>2, TlsParts, TlsAssumption DEF SessionOK
  <2>4. FlagsOK'  BY <1>1, <1>3, TlsParts, Zenon DEF FlagsOK
  <2> QED  BY <2>1, <2>3, <2>4, TlsPartsNext
<1>5. NothingLeftOpen'  BY <1>1 DEF NothingLeftOpen
<1>6. SignedOrCause' /\ FailsForACause'
  BY <1>1, <1>3 DEF SignedOrCause, FailsForACause
<1>7. Right("key")' /\ Right("cert")'  BY <1>1, <1>2, RightKept
<1>8. RightObjects'  BY <1>1, <1>7 DEF RightObjects, Handshaking, Looking
<1> QED  BY <1>4, <1>5, <1>6, <1>8

\* TlsInv is an invariant of the connection attempts (aws_iot_provisioning_main down to the
\* PKCS #11 module), if the list of objects has room for both identities.
THEOREM TlsInvariant == ASSUME RoomForAll PROVE TlsSpec => []TlsInv
<1>1. TlsInit => TlsInv
  <2> SUFFICES ASSUME TlsInit PROVE TlsInv
    OBVIOUS
  <2>1. objects \in Seq(Labels) /\ Len(objects) = 0 /\ DOMAIN objects = {}
    BY EmptySeq DEF TlsInit
  <2>2. ListOK  BY <2>1, TlsAssumption DEF ListOK, IsInjective
  <2>3. FlagsOK /\ PlaceOK  BY DEF TlsInit, FlagsOK, PlaceOK
  <2>4. 0 \in 0..MaxAttempts /\ 0 \in 0..MaxObjects  BY TlsAssumption
  <2>5. AttemptOK /\ SessionOK  BY <2>4 DEF TlsInit, AttemptOK, SessionOK, Identities
  <2>6. TlsTypeOK  BY <2>2, <2>3, <2>5, TlsParts
  <2> QED  BY <2>6 DEF TlsInit, TlsInv, NothingLeftOpen, RightObjects, SignedOrCause, FailsForACause,
                 Handshaking, Looking
<1>2. TlsInv /\ [TlsNext]_tlsVars => TlsInv'
  <2> SUFFICES ASSUME TlsInv, [TlsNext]_tlsVars PROVE TlsInv'
    OBVIOUS
  <2>1. CASE OutsideTheSession  BY <2>1, OutsideStep
  <2>2. CASE C_FindObjectsInit  BY <2>2, FindInitStep
  <2>3. CASE C_FindObjects  BY <2>3, RoomForAll, FindStep
  <2>4. CASE FindObjectFreesTwice \/ SignInitFreesTwice
    BY <2>4, CleanSlate DEF TlsInv, FindObjectFreesTwice, SignInitFreesTwice
  <2>5. CASE C_FindObjectsFinal  BY <2>5, FindFinalStep
  <2>6. CASE C_GetAttributeValue  BY <2>6, AttributeStep
  <2>7. CASE C_SignInit  BY <2>7, SignInitStep
  <2>8. CASE C_Sign  BY <2>8, SignStep
  <2>9. CASE UNCHANGED tlsVars
    <3>1. TlsTypeOK'  BY <2>9 DEF TlsInv, TlsTypeOK, tlsVars, tlsSession, IsInjective
    <3>2. NothingLeftOpen' /\ SignedOrCause' /\ FailsForACause'
      BY <2>9 DEF TlsInv, tlsVars, tlsSession, NothingLeftOpen, SignedOrCause, FailsForACause
    <3>3. RightObjects'
      BY <2>9 DEF TlsInv, tlsVars, RightObjects, Right, Handshaking, Looking
    <3> QED  BY <3>1, <3>2, <3>3 DEF TlsInv
  <2> QED  BY <2>1, <2>2, <2>3, <2>4, <2>5, <2>6, <2>7, <2>8, <2>9 DEF TlsNext, OutsideTheSession
<1> QED  BY <1>1, <1>2, PTL DEF TlsSpec

\* An attempt to connect fails for a cause of its own: no earlier attempt, of this call or of
\* another one, leaves something in the session or in the list of objects that makes it fail.
THEOREM FailsForACauseCorrect == ASSUME RoomForAll PROVE TlsSpec => []FailsForACause
<1>1. TlsInv => FailsForACause  BY DEF TlsInv
<1> QED  BY <1>1, TlsInvariant, PTL

-----------------------------------------------------------------------------
(* BleMotion: what the task has yet to take, of ble_rx_queue and of the air, as one sequence. *)

\* A packet of the air is an orphan when its start has gone by and was dropped.
InAir(a, h, i) == [a[i] EXCEPT !.orphan = ~a[i].start /\ ~h /\ ~a[1].start]

Coming(r, a, h) ==
  [i \in 1..Len(r) + Len(a) |-> IF i <= Len(r) THEN r[i] ELSE InAir(a, h, i - Len(r))]

\* No start comes after the i-th, up to the j-th.
SameTransfer(c, i, j) == \A k \in i + 1..j : ~c[k].start

\* What comes before a packet of a transfer, and after the start of it, are packets of it.
InOrder(c) ==
  \A j \in DOMAIN c : ~c[j].start /\ ~c[j].orphan =>
    \A i \in 1..j - 1 : SameTransfer(c, i, j) =>
      c[i].of > 0 /\ (~c[i].start => ~c[i].orphan /\ c[i].of < c[j].of)

\* The packets of the transfer that goes on have not been counted yet.
Uncounted(c, n) ==
  \A j \in DOMAIN c : ~c[j].orphan /\ SameTransfer(c, 0, j) => n <= (c[j].of - 1) * PerPacket

BleMessage == [start : BOOLEAN, of : Nat, orphan : BOOLEAN]

BleTyped ==
  /\ rxQueue \in Seq(BleMessage) /\ air \in Seq(BleMessage)
  /\ {heard, orphans} \subseteq BOOLEAN /\ {counted, expected, points, ackOf} \subseteq Nat

Messaging ==
  /\ \A i \in 1..Len(rxQueue) : IF rxQueue[i].start THEN ~rxQueue[i].orphan ELSE rxQueue[i].of > 0
  /\ \A i \in 1..Len(air) : ~air[i].orphan /\ (i > 1 => ~air[i].start) /\ (~air[i].start => air[i].of > 0)

BleInv ==
  /\ BleTyped /\ Messaging /\ AckedIsLast
  /\ InOrder(Coming(rxQueue, air, heard)) /\ Uncounted(Coming(rxQueue, air, heard), counted)

\* A sequence that stops earlier
LEMMA PrefixKeeps ==
  ASSUME NEW n \in Nat, NEW m \in Nat, m <= n, NEW c, NEW d, NEW x,
         DOMAIN c = 1..n, DOMAIN d = 1..m, \A i \in 1..m : d[i] = c[i],
         InOrder(c), Uncounted(c, x)
  PROVE  InOrder(d) /\ Uncounted(d, x)
<1>1. \A i \in 0..m, j \in 1..m : SameTransfer(d, i, j) => SameTransfer(c, i, j)
  BY DEF SameTransfer
<1>2. InOrder(d)
  <2> SUFFICES ASSUME NEW j \in 1..m, ~d[j].start, ~d[j].orphan, NEW i \in 1..j - 1, SameTransfer(d, i, j)
               PROVE  d[i].of > 0 /\ (~d[i].start => ~d[i].orphan /\ d[i].of < d[j].of)
    BY DEF InOrder
  <2>1. i \in 1..m /\ d[i] = c[i] /\ d[j] = c[j] /\ j \in 1..n  OBVIOUS
  <2>2. SameTransfer(c, i, j)  BY <1>1
  <2> QED  BY <2>1, <2>2 DEF InOrder
<1>3. Uncounted(d, x)
  <2> SUFFICES ASSUME NEW j \in 1..m, ~d[j].orphan, SameTransfer(d, 0, j)
               PROVE  x <= (d[j].of - 1) * PerPacket
    BY DEF Uncounted
  <2>1. d[j] = c[j] /\ j \in 1..n  OBVIOUS
  <2>2. SameTransfer(c, 0, j)  BY <1>1
  <2> QED  BY <2>1, <2>2 DEF Uncounted
<1> QED  BY <1>2, <1>3

\* One message is dropped: a packet, or a start that leaves orphans.
LEMMA DropKeeps ==
  ASSUME NEW n \in Nat, NEW p \in 1..n, NEW c, NEW d, NEW x,
         DOMAIN c = 1..n, DOMAIN d = 1..n - 1, \A i \in 1..p - 1 : d[i] = c[i],
         \/ \A i \in p..n - 1 : d[i].orphan
         \/ ~c[p].start /\ \A i \in p..n - 1 : d[i] = c[i + 1],
         InOrder(c), Uncounted(c, x)
  PROVE  InOrder(d) /\ Uncounted(d, x)
<1>1. \A j \in 1..p - 1 : \A i \in 0..j : SameTransfer(d, i, j) => SameTransfer(c, i, j)
  BY DEF SameTransfer
<1>2. ASSUME ~c[p].start, \A i \in p..n - 1 : d[i] = c[i + 1], NEW j \in p..n - 1, NEW i \in 0..j - 1,
             SameTransfer(d, i, j)
      PROVE  IF i < p THEN SameTransfer(c, i, j + 1) ELSE SameTransfer(c, i + 1, j + 1)
  <2> SUFFICES ASSUME NEW k \in (IF i < p THEN i + 1 ELSE i + 2)..j + 1
               PROVE  ~c[k].start
    BY DEF SameTransfer
  <2>1. CASE k < p
    <3>1. k \in i + 1..j /\ d[k] = c[k]  BY <2>1
    <3> QED  BY <3>1, <1>2 DEF SameTransfer
  <2>2. CASE k = p  BY <2>2, <1>2
  <2>3. CASE k > p
    <3>1. k - 1 \in i + 1..j /\ k - 1 \in p..n - 1  BY <2>3
    <3>2. d[k - 1] = c[(k - 1) + 1] /\ (k - 1) + 1 = k  BY <3>1, <1>2
    <3>3. ~d[k - 1].start  BY <3>1, <1>2 DEF SameTransfer
    <3> QED  BY <3>2, <3>3
  <2> QED  BY <2>1, <2>2, <2>3
<1>3. InOrder(d)
  <2> SUFFICES ASSUME NEW j \in 1..n - 1, ~d[j].start, ~d[j].orphan, NEW i \in 1..j - 1, SameTransfer(d, i, j)
               PROVE  d[i].of > 0 /\ (~d[i].start => ~d[i].orphan /\ d[i].of < d[j].of)
    BY DEF InOrder
  <2>1. CASE j < p
    <3>1. j \in 1..p - 1 /\ i \in 0..j /\ d[i] = c[i] /\ d[j] = c[j] /\ j \in 1..n  BY <2>1
    <3>2. SameTransfer(c, i, j)  BY <3>1, <1>1
    <3> QED  BY <3>1, <3>2 DEF InOrder
  <2>2. CASE j >= p
    <3>1. ~c[p].start /\ (\A k \in p..n - 1 : d[k] = c[k + 1]) /\ j \in p..n - 1 /\ i \in 0..j - 1  BY <2>2
    <3>2. d[j] = c[j + 1] /\ j + 1 \in 1..n  BY <3>1
    <3>3. CASE i < p
      <4>1. SameTransfer(c, i, j + 1)  BY <3>1, <3>3, <1>2
      <4>2. d[i] = c[i] /\ i \in 1..(j + 1) - 1  BY <3>3
      <4> QED  BY <3>2, <4>1, <4>2 DEF InOrder
    <3>4. CASE i >= p
      <4>1. SameTransfer(c, i + 1, j + 1)  BY <3>1, <3>4, <1>2
      <4>2. d[i] = c[i + 1] /\ i + 1 \in 1..(j + 1) - 1  BY <3>1, <3>4
      <4> QED  BY <3>2, <4>1, <4>2 DEF InOrder
    <3> QED  BY <3>3, <3>4
  <2> QED  BY <2>1, <2>2
<1>4. Uncounted(d, x)
  <2> SUFFICES ASSUME NEW j \in 1..n - 1, ~d[j].orphan, SameTransfer(d, 0, j)
               PROVE  x <= (d[j].of - 1) * PerPacket
    BY DEF Uncounted
  <2>1. CASE j < p
    <3>1. j \in 1..p - 1 /\ 0 \in 0..j /\ d[j] = c[j] /\ j \in 1..n  BY <2>1
    <3>2. SameTransfer(c, 0, j)  BY <3>1, <1>1
    <3> QED  BY <3>1, <3>2 DEF Uncounted
  <2>2. CASE j >= p
    <3>1. ~c[p].start /\ (\A k \in p..n - 1 : d[k] = c[k + 1]) /\ j \in p..n - 1 /\ 0 \in 0..j - 1 /\ 0 < p
      BY <2>2
    <3>2. d[j] = c[j + 1] /\ j + 1 \in 1..n  BY <3>1
    <3>3. SameTransfer(c, 0, j + 1)  BY <3>1, <1>2
    <3> QED  BY <3>2, <3>3 DEF Uncounted
  <2> QED  BY <2>1, <2>2
<1> QED  BY <1>3, <1>4

\* The first message is taken: a start, or a packet, which is counted.
LEMMA TakeKeeps ==
  ASSUME NEW n \in Nat, n > 0, NEW c, NEW d, NEW x \in Nat, NEW y \in Nat,
         DOMAIN c = 1..n, DOMAIN d = 1..n - 1, \A i \in 1..n - 1 : d[i] = c[i + 1],
         \A i \in 1..n : c[i] \in BleMessage /\ (~c[i].start => c[i].of > 0),
         IF c[1].start THEN c[1].of > 0 => y = 0 ELSE y <= x + PerPacket,
         InOrder(c), Uncounted(c, x)
  PROVE  InOrder(d) /\ Uncounted(d, y)
<1>1. ASSUME NEW j \in 1..n - 1, NEW i \in 0..j, SameTransfer(d, i, j)
      PROVE  SameTransfer(c, i + 1, j + 1)
  <2> SUFFICES ASSUME NEW k \in (i + 1) + 1..j + 1 PROVE ~c[k].start  BY DEF SameTransfer
  <2>1. k - 1 \in i + 1..j /\ k - 1 \in 1..n - 1  OBVIOUS
  <2>2. d[k - 1] = c[(k - 1) + 1] /\ (k - 1) + 1 = k  BY <2>1
  <2> QED  BY <2>1, <2>2, <1>1 DEF SameTransfer
<1>2. InOrder(d)
  <2> SUFFICES ASSUME NEW j \in 1..n - 1, ~d[j].start, ~d[j].orphan, NEW i \in 1..j - 1, SameTransfer(d, i, j)
               PROVE  d[i].of > 0 /\ (~d[i].start => ~d[i].orphan /\ d[i].of < d[j].of)
    BY DEF InOrder
  <2>1. d[j] = c[j + 1] /\ d[i] = c[i + 1] /\ j + 1 \in 1..n /\ i + 1 \in 1..(j + 1) - 1 /\ i \in 0..j  OBVIOUS
  <2>2. SameTransfer(c, i + 1, j + 1)  BY <1>1, <2>1
  <2> QED  BY <2>1, <2>2 DEF InOrder
<1>3. Uncounted(d, y)
  <2> SUFFICES ASSUME NEW j \in 1..n - 1, ~d[j].orphan, SameTransfer(d, 0, j)
               PROVE  y <= (d[j].of - 1) * PerPacket
    BY DEF Uncounted
  <2>1. d[j] = c[j + 1] /\ j + 1 \in 1..n /\ 1 \in 1..(j + 1) - 1 /\ 0 \in 0..j /\ 1 \in 1..n  OBVIOUS
  <2>2. SameTransfer(c, 1, j + 1)
    <3>1. SameTransfer(c, 0 + 1, j + 1)  BY <1>1, <2>1
    <3> QED  BY <3>1
  <2>3. ~c[j + 1].start  BY <2>1, <2>2 DEF SameTransfer
  <2>4. c[1].of > 0 /\ (~c[1].start => ~c[1].orphan /\ c[1].of < c[j + 1].of)
    BY <2>1, <2>2, <2>3 DEF InOrder
  <2>5. PICK a, b, q : a = c[1].of /\ b = c[j + 1].of /\ q = PerPacket  OBVIOUS
  <2>6. a \in Nat /\ b \in Nat /\ b > 0 /\ a > 0 /\ q \in Nat
    BY <2>1, <2>3, <2>4, <2>5, BleAssumption DEF BleMessage
  <2>7. CASE c[1].start
    <3>1. y = 0  BY <2>4, <2>7
    <3>2. b - 1 \in Nat /\ (b - 1) * q >= 0  BY <2>6
    <3> QED  BY <3>1, <3>2, <2>1, <2>5
  <2>8. CASE ~c[1].start
    <3>1. SameTransfer(c, 0, 1)  BY <2>8 DEF SameTransfer
    <3>2. x <= (a - 1) * q  BY <3>1, <2>1, <2>4, <2>5, <2>8 DEF Uncounted
    <3>3. y <= x + q  BY <2>5, <2>8
    <3>4. (a - 1) * q + q = a * q  BY <2>6
    <3>5. a * q <= (b - 1) * q
      <4>1. a <= b - 1 /\ b - 1 \in Nat  BY <2>4, <2>5, <2>6, <2>8
      <4>2. (b - 1) * q = a * q + ((b - 1) - a) * q /\ ((b - 1) - a) * q >= 0  BY <4>1, <2>6
      <4> QED  BY <4>1, <4>2, <2>6
    <3>6. (a - 1) * q \in Int /\ a * q \in Int /\ (b - 1) * q \in Int  BY <2>6
    <3>7. y <= (b - 1) * q  BY <3>2, <3>3, <3>4, <3>5, <3>6, <2>6
    <3> QED  BY <3>7, <2>1, <2>5
  <2> QED  BY <2>7, <2>8
<1> QED  BY <1>2, <1>3

\* An answer comes behind what is in the queue.
LEMMA AnswerKeeps ==
  ASSUME NEW n \in Nat, NEW m \in Nat, NEW c, NEW d, NEW x,
         DOMAIN c = 1..n, DOMAIN d = 1..n + 1 + m, \A i \in 1..n : d[i] = c[i],
         d[n + 1].start, m > 0 => d[n + 1].of > 0,
         \A k \in 1..m : ~d[n + 1 + k].start /\ ~d[n + 1 + k].orphan /\ d[n + 1 + k].of = k,
         InOrder(c), Uncounted(c, x)
  PROVE  InOrder(d) /\ Uncounted(d, x)
<1>1. \A j \in 1..n, i \in 0..n : SameTransfer(d, i, j) => SameTransfer(c, i, j)  BY DEF SameTransfer
<1>2. ASSUME NEW j \in n + 1..n + 1 + m, NEW i \in 0..n PROVE ~SameTransfer(d, i, j)
  BY n + 1 \in i + 1..j DEF SameTransfer
<1>3. InOrder(d)
  <2> SUFFICES ASSUME NEW j \in 1..n + 1 + m, ~d[j].start, ~d[j].orphan, NEW i \in 1..j - 1,
                      SameTransfer(d, i, j)
               PROVE  d[i].of > 0 /\ (~d[i].start => ~d[i].orphan /\ d[i].of < d[j].of)
    BY DEF InOrder
  <2>1. CASE j <= n
    <3>1. j \in 1..n /\ i \in 0..n /\ d[i] = c[i] /\ d[j] = c[j]  BY <2>1
    <3>2. SameTransfer(c, i, j)  BY <3>1, <1>1
    <3> QED  BY <3>1, <3>2 DEF InOrder
  <2>2. CASE j > n
    <3>1. j \in n + 1..n + 1 + m /\ j # n + 1  BY <2>2
    <3>2. i >= n + 1  BY <3>1, <1>2
    <3>3. PICK k \in 1..m : j = n + 1 + k
      <4>1. j - (n + 1) \in 1..m /\ j = n + 1 + (j - (n + 1))  BY <3>1
      <4> QED  BY <4>1
    <3>4. CASE i = n + 1  BY <3>3, <3>4
    <3>5. CASE i > n + 1
      <4>1. PICK l \in 1..m : i = n + 1 + l
        <5>1. i - (n + 1) \in 1..m /\ i = n + 1 + (i - (n + 1))  BY <3>5, <3>3
        <5> QED  BY <5>1
      <4>2. l < k  BY <4>1, <3>3
      <4>3. ~d[i].start /\ ~d[i].orphan /\ d[i].of = l  BY <4>1
      <4>4. d[j].of = k  BY <3>3
      <4> QED  BY <4>2, <4>3, <4>4
    <3> QED  BY <3>2, <3>4, <3>5
  <2> QED  BY <2>1, <2>2
<1>4. Uncounted(d, x)
  <2> SUFFICES ASSUME NEW j \in 1..n + 1 + m, ~d[j].orphan, SameTransfer(d, 0, j)
               PROVE  x <= (d[j].of - 1) * PerPacket
    BY DEF Uncounted
  <2>1. CASE j <= n
    <3>1. j \in 1..n /\ 0 \in 0..n /\ d[j] = c[j]  BY <2>1
    <3>2. SameTransfer(c, 0, j)  BY <3>1, <1>1
    <3> QED  BY <3>1, <3>2 DEF Uncounted
  <2>2. CASE j > n  BY <2>2, <1>2, j \in n + 1..n + 1 + m
  <2> QED  BY <2>1, <2>2
<1> QED  BY <1>3, <1>4

\* The messages to come are messages.
LEMMA ComingMessages ==
  ASSUME BleTyped, Messaging
  PROVE  /\ DOMAIN Coming(rxQueue, air, heard) = 1..Len(rxQueue) + Len(air)
         /\ Len(rxQueue) \in Nat /\ Len(air) \in Nat
         /\ \A i \in 1..Len(rxQueue) : rxQueue[i] \in BleMessage
         /\ \A i \in 1..Len(air) : air[i] \in BleMessage
         /\ \A i \in 1..Len(rxQueue) + Len(air) :
              Coming(rxQueue, air, heard)[i] \in BleMessage
                /\ (~Coming(rxQueue, air, heard)[i].start => Coming(rxQueue, air, heard)[i].of > 0)
<1>1. Len(rxQueue) \in Nat /\ Len(air) \in Nat  BY LenProperties DEF BleTyped
<1>2. \A i \in 1..Len(rxQueue) : rxQueue[i] \in BleMessage  BY ElementOfSeq DEF BleTyped
<1>3. \A i \in 1..Len(air) : air[i] \in BleMessage  BY ElementOfSeq DEF BleTyped
<1>4. DOMAIN Coming(rxQueue, air, heard) = 1..Len(rxQueue) + Len(air)  BY <1>1 DEF Coming
<1>5. ASSUME NEW i \in 1..Len(rxQueue) + Len(air)
      PROVE  Coming(rxQueue, air, heard)[i] \in BleMessage
               /\ (~Coming(rxQueue, air, heard)[i].start => Coming(rxQueue, air, heard)[i].of > 0)
  <2>1. CASE i <= Len(rxQueue)
    <3>1. Coming(rxQueue, air, heard)[i] = rxQueue[i] /\ i \in 1..Len(rxQueue)  BY <2>1, <1>1 DEF Coming
    <3> QED  BY <3>1, <1>2 DEF Messaging
  <2>2. CASE i > Len(rxQueue)
    <3>1. PICK k \in 1..Len(air) : k = i - Len(rxQueue)  BY <2>2, <1>1
    <3>2. Coming(rxQueue, air, heard)[i] = InAir(air, heard, k)  BY <2>2, <1>1, <3>1 DEF Coming
    <3>3. air[k] \in BleMessage /\ (~air[k].start => air[k].of > 0)  BY <1>3, <3>1 DEF Messaging
    <3>4. InAir(air, heard, k).start = air[k].start /\ InAir(air, heard, k).of = air[k].of
      BY <3>3 DEF InAir, BleMessage
    <3>5. InAir(air, heard, k) \in BleMessage  BY <3>3 DEF InAir, BleMessage
    <3> QED  BY <3>2, <3>3, <3>4, <3>5
  <2> QED  BY <2>1, <2>2, <1>1
<1> QED  BY <1>1, <1>2, <1>3, <1>4, <1>5

\* BleMotion starts with nothing on its way.
LEMMA BleInitially == BleInit => BleInv
<1> SUFFICES ASSUME BleInit PROVE BleInv  OBVIOUS
<1>1. Len(rxQueue) = 0 /\ Len(air) = 0  BY DEF BleInit
<1>2. DOMAIN Coming(rxQueue, air, heard) = {}  BY <1>1 DEF Coming
<1>3. BleTyped
  <2>1. rxQueue \in Seq(BleMessage) /\ air \in Seq(BleMessage)  BY EmptySeq DEF BleInit
  <2>2. {counted, expected, points, ackOf} \subseteq Nat  BY DEF BleInit
  <2>3. heard \in BOOLEAN /\ orphans \in BOOLEAN  BY Zenon DEF BleInit
  <2> QED  BY <2>1, <2>2, <2>3 DEF BleTyped
<1>4. Messaging  BY <1>1 DEF Messaging
<1>5. AckedIsLast  BY DEF BleInit, AckedIsLast
<1>6. PICK c : c = Coming(rxQueue, air, heard)  OBVIOUS
<1>7. InOrder(c) /\ Uncounted(c, counted)  BY <1>2, <1>6 DEF InOrder, Uncounted
<1> QED  BY <1>3, <1>4, <1>5, <1>6, <1>7 DEF BleInv

\* ReceiveData: a start begins a count, a packet goes on with it, and the one that makes it
\* complete is the last.
LEMMA ReceiveDataKeeps ==
  ASSUME BleInv, ReceiveData PROVE BleInv'
<1> USE BleAssumption
<1>0. BleTyped /\ Messaging /\ AckedIsLast  BY DEF BleInv
<1>1. PICK c, n : c = Coming(rxQueue, air, heard) /\ n = Len(rxQueue) + Len(air)  OBVIOUS
<1>2. PICK d : d = Coming(Tail(rxQueue), air, heard)  OBVIOUS
<1>3. PICK m : m = Head(rxQueue)  OBVIOUS
<1>4. /\ rxQueue \in Seq(BleMessage) /\ rxQueue # <<>> /\ Len(rxQueue) \in Nat /\ Len(rxQueue) > 0
      /\ Len(air) \in Nat /\ n \in Nat /\ n > 0
  BY <1>0, <1>1, ComingMessages, EmptySeq, LenProperties DEF ReceiveData, BleTyped
<1>5. /\ Tail(rxQueue) \in Seq(BleMessage) /\ Len(Tail(rxQueue)) = Len(rxQueue) - 1
      /\ \A i \in 1..Len(rxQueue) - 1 : Tail(rxQueue)[i] = rxQueue[i + 1]
      /\ m = rxQueue[1]
  BY <1>3, <1>4, HeadTailProperties
<1>6. /\ DOMAIN c = 1..n /\ InOrder(c) /\ Uncounted(c, counted)
      /\ \A i \in 1..n : c[i] \in BleMessage /\ (~c[i].start => c[i].of > 0)
  BY <1>0, <1>1, ComingMessages DEF BleInv
<1>7. c[1] = m  BY <1>1, <1>4, <1>5 DEF Coming
<1>8. /\ DOMAIN d = 1..n - 1
      /\ \A i \in 1..n - 1 : d[i] = c[i + 1]
  BY <1>1, <1>2, <1>4, <1>5 DEF Coming
<1>9. m \in BleMessage /\ (~m.start => m.of > 0)  BY <1>4, <1>6, <1>7
<1>10. PICK y, q : y = counted' /\ q = PerPacket  OBVIOUS
<1>11. counted \in Nat /\ q \in Nat /\ q > 0  BY <1>0, <1>10 DEF BleTyped
<1>12. y \in Nat /\ IF m.start THEN m.of > 0 => y = 0 ELSE y <= counted + q
  BY <1>3, <1>9, <1>10, <1>11 DEF ReceiveData, StartResponse, MotionData, BleMessage
<1>13. InOrder(d) /\ Uncounted(d, y)
  <2>1. IF c[1].start THEN c[1].of > 0 => y = 0 ELSE y <= counted + PerPacket  BY <1>7, <1>10, <1>12
  <2> QED  BY <2>1, <1>4, <1>6, <1>8, <1>11, <1>12, TakeKeeps
<1>14. Coming(rxQueue, air, heard)' = d  BY <1>2 DEF ReceiveData, Coming, InAir
<1>15. BleTyped'
  <2>1. (rxQueue \in Seq(BleMessage) /\ air \in Seq(BleMessage))'  BY <1>0, <1>5 DEF ReceiveData, BleTyped
  <2>2. {heard, points}' \subseteq BOOLEAN \cup Nat /\ heard' = heard /\ points' = points
    BY <1>0 DEF ReceiveData, BleTyped
  <2>3. orphans' \in BOOLEAN
    BY <1>0, <1>3, <1>9 DEF ReceiveData, BleTyped, StartResponse, BleMessage
  <2>4. expected' \in Nat
    <3>1. CASE m.start /\ m.of # 0
      <4>1. PICK a : a = m.of  OBVIOUS
      <4>2. a \in Nat /\ a % q \in Nat /\ a % q < q  BY <1>9, <1>11, <4>1 DEF BleMessage
      <4>3. expected' = a + (q - (a % q))
        BY <3>1, <4>1, <1>3, <1>10 DEF ReceiveData, StartResponse, Rounded
      <4> QED  BY <4>2, <4>3, <1>11
    <3>2. CASE ~(m.start /\ m.of # 0)
      <4>1. expected' = expected  BY <3>2, <1>3 DEF ReceiveData, StartResponse, MotionData
      <4> QED  BY <4>1, <1>0 DEF BleTyped
    <3> QED  BY <3>1, <3>2
  <2>5. ackOf' \in Nat
    BY <1>3, <1>9 DEF ReceiveData, StartResponse, MotionData, BleMessage
  <2> QED  BY <2>1, <2>2, <2>3, <2>4, <2>5, <1>0, <1>10, <1>12 DEF BleTyped
<1>16. Messaging'
  <2>1. ASSUME NEW i \in 1..Len(Tail(rxQueue))
        PROVE  IF Tail(rxQueue)[i].start THEN ~Tail(rxQueue)[i].orphan ELSE Tail(rxQueue)[i].of > 0
    <3>1. Tail(rxQueue)[i] = rxQueue[i + 1] /\ i + 1 \in 1..Len(rxQueue)  BY <1>4, <1>5
    <3> QED  BY <3>1, <1>0 DEF Messaging
  <2> QED  BY <2>1, <1>0 DEF ReceiveData, Messaging
<1>17. AckedIsLast'
  <2> SUFFICES ASSUME ackOf' # 0, ~orphans' PROVE ackOf' * PerPacket >= expected'
    BY DEF AckedIsLast
  <2>1. ~m.start  BY <1>3 DEF ReceiveData, StartResponse
  <2>2. counted' = expected' /\ ackOf' = m.of /\ ~m.orphan
    <3>1. MotionData(m.of) /\ orphans' = (orphans \/ m.orphan)  BY <2>1, <1>3, Zenon DEF ReceiveData
    <3>2. ~m.orphan  BY <3>1, Zenon
    <3> QED  BY <3>1, <3>2 DEF MotionData
  <2>3. SameTransfer(c, 0, 1)  BY <2>1, <1>7 DEF SameTransfer
  <2>4. counted <= (m.of - 1) * PerPacket  BY <2>2, <2>3, <1>4, <1>6, <1>7 DEF Uncounted
  <2>5. PICK a : a = m.of  OBVIOUS
  <2>6. a \in Nat /\ (a - 1) * q + q = a * q /\ (a - 1) * q \in Int /\ a * q \in Int
    BY <2>5, <1>9, <1>11 DEF BleMessage
  <2>7. y <= a * q  BY <2>2, <2>4, <2>5, <2>6, <1>10, <1>11, <1>12
  <2> QED  BY <2>2, <2>5, <2>6, <2>7, <1>10, <1>12
<1> QED  BY <1>10, <1>13, <1>14, <1>15, <1>16, <1>17 DEF BleInv

\* AirDelivers: what finds ble_rx_queue full is lost, and a start that is lost leaves orphans.
LEMMA AirDeliversKeeps ==
  ASSUME BleInv, AirDelivers PROVE BleInv'
<1>0. BleTyped /\ Messaging /\ AckedIsLast  BY DEF BleInv
<1>1. PICK c, n : c = Coming(rxQueue, air, heard) /\ n = Len(rxQueue) + Len(air)  OBVIOUS
<1>2. /\ DOMAIN c = 1..n /\ InOrder(c) /\ Uncounted(c, counted)
      /\ Len(rxQueue) \in Nat /\ Len(air) \in Nat /\ n \in Nat
      /\ \A i \in 1..Len(air) : air[i] \in BleMessage
  BY <1>0, <1>1, ComingMessages DEF BleInv
<1>3. /\ air \in Seq(BleMessage) /\ air # <<>> /\ Len(air) > 0 /\ rxQueue \in Seq(BleMessage)
  BY <1>0, <1>2, EmptySeq DEF AirDelivers, BleTyped
<1>4. /\ air' = Tail(air) /\ air' \in Seq(BleMessage) /\ Len(air') = Len(air) - 1
      /\ \A i \in 1..Len(air) - 1 : air'[i] = air[i + 1]
      /\ Head(air) = air[1]
  BY <1>3, HeadTailProperties DEF AirDelivers
<1>5. PICK m : m = InAir(air, heard, 1)  OBVIOUS
<1>6. PICK p : p = Len(rxQueue) + 1  OBVIOUS
<1>7. c[p] = m /\ p \in 1..n  BY <1>1, <1>2, <1>3, <1>5, <1>6 DEF Coming
<1>8. m = [Head(air) EXCEPT !.orphan = ~Head(air).start /\ ~heard] /\ m.start = air[1].start
      /\ m \in BleMessage /\ (IF m.start THEN ~m.orphan ELSE m.of > 0)
  <2>1. air[1] \in BleMessage /\ (~air[1].start => air[1].of > 0)  BY <1>0, <1>2, <1>3 DEF Messaging
  <2>2. InAir(air, heard, 1) = [air[1] EXCEPT !.orphan = ~air[1].start /\ ~heard]
    <3>1. (~air[1].start /\ ~heard /\ ~air[1].start) = (~air[1].start /\ ~heard)  BY Zenon
    <3> QED  BY <3>1, Zenon DEF InAir
  <2> QED  BY <2>1, <2>2, <1>4, <1>5 DEF BleMessage
<1>9. \A i \in 1..Len(air') : /\ air'[i] = air[i + 1] /\ i + 1 \in 1..Len(air) /\ ~air[i + 1].start
                              /\ air[i + 1] \in BleMessage
  BY <1>0, <1>2, <1>4 DEF Messaging
<1>10. BleTyped' /\ Messaging'
  <2>1. rxQueue' \in Seq(BleMessage)
    BY <1>3, <1>8, AppendProperties DEF AirDelivers
  <2>2. heard' \in BOOLEAN /\ full' \in BOOLEAN
    <3>1. full' \in BOOLEAN  BY Zenon DEF AirDelivers
    <3>2. heard' \in {heard, ~full'}  BY Zenon DEF AirDelivers
    <3>3. heard \in BOOLEAN  BY <1>0 DEF BleTyped
    <3> QED  BY <3>1, <3>2, <3>3, Zenon
  <2>3. BleTyped'  BY <2>1, <2>2, <1>0, <1>4 DEF AirDelivers, BleTyped, bleBox
  <2>4. \A i \in 1..Len(rxQueue') :
          IF rxQueue'[i].start THEN ~rxQueue'[i].orphan ELSE rxQueue'[i].of > 0
    <3>1. CASE rxQueue' = rxQueue  BY <3>1, <1>0 DEF Messaging
    <3>2. CASE rxQueue' = Append(rxQueue, m)
      <4>1. /\ Len(rxQueue') = Len(rxQueue) + 1 /\ rxQueue'[Len(rxQueue) + 1] = m
            /\ \A i \in 1..Len(rxQueue) : rxQueue'[i] = rxQueue[i]
        BY <3>2, <1>3, <1>8, AppendProperties
      <4> SUFFICES ASSUME NEW i \in 1..Len(rxQueue')
                   PROVE  IF rxQueue'[i].start THEN ~rxQueue'[i].orphan ELSE rxQueue'[i].of > 0
        OBVIOUS
      <4>2. CASE i = Len(rxQueue) + 1
        <5>1. rxQueue'[i] = m  BY <4>1, <4>2
        <5> QED  BY <5>1, <1>8
      <4>3. CASE i # Len(rxQueue) + 1
        <5>1. i \in 1..Len(rxQueue)  BY <4>1, <4>3, <1>2
        <5>2. rxQueue'[i] = rxQueue[i]  BY <4>1, <5>1
        <5> QED  BY <5>1, <5>2, <1>0 DEF Messaging
      <4> QED  BY <4>2, <4>3
    <3> QED  BY <3>1, <3>2, <1>8 DEF AirDelivers
  <2>5. \A i \in 1..Len(air') : ~air'[i].orphan /\ (i > 1 => ~air'[i].start) /\ (~air'[i].start => air'[i].of > 0)
    BY <1>0, <1>9 DEF Messaging
  <2> QED  BY <2>3, <2>4, <2>5 DEF Messaging
<1>11. PICK d, g : d = Coming(rxQueue', air', heard') /\ g = heard'  OBVIOUS
<1>12. ASSUME NEW i \in 1..Len(air')
       PROVE  /\ ~InAir(air', heard', i).start
              /\ InAir(air', heard', i) = [air[i + 1] EXCEPT !.orphan = ~g]
              /\ InAir(air, heard, i + 1) = [air[i + 1] EXCEPT !.orphan = ~heard /\ ~air[1].start]
  <2>1. PICK a, b : a = air[i + 1] /\ b = air'[1]  OBVIOUS
  <2>2. air'[i] = a /\ ~a.start /\ a \in BleMessage  BY <1>9, <2>1
  <2>3. ~b.start
    <3>1. 1 \in 1..Len(air')  BY <1>2, <1>4
    <3> QED  BY <3>1, <1>9, <2>1
  <2>4. (~a.start /\ ~g /\ ~b.start) = ~g  BY <2>2, <2>3, Zenon
  <2>5. InAir(air', heard', i) = [a EXCEPT !.orphan = ~a.start /\ ~g /\ ~b.start]
    BY <2>1, <2>2, <1>11, Zenon DEF InAir
  <2>6. InAir(air', heard', i) = [a EXCEPT !.orphan = ~g]  BY <2>4, <2>5, Zenon
  <2>7. (~a.start /\ ~heard /\ ~air[1].start) = (~heard /\ ~air[1].start)  BY <2>2, Zenon
  <2>8. InAir(air, heard, i + 1) = [a EXCEPT !.orphan = ~heard /\ ~air[1].start]
    BY <2>1, <2>7, Zenon DEF InAir
  <2>9. ~[a EXCEPT !.orphan = ~g].start  BY <2>2 DEF BleMessage
  <2> QED  BY <2>1, <2>6, <2>8, <2>9
<1>13. InOrder(d) /\ Uncounted(d, counted)
  <2>1. CASE full'
    <3>1. rxQueue' = rxQueue /\ (g <=> IF air[1].start THEN FALSE ELSE heard)
      BY <2>1, <1>4, <1>11, Zenon DEF AirDelivers
    <3>2. DOMAIN d = 1..n - 1 /\ \A i \in 1..p - 1 : d[i] = c[i]
      BY <3>1, <1>1, <1>2, <1>3, <1>4, <1>6, <1>11 DEF Coming
    <3>3. \A i \in p..n - 1 : i - Len(rxQueue) \in 1..Len(air')
                              /\ d[i] = InAir(air', heard', i - Len(rxQueue))
                              /\ c[i + 1] = InAir(air, heard, (i - Len(rxQueue)) + 1)
      <4> SUFFICES ASSUME NEW i \in p..n - 1
                   PROVE  i - Len(rxQueue) \in 1..Len(air')
                              /\ d[i] = InAir(air', heard', i - Len(rxQueue))
                              /\ c[i + 1] = InAir(air, heard, (i - Len(rxQueue)) + 1)
        OBVIOUS
      <4>1. i - Len(rxQueue) \in 1..Len(air') /\ i \in 1..Len(rxQueue') + Len(air') /\ ~(i <= Len(rxQueue'))
        BY <3>1, <1>1, <1>2, <1>3, <1>4, <1>6
      <4>2. d[i] = InAir(air', heard', i - Len(rxQueue))  BY <4>1, <3>1, <1>11 DEF Coming
      <4>3. i + 1 \in 1..Len(rxQueue) + Len(air) /\ ~(i + 1 <= Len(rxQueue))
            /\ (i + 1) - Len(rxQueue) = (i - Len(rxQueue)) + 1
        BY <1>1, <1>2, <1>3, <1>6
      <4>4. c[i + 1] = InAir(air, heard, (i + 1) - Len(rxQueue))  BY <4>3, <1>1 DEF Coming
      <4> QED  BY <4>1, <4>2, <4>3, <4>4
    <3>4. CASE air[1].start
      <4>1. ~g  BY <3>1, <3>4, Zenon
      <4>2. \A i \in p..n - 1 : d[i].orphan
        <5> SUFFICES ASSUME NEW i \in p..n - 1 PROVE d[i].orphan  OBVIOUS
        <5>1. PICK k \in 1..Len(air') : k = i - Len(rxQueue)  BY <3>3
        <5>2. d[i] = [air[k + 1] EXCEPT !.orphan = ~g]  BY <3>3, <5>1, <1>12
        <5>3. air[k + 1] \in BleMessage  BY <1>9, <5>1
        <5>4. d[i].orphan = ~g  BY <5>2, <5>3 DEF BleMessage
        <5> QED  BY <5>4, <4>1, Zenon
      <4> QED  BY <4>2, <3>2, <1>2, <1>7, DropKeeps
    <3>5. CASE ~air[1].start
      <4>1. (~heard /\ ~air[1].start) = ~g  BY <3>1, <3>5, Zenon
      <4>2. \A i \in p..n - 1 : d[i] = c[i + 1]
        <5> SUFFICES ASSUME NEW i \in p..n - 1 PROVE d[i] = c[i + 1]  OBVIOUS
        <5>1. PICK k \in 1..Len(air') : k = i - Len(rxQueue)  BY <3>3
        <5>2. d[i] = [air[k + 1] EXCEPT !.orphan = ~g]  BY <3>3, <5>1, <1>12
        <5>3. c[i + 1] = [air[k + 1] EXCEPT !.orphan = ~heard /\ ~air[1].start]  BY <3>3, <5>1, <1>12
        <5> QED  BY <5>2, <5>3, <4>1, Zenon
      <4>3. ~c[p].start  BY <3>5, <1>7, <1>8
      <4> QED  BY <4>2, <4>3, <3>2, <1>2, <1>7, DropKeeps
    <3> QED  BY <3>4, <3>5
  <2>2. CASE ~full'
    <3>1. rxQueue' = Append(rxQueue, m) /\ (g <=> IF air[1].start THEN TRUE ELSE heard)
      BY <2>2, <1>4, <1>8, <1>11, Zenon DEF AirDelivers
    <3>2. /\ Len(rxQueue') = Len(rxQueue) + 1 /\ rxQueue'[Len(rxQueue) + 1] = m
          /\ \A i \in 1..Len(rxQueue) : rxQueue'[i] = rxQueue[i]
      BY <3>1, <1>3, <1>8, AppendProperties
    <3>3. DOMAIN d = 1..n  BY <3>2, <1>1, <1>2, <1>4, <1>11 DEF Coming
    <3>4. \A i \in 1..n : d[i] = c[i]
      <4> SUFFICES ASSUME NEW i \in 1..n PROVE d[i] = c[i]  OBVIOUS
      <4>1. CASE i <= p
        <5>1. d[i] = rxQueue'[i]  BY <4>1, <3>2, <1>1, <1>2, <1>4, <1>6, <1>11 DEF Coming
        <5>2. CASE i = p  BY <5>1, <5>2, <3>2, <1>6, <1>7
        <5>3. CASE i # p
          <6>1. i \in 1..Len(rxQueue)  BY <4>1, <5>3, <1>2, <1>6
          <6>2. c[i] = rxQueue[i]  BY <6>1, <1>1, <1>2 DEF Coming
          <6> QED  BY <5>1, <6>1, <6>2, <3>2
        <5> QED  BY <5>2, <5>3
      <4>2. CASE i > p
        <5>1. PICK k : k = i - p  OBVIOUS
        <5>2. k \in 1..Len(air') /\ i - Len(rxQueue') = k /\ i - Len(rxQueue) = k + 1
              /\ ~(i <= Len(rxQueue')) /\ ~(i <= Len(rxQueue)) /\ i \in 1..Len(rxQueue') + Len(air')
          BY <5>1, <4>2, <3>2, <1>1, <1>2, <1>4, <1>6
        <5>3. d[i] = InAir(air', heard', k)  BY <5>2, <1>11 DEF Coming
        <5>4. c[i] = InAir(air, heard, k + 1)  BY <5>2, <1>1 DEF Coming
        <5>5. (~heard /\ ~air[1].start) = ~g  BY <3>1, Zenon
        <5>6. InAir(air', heard', k) = [air[k + 1] EXCEPT !.orphan = ~g]  BY <5>2, <1>12
        <5>7. InAir(air, heard, k + 1) = [air[k + 1] EXCEPT !.orphan = ~heard /\ ~air[1].start]  BY <5>2, <1>12
        <5> QED  BY <5>3, <5>4, <5>5, <5>6, <5>7, Zenon
      <4> QED  BY <4>1, <4>2, <1>2, <1>6
    <3> QED  BY <3>3, <3>4, <1>2, PrefixKeeps
  <2> QED  BY <2>1, <2>2, <1>2
<1>14. AckedIsLast' /\ counted' = counted  BY <1>0 DEF AirDelivers, bleBox, AckedIsLast
<1> QED  BY <1>10, <1>11, <1>13, <1>14 DEF BleInv

\* The tracker's answer: a start, and packets if there are points.
LEMMA AnswerForm ==
  ASSUME points \in Nat
  PROVE  /\ Packets(points) \in Nat /\ (Packets(points) > 0 => points > 0)
         /\ Answer \in Seq(BleMessage) /\ Len(Answer) = 1 + Packets(points)
         /\ Answer[1].start /\ ~Answer[1].orphan /\ Answer[1].of = points
         /\ \A k \in 1..Packets(points) :
              ~Answer[1 + k].start /\ ~Answer[1 + k].orphan /\ Answer[1 + k].of = k
<1> USE BleAssumption
<1>1. PICK m, q : m = Packets(points) /\ q = PerPacket  OBVIOUS
<1>2. q \in Nat /\ q > 0  BY <1>1
<1>3. m = (points + q - 1) \div q  BY <1>1 DEF Packets
<1>4. m \in Nat  BY <1>2, <1>3
<1>5. m > 0 => points > 0
  <2> SUFFICES ASSUME points = 0 PROVE m = 0  BY <1>4
  <2>1. m = (q - 1) \div q  BY <1>2, <1>3
  <2> QED  BY <2>1, <1>2
<1>6. PICK s, t : /\ s = [start |-> TRUE, of |-> points, orphan |-> FALSE]
                  /\ t = [i \in 1..m |-> [start |-> FALSE, of |-> i, orphan |-> FALSE]]
  OBVIOUS
<1>7. s \in BleMessage /\ \A i \in 1..m : [start |-> FALSE, of |-> i, orphan |-> FALSE] \in BleMessage
  BY <1>4, <1>6 DEF BleMessage
<1>8. <<s>> \in Seq(BleMessage) /\ t \in Seq(BleMessage) /\ Len(t) = m /\ Len(<<s>>) = 1
  BY <1>4, <1>6, <1>7
<1>9. Answer = <<s>> \o t  BY <1>1, <1>6 DEF Answer
<1>10. /\ Answer \in Seq(BleMessage) /\ Len(Answer) = 1 + m
       /\ \A i \in 1..1 + m : Answer[i] = IF i <= 1 THEN <<s>>[i] ELSE t[i - 1]
  BY <1>4, <1>8, <1>9, ConcatProperties
<1>11. Answer[1].start /\ ~Answer[1].orphan /\ Answer[1].of = points
  <2>1. Answer[1] = s  BY <1>4, <1>10
  <2>2. s.start /\ ~s.orphan /\ s.of = points  BY <1>6, Zenon
  <2> QED  BY <2>1, <2>2
<1>12. \A k \in 1..m : ~Answer[1 + k].start /\ ~Answer[1 + k].orphan /\ Answer[1 + k].of = k
  <2> SUFFICES ASSUME NEW k \in 1..m
               PROVE  ~Answer[1 + k].start /\ ~Answer[1 + k].orphan /\ Answer[1 + k].of = k
    OBVIOUS
  <2>1. 1 + k \in 1..1 + m /\ ~(1 + k <= 1) /\ (1 + k) - 1 = k  BY <1>4
  <2>2. Answer[1 + k] = t[k]  BY <2>1, <1>10
  <2>3. PICK p : p = [start |-> FALSE, of |-> k, orphan |-> FALSE]  OBVIOUS
  <2>4. Answer[1 + k] = p  BY <2>2, <2>3, <1>6
  <2>5. ~p.start /\ ~p.orphan /\ p.of = k  BY <2>3, Zenon
  <2> QED  BY <2>4, <2>5
<1> QED  BY <1>1, <1>4, <1>5, <1>6, <1>10, <1>11, <1>12

\* TransmitData: an answer takes the place of what the tracker had yet to send, whole.
LEMMA TransmitDataKeeps ==
  ASSUME BleInv, TransmitData PROVE BleInv'
<1>0. BleTyped /\ Messaging /\ AckedIsLast  BY DEF BleInv
<1>1. PICK c, d, n, r, m : /\ c = Coming(rxQueue, air, heard) /\ n = Len(rxQueue) + Len(air)
                           /\ d = Coming(rxQueue, air, heard)' /\ r = Len(rxQueue)
                           /\ m = Packets(points)
  OBVIOUS
<1>2. /\ DOMAIN c = 1..n /\ InOrder(c) /\ Uncounted(c, counted)
      /\ r \in Nat /\ Len(air) \in Nat /\ n \in Nat /\ r <= n
  BY <1>0, <1>1, ComingMessages DEF BleInv
<1>3. /\ rxQueue' = rxQueue /\ heard' = heard /\ counted' = counted /\ orphans' = orphans
      /\ expected' = expected /\ ackOf' = ackOf /\ points' \in {0, points} /\ air' \in {air, Answer}
  BY DEF TransmitData
<1>4. points \in Nat  BY <1>0 DEF BleTyped
<1>5. AckedIsLast'  BY <1>0, <1>3 DEF AckedIsLast
<1>6. /\ m \in Nat /\ (m > 0 => points > 0) /\ Answer \in Seq(BleMessage) /\ Len(Answer) = 1 + m
      /\ Answer[1].start /\ ~Answer[1].orphan /\ Answer[1].of = points
      /\ \A k \in 1..m : ~Answer[1 + k].start /\ ~Answer[1 + k].orphan /\ Answer[1 + k].of = k
  BY <1>1, <1>4, AnswerForm
<1>7. BleTyped'  BY <1>0, <1>3, <1>6 DEF BleTyped
<1>8. CASE air' = air
  <2>1. d = c  BY <1>1, <1>3, <1>8 DEF Coming, InAir
  <2>2. Messaging'  BY <1>0, <1>3, <1>8 DEF Messaging
  <2> QED  BY <2>1, <2>2, <1>1, <1>2, <1>3, <1>5, <1>7 DEF BleInv
<1>9. CASE air' = Answer
  <2>1. ASSUME NEW i \in 1..Len(air')
        PROVE  /\ ~air'[i].orphan /\ (i > 1 => ~air'[i].start) /\ (~air'[i].start => air'[i].of > 0)
               /\ InAir(air', heard', i) = air'[i]
    <3>1. air'[i] \in BleMessage  BY <1>6, <1>9, ElementOfSeq
    <3>2. air'[1].start  BY <1>6, <1>9
    <3>3. (~air'[i].start /\ ~heard' /\ ~air'[1].start) = FALSE  BY <3>2, Zenon
    <3>4. InAir(air', heard', i) = [air'[i] EXCEPT !.orphan = FALSE]  BY <3>3, Zenon DEF InAir
    <3>5. /\ ~air'[i].orphan
          /\ (i > 1 => ~air'[i].start) /\ (~air'[i].start => air'[i].of > 0)
      <4>1. CASE i = 1  BY <4>1, <1>6, <1>9
      <4>2. CASE i > 1
        <5>1. PICK k \in 1..m : i = 1 + k
          <6>1. i - 1 \in 1..m /\ i = 1 + (i - 1)  BY <4>2, <1>6, <1>9
          <6> QED  BY <6>1
        <5>2. ~Answer[1 + k].start /\ ~Answer[1 + k].orphan /\ Answer[1 + k].of = k  BY <1>6
        <5>3. air'[i] = Answer[1 + k] /\ k > 0  BY <5>1, <1>9
        <5> QED  BY <5>2, <5>3
      <4> QED  BY <4>1, <4>2, <1>6, <1>9
    <3>6. air'[i].orphan = FALSE
      <4>1. air'[i].orphan \in BOOLEAN  BY <3>1 DEF BleMessage
      <4> QED  BY <3>5, <4>1, Zenon
    <3>7. [air'[i] EXCEPT !.orphan = FALSE] = air'[i]  BY <3>1, <3>6 DEF BleMessage
    <3> QED  BY <3>4, <3>5, <3>7
  <2>2. Messaging'  BY <2>1, <1>0, <1>3 DEF Messaging
  <2>3. DOMAIN d = 1..r + 1 + m /\ \A i \in 1..r : d[i] = rxQueue[i]
    BY <1>1, <1>2, <1>3, <1>6, <1>9 DEF Coming
  <2>4. \A i \in 1..1 + m : d[r + i] = Answer[i]
    <3> SUFFICES ASSUME NEW i \in 1..1 + m PROVE d[r + i] = Answer[i]  OBVIOUS
    <3>1. i \in 1..Len(air') /\ (r + i) - r = i /\ ~(r + i <= r) /\ r + i \in 1..r + (1 + m)
      BY <1>2, <1>6, <1>9
    <3>2. d[r + i] = InAir(air', heard', i)  BY <3>1, <1>1, <1>3, <1>6, <1>9 DEF Coming
    <3> QED  BY <3>1, <3>2, <2>1, <1>9
  <2>5. PICK e : e = [i \in 1..r |-> rxQueue[i]]  OBVIOUS
  <2>6. InOrder(e) /\ Uncounted(e, counted)
    <3>1. DOMAIN e = 1..r /\ \A i \in 1..r : e[i] = c[i]  BY <2>5, <1>1, <1>2 DEF Coming
    <3> QED  BY <3>1, <1>2, PrefixKeeps
  <2>7. DOMAIN e = 1..r /\ \A i \in 1..r : d[i] = e[i]  BY <2>3, <2>5
  <2>8. d[r + 1].start /\ (m > 0 => d[r + 1].of > 0)
    <3>1. d[r + 1] = Answer[1]  BY <2>4, <1>6
    <3> QED  BY <3>1, <1>6
  <2>9. \A k \in 1..m : ~d[r + 1 + k].start /\ ~d[r + 1 + k].orphan /\ d[r + 1 + k].of = k
    <3> SUFFICES ASSUME NEW k \in 1..m
                 PROVE  ~d[r + 1 + k].start /\ ~d[r + 1 + k].orphan /\ d[r + 1 + k].of = k
      OBVIOUS
    <3>1. 1 + k \in 1..1 + m /\ r + (1 + k) = r + 1 + k  BY <1>2, <1>6
    <3>2. d[r + 1 + k] = Answer[1 + k]
      <4>1. d[r + (1 + k)] = Answer[1 + k]  BY <3>1, <2>4
      <4> QED  BY <4>1, <3>1
    <3> QED  BY <3>2, <1>6
  <2>10. InOrder(d) /\ Uncounted(d, counted)
    BY <2>3, <2>6, <2>7, <2>8, <2>9, <1>2, <1>6, AnswerKeeps
  <2> QED  BY <2>2, <2>10, <1>1, <1>3, <1>5, <1>7 DEF BleInv
<1> QED  BY <1>3, <1>8, <1>9

\* Link: nothing is left in the air, and what the queue holds stays as it is.
LEMMA LinkKeeps ==
  ASSUME BleInv, Link PROVE BleInv'
<1>0. BleTyped /\ Messaging /\ AckedIsLast  BY DEF BleInv
<1>1. PICK c, d, n, r : /\ c = Coming(rxQueue, air, heard) /\ n = Len(rxQueue) + Len(air)
                        /\ d = Coming(rxQueue, air, heard)' /\ r = Len(rxQueue)
  OBVIOUS
<1>2. /\ DOMAIN c = 1..n /\ InOrder(c) /\ Uncounted(c, counted)
      /\ r \in Nat /\ Len(air) \in Nat /\ n \in Nat /\ r <= n
  BY <1>0, <1>1, ComingMessages DEF BleInv
<1>3. /\ rxQueue' = rxQueue /\ air' = <<>> /\ Len(air') = 0 /\ air' \in Seq(BleMessage)
      /\ <<counted, orphans, expected, points>>' = <<counted, orphans, expected, points>> /\ ackOf' = 0
  BY EmptySeq DEF Link
<1>4. heard' \in BOOLEAN  BY Zenon DEF Link
<1>5. BleTyped'  BY <1>0, <1>3, <1>4 DEF BleTyped
<1>6. Messaging' /\ AckedIsLast'  BY <1>0, <1>3 DEF Messaging, AckedIsLast
<1>7. DOMAIN d = 1..r /\ \A i \in 1..r : d[i] = c[i]  BY <1>1, <1>2, <1>3 DEF Coming
<1>8. InOrder(d) /\ Uncounted(d, counted)  BY <1>2, <1>7, PrefixKeeps
<1>9. counted' = counted  BY <1>3
<1> QED  BY <1>1, <1>5, <1>6, <1>8, <1>9 DEF BleInv

\* The inductive invariant of BleMotion.
LEMMA BleStep == BleInv /\ [BleNext]_bleVars => BleInv'
<1> SUFFICES ASSUME BleInv, [BleNext]_bleVars PROVE BleInv'  OBVIOUS
<1>1. CASE ReceiveData   BY <1>1, ReceiveDataKeeps
<1>2. CASE AirDelivers   BY <1>2, AirDeliversKeeps
<1>3. CASE TransmitData  BY <1>3, TransmitDataKeeps
<1>4. CASE Link          BY <1>4, LinkKeeps
<1>5. CASE MotionTimeout \/ CaptureTick \/ (\E n \in 1..MaxPoints : Collect(n)) \/ UNCHANGED bleVars
  <2>1. /\ <<rxQueue, air, heard, counted, orphans, expected, ackOf>>'
             = <<rxQueue, air, heard, counted, orphans, expected, ackOf>>
    BY <1>5 DEF MotionTimeout, CaptureTick, Collect, bleVars, bleBox
  <2>2. points' \in Nat
    BY <1>5 DEF BleInv, BleTyped, MotionTimeout, CaptureTick, Collect, bleVars
  <2>3. BleTyped'  BY <2>1, <2>2 DEF BleInv, BleTyped
  <2>4. Messaging' /\ AckedIsLast'  BY <2>1 DEF BleInv, Messaging, AckedIsLast
  <2>5. Coming(rxQueue, air, heard)' = Coming(rxQueue, air, heard) /\ counted' = counted
    BY <2>1 DEF Coming, InAir
  <2> QED  BY <2>3, <2>4, <2>5 DEF BleInv
<1> QED  BY <1>1, <1>2, <1>3, <1>4, <1>5 DEF BleNext, BleWork

\* What the task has yet to take of a transfer is in the order in which the tracker sent it,
\* as long as its start has come, however often the link breaks, the queue is full, or a
\* request is answered in the middle of another transfer.
THEOREM BleInvariant == BleSpec => []BleInv
<1>1. BleInit => BleInv  BY BleInitially
<1>2. BleInv /\ [BleNext]_bleVars => BleInv'  BY BleStep
<1> QED  BY <1>1, <1>2, PTL DEF BleSpec

\* What is acknowledged is the last packet of a transfer whose start was received.
THEOREM AckedIsLastCorrect == BleSpec => []AckedIsLast
<1>1. BleInv => AckedIsLast  BY DEF BleInv
<1> QED  BY <1>1, BleInvariant, PTL

-----------------------------------------------------------------------------
(* MqttFrames: the bytes to come, of pBuffer and of the stream, as one sequence *)

\* Of a packet that is discarded, the head in the buffer is forgotten.
ToCome == IF toDiscard = 0 THEN buffer \o stream ELSE stream

\* With a byte of a packet come all that are behind it in the packet, each in its place.
Whole(s) ==
  \A i \in 1..Len(s) :
    /\ s[i].at <= PacketLength(s[i].kind)
    /\ \A k \in 1..PacketLength(s[i].kind) : i + k > s[i].at =>
         i + k - s[i].at <= Len(s) /\ s[i + k - s[i].at] = [s[i] EXCEPT !.at = k]

\* Behind the last byte of a packet comes the next packet, up to the one that n numbers.
Numbered(s, n) ==
  \A i \in 1..Len(s) : s[i].at = PacketLength(s[i].kind) =>
    IF i < Len(s) THEN s[i + 1].at = 1 /\ s[i + 1].frame = (s[i].frame + 1) % Frames
    ELSE n = (s[i].frame + 1) % Frames

\* The first one is the one that the box is about to read: it has d bytes of the packet
\* numbered f to discard, or takes it from its start.
Expected(s, n, f, d) ==
  IF s = <<>> THEN f = n /\ d = 0
  ELSE /\ s[1].frame = f /\ d <= PacketLength(s[1].kind)
       /\ s[1].at = IF d = 0 THEN 1 ELSE PacketLength(s[1].kind) - d + 1

Regular(s, n, f, d) == Whole(s) /\ Numbered(s, n) /\ Expected(s, n, f, d)

FramesInv ==
  /\ FramesTypeOK /\ FramesAreWhole
  /\ loopAt = "connack" => buffer = <<>> /\ toDiscard = 0 /\ ~torn
  /\ ~torn /\ loopAt # "ended" => Regular(ToCome, framesOut, framesIn, toDiscard)

\* The lengths of the packets
LEMMA Lengths ==
  /\ BufferSize \in Nat /\ BufferSize > 4 /\ Frames \in Nat /\ Frames > 1 /\ OnTheWay \in Nat
  /\ PacketLength("connack") = 4 /\ PacketLength("pingresp") = 2
  /\ PacketLength("publish") = BufferSize /\ PacketLength("large") = BufferSize + 1
  /\ \A kind \in Kinds : PacketLength(kind) \in 2..BufferSize + 1 /\ HeaderLength(kind) \in {2, 3}
<1>1. BufferSize \in Nat /\ BufferSize > 4 /\ Frames \in Nat /\ Frames > 1 /\ OnTheWay \in Nat
  BY FramesAssumption
<1>2. /\ PacketLength("connack") = HeaderLength("connack") + 2
      /\ PacketLength("pingresp") = HeaderLength("pingresp") + 0
      /\ PacketLength("publish") = HeaderLength("publish") + (BufferSize - 2)
      /\ PacketLength("large") = HeaderLength("large") + (BufferSize - 2)
  BY Zenon DEF PacketLength
<1>3. HeaderLength("connack") = 2 /\ HeaderLength("pingresp") = 2 /\ HeaderLength("publish") = 2
        /\ HeaderLength("large") = 3
  BY DEF HeaderLength
<1>4. /\ PacketLength("connack") = 4 /\ PacketLength("pingresp") = 2
      /\ PacketLength("publish") = BufferSize /\ PacketLength("large") = BufferSize + 1
  BY <1>1, <1>2, <1>3
<1>5. ASSUME NEW kind \in Kinds
      PROVE  PacketLength(kind) \in 2..BufferSize + 1 /\ HeaderLength(kind) \in {2, 3}
  <2>1. kind = "connack" \/ kind = "pingresp" \/ kind = "publish" \/ kind = "large"  BY DEF Kinds
  <2> QED  BY <2>1, <1>1, <1>3, <1>4
<1> QED  BY <1>1, <1>4, <1>5

\* What comes of a packet, from its first byte to come on.
LEMMA RestOfPacket ==
  ASSUME NEW s \in Seq(Byte), NEW n, NEW f, NEW d \in Nat, Regular(s, n, f, d), s # <<>>,
         NEW l, NEW rest, l = PacketLength(s[1].kind), rest = IF d = 0 THEN l ELSE d
  PROVE  /\ Len(s) \in Nat /\ Len(s) > 0 /\ s[1] \in Byte /\ s[1].frame = f
         /\ l \in 2..BufferSize + 1 /\ rest \in 1..l /\ rest <= Len(s) /\ s[1].at = l - rest + 1
         /\ \A k \in 1..rest : s[k] = [s[1] EXCEPT !.at = l - rest + k]
<1>1. Len(s) \in Nat /\ Len(s) > 0 /\ 1 \in 1..Len(s)  BY EmptySeq, LenProperties
<1>2. s[1] \in Byte  BY <1>1, ElementOfSeq
<1>3. s[1].kind \in Kinds /\ s[1].at \in Nat  BY <1>2 DEF Byte
<1>4. l \in 2..BufferSize + 1 /\ BufferSize \in Nat  BY <1>3, Lengths
<1>5. s[1].frame = f /\ d <= l /\ s[1].at = IF d = 0 THEN 1 ELSE l - d + 1
  BY DEF Regular, Expected
<1>6. rest \in 1..l /\ s[1].at = l - rest + 1  BY <1>4, <1>5
<1>7. ASSUME NEW k \in 1..rest PROVE k <= Len(s) /\ s[k] = [s[1] EXCEPT !.at = l - rest + k]
  <2>1. PICK j : j = l - rest + k  OBVIOUS
  <2>2. j \in 1..l /\ 1 + j > s[1].at /\ 1 + j - s[1].at = k
    <3>1. l \in Nat /\ rest \in Nat /\ k \in Nat /\ k > 0 /\ k <= rest /\ rest <= l  BY <1>4, <1>6
    <3>2. j \in 1..l /\ 1 + j > l - rest + 1 /\ 1 + j - (l - rest + 1) = k  BY <2>1, <3>1
    <3> QED  BY <3>2, <1>6
  <2>3. 1 + j - s[1].at <= Len(s) /\ s[1 + j - s[1].at] = [s[1] EXCEPT !.at = j]
    BY <2>2, <1>1 DEF Regular, Whole
  <2> QED  BY <2>1, <2>2, <2>3
<1>8. rest <= Len(s)  BY <1>6, <1>7, rest \in 1..rest
<1> QED  BY <1>1, <1>2, <1>4, <1>5, <1>6, <1>7, <1>8

\* Bytes of one packet are taken, all that are to come or not.
LEMMA TakeFromPacket ==
  ASSUME NEW s \in Seq(Byte), NEW t \in Seq(Byte), NEW n, NEW f, NEW d \in Nat,
         Regular(s, n, f, d), s # <<>>,
         NEW rest, rest = IF d = 0 THEN PacketLength(s[1].kind) ELSE d, NEW m \in 1..rest,
         Len(t) = Len(s) - m, \A i \in 1..Len(t) : t[i] = s[i + m]
  PROVE  Regular(t, n, IF m < rest THEN f ELSE (f + 1) % Frames, rest - m)
<1>1. PICK l, b : l = PacketLength(s[1].kind) /\ b = s[1]  OBVIOUS
<1>2. /\ Len(s) \in Nat /\ Len(s) > 0 /\ b \in Byte /\ b.frame = f
      /\ l \in 2..BufferSize + 1 /\ rest \in 1..l /\ rest <= Len(s) /\ b.at = l - rest + 1
      /\ \A k \in 1..rest : s[k] = [b EXCEPT !.at = l - rest + k]
  BY <1>1, RestOfPacket
<1>3. m \in Nat /\ m > 0 /\ m <= rest /\ Len(t) \in Nat /\ BufferSize \in Nat /\ l \in Nat /\ rest \in Nat
  BY <1>2, Lengths, SMTT(30)
<1>4. Whole(s) /\ Numbered(s, n)  BY DEF Regular
<1>5. Whole(t)
  <2> SUFFICES ASSUME NEW i \in 1..Len(t)
               PROVE  /\ t[i].at <= PacketLength(t[i].kind)
                      /\ \A k \in 1..PacketLength(t[i].kind) : i + k > t[i].at =>
                           i + k - t[i].at <= Len(t) /\ t[i + k - t[i].at] = [t[i] EXCEPT !.at = k]
    BY DEF Whole
  <2>1. t[i] = s[i + m] /\ i + m \in 1..Len(s)  BY <1>2, <1>3
  <2>2. PICK a, p : a = t[i].at /\ p = PacketLength(t[i].kind)  OBVIOUS
  <2>3. t[i] \in Byte  BY ElementOfSeq
  <2>4. a \in Nat /\ p \in Nat /\ a <= p
    <3>1. t[i].kind \in Kinds /\ a \in Nat  BY <2>2, <2>3 DEF Byte
    <3>2. p \in 2..BufferSize + 1  BY <3>1, <2>2, Lengths
    <3>3. s[i + m].at <= PacketLength(s[i + m].kind)  BY <2>1, <1>4 DEF Whole
    <3> QED  BY <3>1, <3>2, <3>3, <2>1, <2>2, <1>3
  <2>5. ASSUME NEW k \in 1..p, i + k > a
        PROVE  i + k - a <= Len(t) /\ t[i + k - a] = [t[i] EXCEPT !.at = k]
    <3>1. (i + m) + k > a /\ (i + m) + k - a = (i + k - a) + m  BY <1>3, <2>4, <2>5
    <3>2. (i + m) + k - a <= Len(s) /\ s[(i + m) + k - a] = [s[i + m] EXCEPT !.at = k]
      BY <2>1, <2>2, <3>1, <1>4 DEF Whole
    <3>3. i + k - a \in 1..Len(t)
      <4>1. i + k - a \in Int /\ i + k - a > 0  BY <2>4, <2>5, <1>3
      <4>2. (i + k - a) + m <= Len(t) + m  BY <3>1, <3>2, <1>2, <1>3
      <4> QED  BY <4>1, <4>2, <1>3
    <3>4. t[i + k - a] = s[(i + k - a) + m]  BY <3>3
    <3> QED  BY <3>1, <3>2, <3>3, <3>4, <2>1
  <2> QED  BY <2>2, <2>4, <2>5
<1>6. Numbered(t, n)
  <2> SUFFICES ASSUME NEW i \in 1..Len(t), t[i].at = PacketLength(t[i].kind)
               PROVE  IF i < Len(t) THEN t[i + 1].at = 1 /\ t[i + 1].frame = (t[i].frame + 1) % Frames
                      ELSE n = (t[i].frame + 1) % Frames
    BY DEF Numbered
  <2>1. t[i] = s[i + m] /\ i + m \in 1..Len(s) /\ (i < Len(t) <=> i + m < Len(s))  BY <1>2, <1>3, SMTT(30)
  <2>2. IF i + m < Len(s) THEN s[(i + m) + 1].at = 1 /\ s[(i + m) + 1].frame = (s[i + m].frame + 1) % Frames
        ELSE n = (s[i + m].frame + 1) % Frames
    BY <2>1, <1>4 DEF Numbered
  <2>3. i < Len(t) => t[i + 1] = s[(i + m) + 1]
    <3>1. SUFFICES ASSUME i < Len(t) PROVE t[i + 1] = s[(i + m) + 1]  OBVIOUS
    <3>2. i + 1 \in 1..Len(t) /\ (i + 1) + m = (i + m) + 1  BY <3>1, <1>3
    <3> QED  BY <3>2
  <2> QED  BY <2>1, <2>2, <2>3
<1>7. Expected(t, n, IF m < rest THEN f ELSE (f + 1) % Frames, rest - m)
  <2>1. CASE m < rest
    <3>1. m + 1 \in 1..rest /\ 1 \in 1..Len(t)  BY <2>1, <1>2, <1>3
    <3>2. t[1] = s[1 + m] /\ s[m + 1] = [b EXCEPT !.at = l - rest + (m + 1)]  BY <3>1, <1>2
    <3>3. t[1] = [b EXCEPT !.at = l - rest + (m + 1)]  BY <3>2, <1>3
    <3>4. t[1].frame = f /\ t[1].kind = b.kind /\ t[1].at = l - rest + (m + 1)  BY <3>3, <1>2 DEF Byte
    <3>5. t # <<>>  BY <3>1, EmptySeq
    <3>6. PacketLength(t[1].kind) = l  BY <3>4, <1>1
    <3>7. rest - m # 0 /\ rest - m <= l /\ l - rest + (m + 1) = l - (rest - m) + 1  BY <2>1, <1>2, <1>3, SMTT(30)
    <3> QED  BY <2>1, <3>4, <3>5, <3>6, <3>7 DEF Expected
  <2>2. CASE m = rest
    <3>1. m \in 1..Len(s) /\ m \in 1..rest  BY <2>2, <1>2, <1>3
    <3>2. s[m] = [b EXCEPT !.at = l - rest + m] /\ l - rest + m = l  BY <3>1, <2>2, <1>2, <1>3
    <3>3. s[m].at = l /\ s[m].kind = b.kind /\ s[m].frame = f  BY <3>2, <1>2 DEF Byte
    <3>4. IF m < Len(s) THEN s[m + 1].at = 1 /\ s[m + 1].frame = (f + 1) % Frames
          ELSE n = (f + 1) % Frames
      BY <3>1, <3>3, <1>1, <1>4 DEF Numbered
    <3>5. rest - m = 0 /\ ~(m < rest)  BY <2>2, <1>3
    <3>6. CASE m < Len(s)
      <4>1. 1 \in 1..Len(t) /\ t # <<>>  BY <3>6, <1>2, <1>3, EmptySeq
      <4>2. t[1] = s[m + 1] /\ t[1] \in Byte  BY <4>1, <1>3, ElementOfSeq
      <4>3. PacketLength(t[1].kind) \in 2..BufferSize + 1  BY <4>2, Lengths DEF Byte
      <4> QED  BY <3>4, <3>5, <3>6, <4>1, <4>2, <4>3, <1>3 DEF Expected
    <3>7. CASE ~(m < Len(s))
      <4>1. Len(t) = 0  BY <3>1, <3>7, <1>2, <1>3
      <4>2. t = <<>>  BY <4>1, EmptySeq
      <4> QED  BY <3>4, <3>5, <3>7, <4>2 DEF Expected
    <3> QED  BY <3>6, <3>7
  <2> QED  BY <2>1, <2>2, <1>3
<1> QED  BY <1>5, <1>6, <1>7 DEF Regular

\* A packet is sent, whole, and has the next number.
LEMMA SentIsRegular ==
  ASSUME NEW s \in Seq(Byte), NEW t \in Seq(Byte), NEW n, NEW f, NEW d, NEW kind \in Kinds,
         NEW l, l = PacketLength(kind), Regular(s, n, f, d), n \in 0..Frames - 1,
         Len(t) = Len(s) + l, \A i \in 1..Len(s) : t[i] = s[i],
         \A k \in 1..l : t[Len(s) + k] = [frame |-> n, kind |-> kind, at |-> k]
  PROVE  Regular(t, (n + 1) % Frames, f, d)
<1>1. l \in Nat /\ l >= 2 /\ Len(s) \in Nat /\ Len(t) \in Nat /\ BufferSize \in Nat
  <2>1. l \in 2..BufferSize + 1 /\ BufferSize \in Nat  BY Lengths
  <2> QED  BY <2>1, LenProperties
<1>2. ASSUME NEW i \in 1..Len(t), ~(i <= Len(s))
      PROVE  \E p \in 1..l : i = Len(s) + p
  <2>1. i - Len(s) \in 1..l /\ i = Len(s) + (i - Len(s))  BY <1>1, <1>2
  <2> QED  BY <2>1
<1>3. \A k \in 1..l : t[Len(s) + k].frame = n /\ t[Len(s) + k].kind = kind /\ t[Len(s) + k].at = k
  <2> SUFFICES ASSUME NEW k \in 1..l
               PROVE  t[Len(s) + k].frame = n /\ t[Len(s) + k].kind = kind /\ t[Len(s) + k].at = k
    OBVIOUS
  <2>1. t[Len(s) + k] = [frame |-> n, kind |-> kind, at |-> k]  OBVIOUS
  <2> QED  BY <2>1
<1>4. \A i \in 1..Len(s) : s[i].at \in Nat /\ PacketLength(s[i].kind) \in Nat
  <2> SUFFICES ASSUME NEW i \in 1..Len(s) PROVE s[i].at \in Nat /\ PacketLength(s[i].kind) \in Nat
    OBVIOUS
  <2>1. s[i] \in Byte  BY ElementOfSeq
  <2>2. s[i].kind \in Kinds /\ s[i].at \in Nat  BY <2>1 DEF Byte
  <2>3. PacketLength(s[i].kind) \in 2..BufferSize + 1  BY <2>2, Lengths
  <2> QED  BY <2>2, <2>3, <1>1
<1>5. Whole(t)
  <2> SUFFICES ASSUME NEW i \in 1..Len(t)
               PROVE  /\ t[i].at <= PacketLength(t[i].kind)
                      /\ \A k \in 1..PacketLength(t[i].kind) : i + k > t[i].at =>
                           i + k - t[i].at <= Len(t) /\ t[i + k - t[i].at] = [t[i] EXCEPT !.at = k]
    BY DEF Whole
  <2>1. CASE i <= Len(s)
    <3>1. i \in 1..Len(s) /\ t[i] = s[i]  BY <2>1, <1>1
    <3>2. s[i].at <= PacketLength(s[i].kind)  BY <3>1 DEF Regular, Whole
    <3>3. PICK a : a = s[i].at  OBVIOUS
    <3>4. ASSUME NEW k \in 1..PacketLength(s[i].kind), i + k > a
          PROVE  i + k - a <= Len(t) /\ t[i + k - a] = [s[i] EXCEPT !.at = k]
      <4>1. i + k - a <= Len(s) /\ s[i + k - a] = [s[i] EXCEPT !.at = k]
        BY <3>1, <3>3, <3>4 DEF Regular, Whole
      <4>2. a \in Nat /\ k \in Nat  BY <3>1, <3>3, <1>4
      <4>3. i + k - a \in 1..Len(s) /\ Len(s) <= Len(t)  BY <3>4, <4>1, <4>2, <1>1
      <4> QED  BY <4>1, <4>3, <1>1
    <3> QED  BY <3>1, <3>2, <3>3, <3>4
  <2>2. CASE ~(i <= Len(s))
    <3>1. PICK p \in 1..l : i = Len(s) + p  BY <2>2, <1>2
    <3>2. t[i] = [frame |-> n, kind |-> kind, at |-> p] /\ t[i].at = p /\ t[i].kind = kind  BY <3>1, <1>3
    <3>3. ASSUME NEW k \in 1..l
          PROVE  i + k - p <= Len(t) /\ t[i + k - p] = [t[i] EXCEPT !.at = k]
      <4>1. i + k - p = Len(s) + k /\ Len(s) + k <= Len(t)  BY <3>1, <1>1
      <4>2. t[Len(s) + k] = [frame |-> n, kind |-> kind, at |-> k]  OBVIOUS
      <4>3. [t[i] EXCEPT !.at = k] = [frame |-> n, kind |-> kind, at |-> k]  BY <3>2
      <4> QED  BY <4>1, <4>2, <4>3
    <3> QED  BY <3>2, <3>3, <1>1
  <2> QED  BY <2>1, <2>2
<1>6. Numbered(t, (n + 1) % Frames)
  <2> SUFFICES ASSUME NEW i \in 1..Len(t), t[i].at = PacketLength(t[i].kind)
               PROVE  IF i < Len(t) THEN t[i + 1].at = 1 /\ t[i + 1].frame = (t[i].frame + 1) % Frames
                      ELSE (n + 1) % Frames = (t[i].frame + 1) % Frames
    BY DEF Numbered
  <2>1. CASE i <= Len(s)
    <3>1. i \in 1..Len(s) /\ t[i] = s[i] /\ i < Len(t)  BY <2>1, <1>1
    <3>2. IF i < Len(s) THEN s[i + 1].at = 1 /\ s[i + 1].frame = (s[i].frame + 1) % Frames
          ELSE n = (s[i].frame + 1) % Frames
      BY <3>1 DEF Regular, Numbered
    <3>3. CASE i < Len(s)
      <4>1. i + 1 \in 1..Len(s)  BY <3>3, <1>1
      <4>2. t[i + 1] = s[i + 1]  BY <4>1
      <4> QED  BY <3>1, <3>2, <3>3, <4>2
    <3>4. CASE i = Len(s)
      <4>1. 1 \in 1..l  BY <1>1
      <4>2. t[Len(s) + 1].at = 1 /\ t[Len(s) + 1].frame = n  BY <4>1, <1>3
      <4> QED  BY <3>1, <3>2, <3>4, <4>2, <1>1
    <3> QED  BY <3>3, <3>4, <2>1, <1>1
  <2>2. CASE ~(i <= Len(s))
    <3>1. PICK p \in 1..l : i = Len(s) + p  BY <2>2, <1>2
    <3>2. t[i].at = p /\ t[i].kind = kind /\ t[i].frame = n  BY <3>1, <1>3
    <3>3. p = l /\ ~(i < Len(t))  BY <3>1, <3>2, <1>1
    <3> QED  BY <3>2, <3>3
  <2> QED  BY <2>1, <2>2
<1>7. Expected(t, (n + 1) % Frames, f, d)
  <2>1. t # <<>>  BY <1>1, EmptySeq
  <2>2. CASE s = <<>>
    <3>1. Len(s) = 0 /\ 1 \in 1..l  BY <2>2, <1>1
    <3>2. f = n /\ d = 0  BY <2>2 DEF Regular, Expected
    <3>3. t[1].at = 1 /\ t[1].frame = n /\ t[1].kind = kind
      <4>1. t[Len(s) + 1].at = 1 /\ t[Len(s) + 1].frame = n /\ t[Len(s) + 1].kind = kind  BY <3>1, <1>3
      <4>2. Len(s) + 1 = 1  BY <3>1
      <4> QED  BY <4>1, <4>2
    <3> QED  BY <2>1, <3>2, <3>3, <1>1 DEF Expected
  <2>3. CASE s # <<>>
    <3>1. 1 \in 1..Len(s)  BY <2>3, <1>1, EmptySeq
    <3>2. t[1] = s[1]  BY <3>1
    <3> QED  BY <2>1, <2>3, <3>2 DEF Regular, Expected
  <2> QED  BY <2>2, <2>3
<1> QED  BY <1>5, <1>6, <1>7 DEF Regular

\* What is read and what is left: the buffer grows by what the stream loses, and what is
\* handled leaves it at its start.
LEMMA ReadAndLeft ==
  ASSUME NEW b \in Seq(Byte), NEW s \in Seq(Byte), NEW len \in Nat, len <= Len(s)
  PROVE  /\ SubSeq(s, 1, len) \in Seq(Byte) /\ SubSeq(s, len + 1, Len(s)) \in Seq(Byte)
         /\ Len(SubSeq(s, len + 1, Len(s))) = Len(s) - len
         /\ \A i \in 1..Len(s) - len : SubSeq(s, len + 1, Len(s))[i] = s[i + len]
         /\ \A i \in 1..len : SubSeq(s, 1, len)[i] = s[i]
         /\ Len(SubSeq(s, 1, len)) = len
         /\ b \o SubSeq(s, 1, len) \in Seq(Byte) /\ Len(b \o SubSeq(s, 1, len)) = Len(b) + len
         /\ (b \o SubSeq(s, 1, len)) \o SubSeq(s, len + 1, Len(s)) = b \o s
<1>1. Len(s) \in Nat /\ Len(b) \in Nat  BY LenProperties
<1>2. PICK p, q : p = SubSeq(s, 1, len) /\ q = SubSeq(s, len + 1, Len(s))  OBVIOUS
<1>3. p \in Seq(Byte) /\ Len(p) = len /\ \A i \in 1..len : p[i] = s[i]
  <2>1. \A i \in 1..len : s[i] \in Byte  BY <1>1, ElementOfSeq
  <2> QED  BY <2>1, <1>1, <1>2, SubSeqProperties
<1>4. q \in Seq(Byte) /\ Len(q) = Len(s) - len /\ \A i \in 1..Len(s) - len : q[i] = s[i + len]
  <2>1. \A i \in len + 1..Len(s) : s[i] \in Byte  BY <1>1, ElementOfSeq
  <2> QED  BY <2>1, <1>1, <1>2, SubSeqProperties
<1>5. p \o q = s
  <2>1. /\ p \o q \in Seq(Byte) /\ Len(p \o q) = len + (Len(s) - len)
        /\ \A i \in 1..len + (Len(s) - len) : (p \o q)[i] = IF i <= len THEN p[i] ELSE q[i - len]
    BY <1>3, <1>4, ConcatProperties
  <2>2. len + (Len(s) - len) = Len(s)  BY <1>1
  <2>3. ASSUME NEW i \in 1..Len(s) PROVE (p \o q)[i] = s[i]
    <3>1. CASE i <= len
      <4>1. i \in 1..len /\ (p \o q)[i] = p[i]  BY <3>1, <2>1, <2>2
      <4> QED  BY <4>1, <1>3
    <3>2. CASE ~(i <= len)
      <4>1. i - len \in 1..Len(s) - len /\ (i - len) + len = i /\ (p \o q)[i] = q[i - len]
        BY <3>2, <2>1, <2>2, <1>1
      <4>2. q[i - len] = s[(i - len) + len]  BY <4>1, <1>4
      <4> QED  BY <4>1, <4>2
    <3> QED  BY <3>1, <3>2
  <2> QED  BY <2>1, <2>2, <2>3, SeqEqual
<1>6. (b \o p) \o q = b \o s
  <2>1. p \in Seq(Byte) /\ q \in Seq(Byte)  BY <1>3, <1>4
  <2>2. (b \o p) \o q = b \o (p \o q)  BY <2>1, ConcatAssociative
  <2> QED  BY <2>2, <1>5
<1>7. b \o p \in Seq(Byte) /\ Len(b \o p) = Len(b) + len  BY <1>3, ConcatProperties
<1> QED  BY <1>2, <1>3, <1>4, <1>6, <1>7

\* What is left of the buffer, and the rest of the stream behind it
LEMMA LeftBehind ==
  ASSUME NEW b \in Seq(Byte), NEW s \in Seq(Byte), NEW m \in Nat, m <= Len(b)
  PROVE  /\ SubSeq(b, m + 1, Len(b)) \o s \in Seq(Byte) /\ b \o s \in Seq(Byte)
         /\ Len(SubSeq(b, m + 1, Len(b)) \o s) = Len(b \o s) - m /\ Len(b \o s) = Len(b) + Len(s)
         /\ \A i \in 1..Len(b \o s) - m : (SubSeq(b, m + 1, Len(b)) \o s)[i] = (b \o s)[i + m]
<1>1. Len(s) \in Nat /\ Len(b) \in Nat  BY LenProperties
<1>2. PICK q : q = SubSeq(b, m + 1, Len(b))  OBVIOUS
<1>3. q \in Seq(Byte) /\ Len(q) = Len(b) - m /\ \A i \in 1..Len(b) - m : q[i] = b[i + m]
  BY <1>2, ReadAndLeft
<1>4. /\ q \o s \in Seq(Byte) /\ Len(q \o s) = (Len(b) - m) + Len(s)
      /\ \A i \in 1..(Len(b) - m) + Len(s) : (q \o s)[i] = IF i <= Len(b) - m THEN q[i] ELSE s[i - (Len(b) - m)]
  <2>1. q \in Seq(Byte) /\ Len(q) = Len(b) - m  BY <1>3
  <2>2. /\ q \o s \in Seq(Byte) /\ Len(q \o s) = Len(q) + Len(s)
        /\ \A i \in 1..Len(q) + Len(s) : (q \o s)[i] = IF i <= Len(q) THEN q[i] ELSE s[i - Len(q)]
    BY <2>1, ConcatProperties
  <2> QED  BY <2>1, <2>2
<1>5. /\ b \o s \in Seq(Byte) /\ Len(b \o s) = Len(b) + Len(s)
      /\ \A i \in 1..Len(b) + Len(s) : (b \o s)[i] = IF i <= Len(b) THEN b[i] ELSE s[i - Len(b)]
  BY ConcatProperties
<1>6. ASSUME NEW i \in 1..Len(b \o s) - m PROVE (q \o s)[i] = (b \o s)[i + m]
  <2>1. i \in 1..(Len(b) - m) + Len(s) /\ i + m \in 1..Len(b) + Len(s)
        /\ (i <= Len(b) - m <=> i + m <= Len(b)) /\ i - (Len(b) - m) = (i + m) - Len(b)
    BY <1>1, <1>5
  <2>2. i <= Len(b) - m => q[i] = b[i + m]
    <3>1. SUFFICES ASSUME i <= Len(b) - m PROVE q[i] = b[i + m]  OBVIOUS
    <3>2. i \in 1..Len(b) - m  BY <3>1, <1>1
    <3> QED  BY <3>2, <1>3
  <2> QED  BY <2>1, <2>2, <1>4, <1>5
<1>7. (Len(b) - m) + Len(s) = Len(b \o s) - m  BY <1>1, <1>5
<1> QED  BY <1>2, <1>4, <1>5, <1>6, <1>7

\* What is handled is a packet, whole, and it has the number f.
IsPacket(h, f) ==
  /\ h # <<>> /\ h[1].frame = f /\ Len(h) = PacketLength(h[1].kind)
  /\ \A k \in DOMAIN h : h[k] = [h[1] EXCEPT !.at = k]

\* What is taken from its start is a packet, whole, and the next one.
LEMMA TakenIsWhole ==
  ASSUME NEW s \in Seq(Byte), NEW n, NEW f, Regular(s, n, f, 0), s # <<>>,
         NEW l, l = PacketLength(s[1].kind), NEW h \in Seq(Byte), Len(h) = l,
         \A i \in 1..l : h[i] = s[i]
  PROVE  IsPacket(h, f)
<1>1. PICK rest : rest = IF 0 = 0 THEN l ELSE 0  OBVIOUS
<1>2. rest = l  BY <1>1
<1>3. /\ l \in 2..BufferSize + 1 /\ s[1].frame = f
      /\ \A k \in 1..l : s[k] = [s[1] EXCEPT !.at = l - l + k]
  BY <1>1, <1>2, RestOfPacket
<1>4. l \in Nat /\ l >= 2  BY <1>3, Lengths
<1>5. h # <<>> /\ DOMAIN h = 1..l /\ h[1] = s[1]  BY <1>4, EmptySeq, LenProperties
<1>6. \A k \in 1..l : h[k] = [s[1] EXCEPT !.at = k]
  <2> SUFFICES ASSUME NEW k \in 1..l PROVE h[k] = [s[1] EXCEPT !.at = k]  OBVIOUS
  <2>1. l - l + k = k  BY <1>4
  <2> QED  BY <2>1, <1>3
<1> QED  BY <1>3, <1>5, <1>6 DEF IsPacket

\* Nothing is to come.
LEMMA NothingToCome == \A n : Regular(<<>>, n, n, 0)
<1>1. Len(<<>>) = 0  BY EmptySeq
<1> QED  BY <1>1 DEF Regular, Whole, Numbered, Expected

\* What is to come is a sequence of bytes.
LEMMA ToComeIsASeq ==
  ASSUME FramesTypeOK
  PROVE  /\ stream \in Seq(Byte) /\ buffer \in Seq(Byte) /\ ToCome \in Seq(Byte)
         /\ Len(stream) \in Nat /\ Len(buffer) \in Nat /\ toDiscard \in Nat
         /\ framesIn \in Nat /\ framesOut \in Nat
<1>1. stream \in Seq(Byte) /\ buffer \in Seq(Byte)  BY DEF FramesTypeOK
<1>2. Len(stream) \in Nat /\ Len(buffer) \in Nat  BY <1>1, LenProperties
<1>3. buffer \o stream \in Seq(Byte)  BY <1>1, ConcatProperties
<1>4. toDiscard \in Nat /\ framesIn \in Nat /\ framesOut \in Nat  BY Lengths DEF FramesTypeOK
<1> QED  BY <1>1, <1>2, <1>3, <1>4 DEF ToCome

\* The next number of a packet is one.
LEMMA NextNumber == \A n \in Nat : (n + 1) % Frames \in 0..Frames - 1
<1> SUFFICES ASSUME NEW n \in Nat PROVE (n + 1) % Frames \in 0..Frames - 1  OBVIOUS
<1>1. PICK q, a : q = Frames /\ a = n + 1  OBVIOUS
<1>2. q \in Nat /\ q > 1 /\ a \in Nat  BY <1>1, Lengths
<1>3. a % q \in 0..q - 1  BY <1>2
<1> QED  BY <1>1, <1>3

\* BrokerSendsFrame: a packet goes behind all that is to come.
LEMMA BrokerSendsFrameKeeps ==
  ASSUME FramesInv, NEW kind \in Kinds, BrokerSendsFrame(kind) PROVE FramesInv'
<1>0. FramesTypeOK /\ FramesAreWhole  BY DEF FramesInv
<1>1. /\ stream \in Seq(Byte) /\ buffer \in Seq(Byte) /\ ToCome \in Seq(Byte)
      /\ Len(stream) \in Nat /\ framesOut \in Nat
  BY <1>0, ToComeIsASeq
<1>2. PICK l, p : l = PacketLength(kind)
                  /\ p = [k \in 1..l |-> [frame |-> framesOut, kind |-> kind, at |-> k]]
  OBVIOUS
<1>3. l \in Nat /\ l >= 2  BY <1>2, Lengths
<1>4. p \in Seq(Byte) /\ Len(p) = l /\ \A k \in 1..l : p[k] = [frame |-> framesOut, kind |-> kind, at |-> k]
  <2>1. \A k \in 1..l : [frame |-> framesOut, kind |-> kind, at |-> k] \in Byte
    BY <1>0, <1>3 DEF Byte, FramesTypeOK
  <2> QED  BY <2>1, <1>2, <1>3
<1>5. /\ stream' = stream \o p /\ Len(stream) + l <= OnTheWay /\ handled' = <<>>
      /\ framesOut' = (framesOut + 1) % Frames /\ buffer' = buffer /\ toDiscard' = toDiscard
      /\ loopAt' = loopAt /\ framesIn' = framesIn /\ torn' = torn
  BY <1>2 DEF BrokerSendsFrame
<1>6. stream' \in Seq(Byte) /\ Len(stream') = Len(stream) + l  BY <1>1, <1>4, <1>5, ConcatProperties
<1>7. FramesTypeOK'
  <2>1. framesOut' \in 0..Frames - 1  BY <1>1, <1>5, NextNumber
  <2>2. {stream', buffer', handled'} \subseteq Seq(Byte)  BY <1>1, <1>5, <1>6, EmptySeq
  <2>3. Len(stream') <= OnTheWay  BY <1>5, <1>6
  <2> QED  BY <2>1, <2>2, <2>3, <1>0, <1>5 DEF FramesTypeOK
<1>8. FramesAreWhole'  BY <1>0, <1>5 DEF FramesAreWhole
<1>9. ToCome' = ToCome \o p
  <2>1. CASE toDiscard = 0
    <3>1. buffer \o (stream \o p) = (buffer \o stream) \o p  BY <1>1, <1>4, ConcatAssociative, SMTT(30)
    <3> QED  BY <2>1, <3>1, <1>5 DEF ToCome
  <2>2. CASE toDiscard # 0  BY <2>2, <1>5 DEF ToCome
  <2> QED  BY <2>1, <2>2
<1>10. ASSUME ~torn', loopAt' # "ended" PROVE Regular(ToCome, framesOut, framesIn, toDiscard)'
  <2>1. Regular(ToCome, framesOut, framesIn, toDiscard)  BY <1>5, <1>10 DEF FramesInv
  <2>2. PICK s, t, n, f, d : /\ s = ToCome /\ t = ToCome' /\ n = framesOut /\ f = framesIn /\ d = toDiscard
    OBVIOUS
  <2>3. /\ t \in Seq(Byte) /\ Len(t) = Len(s) + l /\ (\A i \in 1..Len(s) : t[i] = s[i])
        /\ Len(s) \in Nat /\ \A k \in 1..l : t[Len(s) + k] = p[k]
    <3>1. /\ s \o p \in Seq(Byte) /\ Len(s \o p) = Len(s) + Len(p)
          /\ \A i \in 1..Len(s) + Len(p) : (s \o p)[i] = IF i <= Len(s) THEN s[i] ELSE p[i - Len(s)]
      BY <2>2, <1>1, <1>4, ConcatProperties
    <3>2. t = s \o p /\ Len(s) \in Nat /\ Len(p) = l  BY <2>2, <1>1, <1>4, <1>9, LenProperties
    <3>3. \A i \in 1..Len(s) : t[i] = s[i]  BY <3>1, <3>2, <1>3
    <3>4. ASSUME NEW k \in 1..l PROVE t[Len(s) + k] = p[k]
      <4>1. Len(s) + k \in 1..Len(s) + Len(p) /\ ~(Len(s) + k <= Len(s)) /\ (Len(s) + k) - Len(s) = k
        BY <3>2, <1>3
      <4> QED  BY <4>1, <3>1, <3>2
    <3> QED  BY <3>1, <3>2, <3>3, <3>4
  <2>4. \A k \in 1..l : t[Len(s) + k] = [frame |-> n, kind |-> kind, at |-> k]  BY <2>2, <2>3, <1>4
  <2>5. n \in 0..Frames - 1  BY <2>2, <1>0 DEF FramesTypeOK
  <2>6. Regular(s, n, f, d) /\ s \in Seq(Byte)  BY <2>1, <2>2, <1>1
  <2>7. Regular(t, (n + 1) % Frames, f, d)  BY <2>3, <2>4, <2>5, <2>6, <1>2, SentIsRegular
  <2> QED  BY <2>2, <2>7, <1>5
<1> QED  BY <1>5, <1>7, <1>8, <1>10 DEF FramesInv

\* FramesInit and NewSession: everything is empty.
LEMMA FramesStart ==
  /\ FramesInit => FramesInv
  /\ NewSession => FramesInv'
<1>1. /\ <<>> \in Seq(Byte) /\ Len(<<>>) = 0 /\ <<>> \o <<>> = <<>>  BY EmptySeq, ConcatEmptySeq
<1>2. Regular(<<>>, 0, 0, 0)  BY NothingToCome
<1>3. ASSUME FramesInit PROVE FramesInv
  <2>1. ToCome = <<>>  BY <1>1, <1>3 DEF FramesInit, ToCome
  <2>2. /\ {stream, buffer, handled} \subseteq Seq(Byte) /\ Len(stream) <= OnTheWay /\ Len(buffer) <= BufferSize
        /\ {framesOut, framesIn} \subseteq 0..Frames - 1 /\ toDiscard \in 0..BufferSize + 1
        /\ loopAt = "connack" /\ torn = FALSE
    BY <1>1, <1>3, Lengths DEF FramesInit
  <2>3. FramesTypeOK  BY <2>2, Zenon DEF FramesTypeOK
  <2>4. Len(buffer) # BufferSize /\ handled = <<>>  BY <1>1, <1>3, Lengths DEF FramesInit
  <2>5. FramesAreWhole  BY <2>4 DEF FramesAreWhole
  <2>6. Regular(ToCome, framesOut, framesIn, toDiscard)  BY <2>1, <1>2, <1>3 DEF FramesInit
  <2> QED  BY <2>2, <2>3, <2>5, <2>6, <1>3 DEF FramesInv, FramesInit
<1>4. ASSUME NewSession PROVE FramesInv'
  <2>1. ToCome' = <<>>  BY <1>1, <1>4 DEF NewSession, ToCome
  <2>2. /\ {stream', buffer', handled'} \subseteq Seq(Byte) /\ Len(stream') <= OnTheWay /\ Len(buffer') <= BufferSize
        /\ {framesOut', framesIn'} \subseteq 0..Frames - 1 /\ toDiscard' \in 0..BufferSize + 1
        /\ loopAt' = "connack" /\ torn' = FALSE
    BY <1>1, <1>4, Lengths DEF NewSession
  <2>3. FramesTypeOK'  BY <2>2, Zenon DEF FramesTypeOK
  <2>4. Len(buffer') # BufferSize /\ handled' = <<>>  BY <1>1, <1>4, Lengths DEF NewSession
  <2>5. FramesAreWhole'  BY <2>4 DEF FramesAreWhole
  <2>6. Regular(ToCome, framesOut, framesIn, toDiscard)'  BY <2>1, <1>2, <1>4 DEF NewSession
  <2> QED  BY <2>2, <2>3, <2>5, <2>6, <1>4 DEF FramesInv, NewSession
<1> QED  BY <1>3, <1>4

\* ReceiveConnack: the first packet is read byte by byte.
LEMMA ReceiveConnackKeeps ==
  ASSUME FramesInv, ReceiveConnack PROVE FramesInv'
<1>0. FramesTypeOK /\ FramesAreWhole  BY DEF FramesInv
<1>1. /\ stream \in Seq(Byte) /\ Len(stream) \in Nat /\ framesIn \in Nat
  BY <1>0, ToComeIsASeq
<1>2. buffer = <<>> /\ toDiscard = 0 /\ ~torn /\ loopAt = "connack"  BY DEF FramesInv, ReceiveConnack
<1>3. PICK s, n, f, m, h, t : /\ s = stream /\ n = framesOut /\ f = framesIn /\ m = PacketLength("connack")
                              /\ h = handled' /\ t = stream'
  OBVIOUS
<1>4. m = 4  BY <1>3, Lengths
<1>5. ToCome = s /\ ToCome' = t
  <2>1. <<>> \o stream = stream  BY <1>1, ConcatEmptySeq
  <2>2. /\ h = SubSeq(s, 1, m) /\ t = SubSeq(s, m + 1, Len(s)) /\ Len(s) >= m /\ s[1].kind = "connack"
    BY <1>3 DEF ReceiveConnack, FirstFrame
  <2>3. t \in Seq(Byte)  BY <2>2, <1>1, <1>3, <1>4, ReadAndLeft
  <2>4. <<>> \o stream' = stream'  BY <2>3, <1>3, ConcatEmptySeq
  <2> QED  BY <2>1, <2>4, <1>2, <1>3 DEF ToCome, ReceiveConnack
<1>6. Regular(s, n, f, 0)  BY <1>2, <1>3, <1>5 DEF FramesInv
<1>7. /\ h = SubSeq(s, 1, m) /\ t = SubSeq(s, m + 1, Len(s)) /\ Len(s) >= m /\ s[1].kind = "connack"
      /\ s \in Seq(Byte) /\ Len(s) \in Nat
  BY <1>1, <1>3 DEF ReceiveConnack, FirstFrame
<1>8. s # <<>>  BY <1>4, <1>7, EmptySeq
<1>9. /\ h \in Seq(Byte) /\ Len(h) = m /\ (\A i \in 1..m : h[i] = s[i])
      /\ t \in Seq(Byte) /\ Len(t) = Len(s) - m /\ \A i \in 1..Len(s) - m : t[i] = s[i + m]
  <2>1. m \in Nat  BY <1>4
  <2> QED  BY <2>1, <1>7, ReadAndLeft
<1>10. PICK d, rest : d = 0 /\ rest = IF d = 0 THEN PacketLength(s[1].kind) ELSE d  OBVIOUS
<1>11. /\ rest = m /\ m \in 1..rest /\ rest - m = 0 /\ ~(m < rest) /\ d \in Nat
       /\ m = PacketLength(s[1].kind)
  BY <1>3, <1>4, <1>7, <1>10
<1>12. Regular(t, n, (f + 1) % Frames, 0)
  <2>1. Regular(t, n, IF m < rest THEN f ELSE (f + 1) % Frames, rest - m)
    <3>1. Regular(s, n, f, d)  BY <1>6, <1>10
    <3>2. \A i \in 1..Len(t) : t[i] = s[i + m]  BY <1>9
    <3> QED  BY <3>1, <3>2, <1>7, <1>8, <1>9, <1>10, <1>11, TakeFromPacket
  <2> QED  BY <2>1, <1>11
<1>13. /\ framesIn' = (f + 1) % Frames /\ framesOut' = n /\ toDiscard' = 0 /\ torn' = torn
       /\ buffer' = <<>> /\ loopAt' = "subscribe"
  BY <1>2, <1>3 DEF ReceiveConnack
<1>14. Regular(ToCome, framesOut, framesIn, toDiscard)'  BY <1>3, <1>5, <1>12, <1>13
<1>15. FramesTypeOK'
  <2>1. framesIn' \in 0..Frames - 1  BY <1>1, <1>3, <1>13, NextNumber
  <2>2. Len(stream') <= OnTheWay /\ Len(buffer') <= BufferSize
    BY <1>0, <1>1, <1>3, <1>4, <1>9, <1>13, EmptySeq, Lengths DEF FramesTypeOK
  <2>3. {stream', buffer', handled'} \subseteq Seq(Byte)  BY <1>3, <1>9, <1>13, EmptySeq
  <2> QED  BY <2>1, <2>2, <2>3, <1>0, <1>2, <1>3, <1>13 DEF FramesTypeOK
<1>16. FramesAreWhole'
  <2>1. Len(buffer') # BufferSize  BY <1>13, EmptySeq, Lengths
  <2>2. IsPacket(h, f)
    <3>1. s \in Seq(Byte) /\ h \in Seq(Byte) /\ Len(h) = m /\ \A i \in 1..m : h[i] = s[i]  BY <1>7, <1>9
    <3>2. m = PacketLength(s[1].kind)  BY <1>11
    <3> QED  BY <3>1, <3>2, <1>6, <1>8, TakenIsWhole
  <2>3. IsPacket(handled', f)  BY <2>2, <1>3
  <2>4. (handled'[1].frame + 1) % Frames = framesIn'  BY <2>3, <1>13 DEF IsPacket
  <2> QED  BY <2>1, <2>3, <2>4, Zenon DEF FramesAreWhole, IsPacket
<1> QED  BY <1>13, <1>14, <1>15, <1>16 DEF FramesInv

\* ReceiveIteration: what the buffer and the stream hold is what is to come; a packet that
\* is whole is handled, and one that is too large is discarded from then on.
LEMMA ReceiveIterationKeeps ==
  ASSUME FramesInv, NEW len \in 0..BufferSize, ReceiveIteration(len) PROVE FramesInv'
<1>0. FramesTypeOK /\ FramesAreWhole  BY DEF FramesInv
<1>1. /\ stream \in Seq(Byte) /\ buffer \in Seq(Byte) /\ Len(stream) \in Nat /\ Len(buffer) \in Nat
      /\ framesIn \in Nat /\ BufferSize \in Nat /\ BufferSize > 4 /\ len \in Nat
  BY <1>0, ToComeIsASeq, Lengths
<1>2. PICK b, s, c, n, f : /\ b = buffer \o SubSeq(stream, 1, len) /\ s = stream'
                           /\ c = buffer \o stream /\ n = framesOut /\ f = framesIn
  OBVIOUS
<1>3. PICK kind \in TakenFor(b) : Process(b, kind)  BY <1>2 DEF ReceiveIteration
<1>4. /\ loopAt \in {"subscribe", "service"} /\ toDiscard = 0 /\ len <= Len(stream)
      /\ len <= BufferSize - Len(buffer) /\ s = SubSeq(stream, len + 1, Len(stream))
      /\ framesOut' = n /\ loopAt' = loopAt /\ torn' = torn
  BY <1>2 DEF ReceiveIteration, Looping
<1>5. /\ b \in Seq(Byte) /\ Len(b) = Len(buffer) + len /\ b \o s = c
      /\ s \in Seq(Byte) /\ Len(s) = Len(stream) - len
  <2>1. PICK u : u = stream  OBVIOUS
  <2>2. u \in Seq(Byte) /\ len <= Len(u) /\ s = SubSeq(u, len + 1, Len(u))  BY <2>1, <1>1, <1>4
  <2>3. PICK v : v = buffer  OBVIOUS
  <2>4. b = v \o SubSeq(u, 1, len) /\ c = v \o u /\ v \in Seq(Byte)  BY <2>1, <2>3, <1>1, <1>2
  <2>5. /\ b \in Seq(Byte) /\ Len(b) = Len(v) + len /\ b \o s = c
        /\ s \in Seq(Byte) /\ Len(s) = Len(u) - len
    <3>1. len \in Nat  BY <1>1
    <3>2. /\ v \o SubSeq(u, 1, len) \in Seq(Byte) /\ Len(v \o SubSeq(u, 1, len)) = Len(v) + len
          /\ (v \o SubSeq(u, 1, len)) \o SubSeq(u, len + 1, Len(u)) = v \o u
          /\ SubSeq(u, len + 1, Len(u)) \in Seq(Byte) /\ Len(SubSeq(u, len + 1, Len(u))) = Len(u) - len
      BY <2>2, <2>4, <3>1, ReadAndLeft, Zenon
    <3> QED  BY <2>2, <2>4, <3>2, Zenon
  <2> QED  BY <2>1, <2>3, <2>5
<1>6. Len(b) \in Nat /\ Len(s) \in Nat /\ Len(b) <= BufferSize /\ Len(s) <= OnTheWay
  BY <1>0, <1>1, <1>4, <1>5, Lengths DEF FramesTypeOK
<1>7. b # <<>> /\ Len(b) > 0 /\ b[1] \in Byte /\ kind \in Kinds
        /\ (b[1].at = 1 => kind = b[1].kind)
  <2>1. b # <<>>  BY <1>3 DEF TakenFor
  <2>2. Len(b) > 0  BY <2>1, <1>5, <1>6, EmptySeq
  <2>3. b[1] \in Byte  BY <2>2, <1>5, <1>6, ElementOfSeq
  <2> QED  BY <2>1, <2>2, <2>3, <1>3 DEF TakenFor, Byte
<1>8. PICK p : p = PacketLength(kind)  OBVIOUS
<1>9. p \in 2..BufferSize + 1 /\ HeaderLength(kind) \in {2, 3}  BY <1>7, <1>8, Lengths
<1>10. /\ c \in Seq(Byte) /\ Len(c) = Len(b) + Len(s) /\ (\A i \in 1..Len(b) : c[i] = b[i])
       /\ \A i \in 1..Len(s) : c[i + Len(b)] = s[i]
  <2>1. /\ b \o s \in Seq(Byte) /\ Len(b \o s) = Len(b) + Len(s)
        /\ \A i \in 1..Len(b) + Len(s) : (b \o s)[i] = IF i <= Len(b) THEN b[i] ELSE s[i - Len(b)]
    BY <1>5, ConcatProperties
  <2>2. ASSUME NEW i \in 1..Len(b) PROVE c[i] = b[i]
    <3>1. i \in 1..Len(b) + Len(s) /\ i <= Len(b)  BY <1>6
    <3> QED  BY <3>1, <2>1, <1>5
  <2>3. ASSUME NEW i \in 1..Len(s) PROVE c[i + Len(b)] = s[i]
    <3>1. i + Len(b) \in 1..Len(b) + Len(s) /\ ~(i + Len(b) <= Len(b)) /\ (i + Len(b)) - Len(b) = i
      BY <1>6
    <3> QED  BY <3>1, <2>1, <1>5
  <2> QED  BY <2>1, <2>2, <2>3, <1>5
<1>11. c # <<>> /\ c[1] = b[1]  BY <1>6, <1>7, <1>10, EmptySeq
<1>12. ToCome = c  BY <1>2, <1>4 DEF ToCome
<1>13. PICK d : d = 0  OBVIOUS
<1>14. ~torn => Regular(c, n, f, d) /\ b[1].at = 1 /\ kind = b[1].kind /\ p = PacketLength(c[1].kind)
  <2> SUFFICES ASSUME ~torn PROVE Regular(c, n, f, d) /\ b[1].at = 1 /\ kind = b[1].kind /\ p = PacketLength(c[1].kind)
    OBVIOUS
  <2>1. Regular(c, n, f, d)  BY <1>2, <1>4, <1>12, <1>13 DEF FramesInv
  <2>2. c[1].at = 1  BY <2>1, <1>11, <1>13 DEF Regular, Expected
  <2> QED  BY <2>1, <2>2, <1>7, <1>8, <1>11
<1>15. ASSUME {buffer', handled'} \subseteq Seq(Byte), Len(buffer') <= BufferSize,
              framesIn' \in 0..Frames - 1, toDiscard' \in 0..BufferSize + 1
       PROVE  FramesTypeOK'
  <2>1. stream' \in Seq(Byte) /\ Len(stream') <= OnTheWay  BY <1>2, <1>5, <1>6
  <2> QED  BY <2>1, <1>0, <1>2, <1>4, <1>15 DEF FramesTypeOK
<1>16. CASE (~HeaderIsIn(b, kind) \/ (Len(b) < p /\ p <= BufferSize))
              /\ buffer' = b /\ handled' = <<>> /\ UNCHANGED <<toDiscard, framesIn>>
  <2>1. Len(b) < BufferSize  BY <1>1, <1>6, <1>9, <1>16 DEF HeaderIsIn
  <2>2. FramesTypeOK'  BY <1>0, <1>4, <1>5, <1>6, <1>15, <1>16, EmptySeq DEF FramesTypeOK
  <2>3. FramesAreWhole'  BY <2>1, <1>1, <1>6, <1>16 DEF FramesAreWhole
  <2>4. ToCome' = c  BY <1>2, <1>4, <1>5, <1>16 DEF ToCome
  <2>5. ~torn' => Regular(ToCome, framesOut, framesIn, toDiscard)'
    BY <2>4, <1>2, <1>4, <1>13, <1>14, <1>16
  <2> QED  BY <2>2, <2>3, <2>5, <1>4 DEF FramesInv
<1>17. CASE HeaderIsIn(b, kind) /\ p > BufferSize
              /\ toDiscard' = RemainingLength(b, kind) /\ buffer' = b
              /\ handled' = <<>> /\ UNCHANGED framesIn
  <2>1. toDiscard' = p - Len(b) /\ p - Len(b) \in 1..BufferSize + 1
    <3>1. toDiscard' = p - Len(b)  BY <1>8, <1>17 DEF RemainingLength
    <3>2. p \in Nat /\ p > BufferSize /\ p <= BufferSize + 1  BY <1>1, <1>9, <1>17
    <3> QED  BY <3>1, <3>2, <1>1, <1>6
  <2>2. FramesTypeOK'
    <3>1. toDiscard' \in 0..BufferSize + 1  BY <2>1, <1>1
    <3>2. framesIn' \in 0..Frames - 1  BY <1>0, <1>17 DEF FramesTypeOK
    <3>3. {buffer', handled'} \subseteq Seq(Byte) /\ Len(buffer') <= BufferSize  BY <1>5, <1>6, <1>17, EmptySeq
    <3> QED  BY <3>1, <3>2, <3>3, <1>15
  <2>3. FramesAreWhole'  BY <2>1, <1>1, <1>17 DEF FramesAreWhole
  <2>4. ToCome' = s
    <3>1. toDiscard' # 0  BY <2>1
    <3> QED  BY <3>1, <1>2 DEF ToCome
  <2>5. ~torn' => Regular(ToCome, framesOut, framesIn, toDiscard)'
    <3> SUFFICES ASSUME ~torn' PROVE Regular(ToCome, framesOut, framesIn, toDiscard)'  OBVIOUS
    <3>1. Regular(c, n, f, d) /\ p = PacketLength(c[1].kind)  BY <1>4, <1>14
    <3>2. PICK m, rest : m = Len(b) /\ rest = IF d = 0 THEN PacketLength(c[1].kind) ELSE d  OBVIOUS
    <3>3. rest = p /\ m \in 1..rest /\ m < rest /\ d \in Nat
      BY <3>1, <3>2, <2>1, <1>6, <1>7, <1>9, <1>13
    <3>4. Len(s) = Len(c) - m /\ \A i \in 1..Len(s) : s[i] = c[i + m]  BY <3>2, <1>6, <1>10
    <3>5. Regular(s, n, IF m < rest THEN f ELSE (f + 1) % Frames, rest - m)
      BY <3>1, <3>2, <3>3, <3>4, <1>5, <1>10, <1>11, TakeFromPacket
    <3>6. Regular(s, n, f, p - Len(b))  BY <3>2, <3>3, <3>5
    <3> QED  BY <3>6, <2>1, <2>4, <1>2, <1>4, <1>17
  <2> QED  BY <2>2, <2>3, <2>5, <1>4 DEF FramesInv
<1>18. CASE HeaderIsIn(b, kind) /\ Len(b) >= p /\ p <= BufferSize
              /\ handled' = SubSeq(b, 1, p) /\ buffer' = SubSeq(b, p + 1, Len(b))
              /\ framesIn' = (framesIn + 1) % Frames /\ UNCHANGED toDiscard
  <2>1. PICK h, r, t : h = handled' /\ r = buffer' /\ t = r \o s  OBVIOUS
  <2>2. p \in Nat /\ p > 0  BY <1>1, <1>9
  <2>3. /\ h \in Seq(Byte) /\ Len(h) = p /\ (\A i \in 1..p : h[i] = b[i])
        /\ r \in Seq(Byte) /\ Len(r) = Len(b) - p
    BY <2>1, <2>2, <1>5, <1>18, ReadAndLeft
  <2>4. /\ t \in Seq(Byte) /\ Len(t) = Len(c) - p /\ \A i \in 1..Len(c) - p : t[i] = c[i + p]
    <3>1. r = SubSeq(b, p + 1, Len(b)) /\ p <= Len(b)  BY <2>1, <1>18
    <3>2. /\ SubSeq(b, p + 1, Len(b)) \o s \in Seq(Byte)
          /\ Len(SubSeq(b, p + 1, Len(b)) \o s) = Len(b \o s) - p
          /\ \A i \in 1..Len(b \o s) - p : (SubSeq(b, p + 1, Len(b)) \o s)[i] = (b \o s)[i + p]
      BY <3>1, <2>2, <1>5, LeftBehind
    <3> QED  BY <3>1, <3>2, <2>1, <1>5
  <2>5. Len(r) < BufferSize /\ Len(r) <= BufferSize  BY <2>2, <2>3, <1>1, <1>6
  <2>6. FramesTypeOK'
    <3>1. framesIn' \in 0..Frames - 1  BY <1>1, <1>18, NextNumber
    <3>2. toDiscard' \in 0..BufferSize + 1  BY <1>0, <1>18 DEF FramesTypeOK
    <3> QED  BY <3>1, <3>2, <2>1, <2>3, <2>5, <1>15
  <2>7. ToCome' = t  BY <2>1, <1>2, <1>4, <1>18 DEF ToCome
  <2>8. ~torn' => FramesAreWhole' /\ Regular(ToCome, framesOut, framesIn, toDiscard)'
    <3> SUFFICES ASSUME ~torn' PROVE FramesAreWhole' /\ Regular(ToCome, framesOut, framesIn, toDiscard)'
      OBVIOUS
    <3>1. Regular(c, n, f, d) /\ p = PacketLength(c[1].kind)  BY <1>4, <1>14
    <3>2. PICK rest : rest = IF d = 0 THEN PacketLength(c[1].kind) ELSE d  OBVIOUS
    <3>3. rest = p /\ p \in 1..rest /\ ~(p < rest) /\ rest - p = 0 /\ d \in Nat
      BY <3>1, <3>2, <2>2, <1>13
    <3>4. Len(t) = Len(c) - p /\ \A i \in 1..Len(t) : t[i] = c[i + p]  BY <2>4
    <3>5. Regular(t, n, IF p < rest THEN f ELSE (f + 1) % Frames, rest - p)
      BY <3>1, <3>2, <3>3, <3>4, <2>4, <1>10, <1>11, TakeFromPacket
    <3>6. Regular(t, n, (f + 1) % Frames, 0)  BY <3>3, <3>5
    <3>7. ASSUME NEW i \in 1..p PROVE h[i] = c[i]
      <4>1. p <= Len(b)  BY <1>18
      <4>2. i \in 1..Len(b)  BY <4>1, <2>2, <1>6
      <4> QED  BY <4>2, <2>3, <1>10
    <3>8. IsPacket(h, f)
      <4>1. Regular(c, n, f, 0)  BY <3>1, <1>13
      <4> QED  BY <4>1, <3>1, <3>7, <2>3, <1>10, <1>11, TakenIsWhole
    <3>9. IsPacket(handled', f)  BY <3>8, <2>1
    <3>10. (handled'[1].frame + 1) % Frames = framesIn'  BY <3>9, <1>2, <1>18 DEF IsPacket
    <3>11. Len(buffer') # BufferSize  BY <2>1, <2>5
    <3>12. FramesAreWhole'  BY <3>9, <3>10, <3>11, Zenon DEF FramesAreWhole, IsPacket
    <3>13. toDiscard' = 0 /\ framesIn' = (f + 1) % Frames /\ framesOut' = n  BY <1>2, <1>4, <1>18
    <3> QED  BY <3>6, <3>12, <3>13, <2>7
  <2>9. torn' => FramesAreWhole'  BY Zenon DEF FramesAreWhole
  <2>10. FramesAreWhole'  BY <2>8, <2>9
  <2> QED  BY <2>6, <2>8, <2>10, <1>4 DEF FramesInv
<1> QED  BY <1>3, <1>8, <1>16, <1>17, <1>18 DEF Process

\* BadResponse: only where a piece was left in the stream may a first byte be no type.
LEMMA BadResponseKeeps ==
  ASSUME FramesInv, NEW len \in 0..BufferSize, BadResponse(len) PROVE FramesInv'
<1>0. FramesTypeOK /\ FramesAreWhole  BY DEF FramesInv
<1>1. /\ stream \in Seq(Byte) /\ buffer \in Seq(Byte) /\ Len(stream) \in Nat /\ Len(buffer) \in Nat
      /\ BufferSize \in Nat /\ len \in Nat
  BY <1>0, ToComeIsASeq, Lengths
<1>2. PICK b, u, v, s : b = v \o SubSeq(u, 1, len) /\ u = stream /\ v = buffer /\ s = stream'
  OBVIOUS
<1>3. /\ u \in Seq(Byte) /\ v \in Seq(Byte) /\ len <= Len(u) /\ s = SubSeq(u, len + 1, Len(u))
      /\ len <= BufferSize - Len(v) /\ b # <<>> /\ b[1].at # 1 /\ buffer' = b
  BY <1>1, <1>2 DEF BadResponse
<1>4. /\ b \in Seq(Byte) /\ Len(b) = Len(v) + len /\ b \o s = v \o u
      /\ s \in Seq(Byte) /\ Len(s) = Len(u) - len
  <2>1. /\ v \o SubSeq(u, 1, len) \in Seq(Byte) /\ Len(v \o SubSeq(u, 1, len)) = Len(v) + len
        /\ (v \o SubSeq(u, 1, len)) \o SubSeq(u, len + 1, Len(u)) = v \o u
        /\ SubSeq(u, len + 1, Len(u)) \in Seq(Byte) /\ Len(SubSeq(u, len + 1, Len(u))) = Len(u) - len
    <3>1. u \in Seq(Byte) /\ v \in Seq(Byte) /\ len <= Len(u) /\ len \in Nat  BY <1>1, <1>3
    <3> QED  BY <3>1, ReadAndLeft
  <2> QED  BY <2>1, <1>2, <1>3
<1>5. /\ loopAt \in {"subscribe", "service"} /\ toDiscard = 0 /\ loopAt' \in {"ended", loopAt}
      /\ handled' = <<>> /\ framesOut' = framesOut /\ toDiscard' = toDiscard /\ framesIn' = framesIn
      /\ torn' = torn
  BY DEF BadResponse, Looping, LoopEnds
<1>6. torn
  <2> SUFFICES ASSUME ~torn PROVE FALSE  OBVIOUS
  <2>1. ToCome = v \o u  BY <1>2, <1>5 DEF ToCome
  <2>2. Regular(v \o u, framesOut, framesIn, toDiscard)  BY <2>1, <1>5 DEF FramesInv
  <2>3. PICK c : c = v \o u  OBVIOUS
  <2>4. c = b \o s  BY <2>3, <1>4
  <2>5. Len(b) \in Nat /\ Len(s) \in Nat /\ Len(b) > 0  BY <1>3, <1>4, EmptySeq, LenProperties
  <2>6. /\ Len(b \o s) = Len(b) + Len(s)
        /\ \A i \in 1..Len(b) + Len(s) : (b \o s)[i] = IF i <= Len(b) THEN b[i] ELSE s[i - Len(b)]
    BY <1>4, ConcatProperties
  <2>7. (b \o s)[1] = b[1] /\ Len(b \o s) > 0
    <3>1. 1 \in 1..Len(b) + Len(s) /\ 1 <= Len(b)  BY <2>5
    <3> QED  BY <3>1, <2>5, <2>6
  <2>8. c # <<>> /\ c[1] = b[1]  BY <2>4, <2>7, EmptySeq
  <2>9. c[1].at = 1  BY <2>2, <2>3, <2>8, <1>5 DEF Regular, Expected
  <2> QED  BY <2>8, <2>9, <1>3
<1>7. FramesTypeOK'
  <2>1. {stream', buffer', handled'} \subseteq Seq(Byte)  BY <1>2, <1>3, <1>4, <1>5, EmptySeq
  <2>2. Len(stream') <= OnTheWay
    BY <1>0, <1>1, <1>2, <1>3, <1>4, Lengths DEF FramesTypeOK
  <2>3. Len(buffer') <= BufferSize  BY <1>1, <1>2, <1>3, <1>4
  <2> QED  BY <2>1, <2>2, <2>3, <1>0, <1>5 DEF FramesTypeOK
<1>8. torn'  BY <1>5, <1>6
<1>9. FramesAreWhole'  BY <1>8, Zenon DEF FramesAreWhole
<1> QED  BY <1>5, <1>7, <1>8, <1>9 DEF FramesInv

\* Discard: what is read of a packet that is too large is gone, up to its last byte.
LEMMA DiscardKeeps ==
  ASSUME FramesInv, NEW len \in 0..BufferSize, Discard(len) PROVE FramesInv'
<1>0. FramesTypeOK /\ FramesAreWhole  BY DEF FramesInv
<1>1. /\ stream \in Seq(Byte) /\ buffer \in Seq(Byte) /\ Len(stream) \in Nat /\ Len(buffer) \in Nat
      /\ BufferSize \in Nat /\ BufferSize > 4 /\ framesIn \in Nat /\ toDiscard \in Nat /\ len \in Nat
  BY <1>0, ToComeIsASeq, Lengths
<1>2. PICK s, t, n, f, d : s = stream /\ t = stream' /\ n = framesOut /\ f = framesIn /\ d = toDiscard
  OBVIOUS
<1>3. /\ d > 0 /\ len \in 1..d /\ len <= Len(s) /\ t = SubSeq(s, len + 1, Len(s)) /\ toDiscard' = d - len
      /\ handled' = <<>> /\ framesOut' = n /\ loopAt' = loopAt /\ torn' = torn
      /\ IF toDiscard' = 0 THEN buffer' = <<>> /\ framesIn' = (f + 1) % Frames
         ELSE buffer' = buffer /\ framesIn' = f
  BY <1>2 DEF Discard
<1>4. s \in Seq(Byte) /\ t \in Seq(Byte) /\ Len(t) = Len(s) - len /\ \A i \in 1..Len(s) - len : t[i] = s[i + len]
  BY <1>1, <1>2, <1>3, ReadAndLeft
<1>5. len \in Nat /\ len > 0 /\ len <= d /\ d \in Nat /\ d <= BufferSize + 1
  BY <1>0, <1>1, <1>2, <1>3 DEF FramesTypeOK
<1>6. FramesTypeOK'
  <2>1. {stream', buffer', handled'} \subseteq Seq(Byte)  BY <1>1, <1>2, <1>3, <1>4, EmptySeq
  <2>2. Len(stream') <= OnTheWay
    BY <1>0, <1>1, <1>2, <1>4, <1>5, Lengths DEF FramesTypeOK
  <2>3. Len(buffer') <= BufferSize  BY <1>0, <1>1, <1>3, EmptySeq DEF FramesTypeOK
  <2>4. toDiscard' \in 0..BufferSize + 1  BY <1>1, <1>3, <1>5
  <2>5. framesIn' \in 0..Frames - 1  BY <1>0, <1>1, <1>2, <1>3, NextNumber DEF FramesTypeOK
  <2> QED  BY <2>1, <2>2, <2>3, <2>4, <2>5, <1>0, <1>2, <1>3 DEF FramesTypeOK
<1>7. FramesAreWhole'
  <2>1. torn' \/ toDiscard' > 0 \/ Len(buffer') # BufferSize
    BY <1>1, <1>3, <1>5, EmptySeq
  <2>2. handled' = <<>>  BY <1>3
  <2> QED  BY <2>1, <2>2, Zenon DEF FramesAreWhole
<1>8. ASSUME ~torn', loopAt' # "ended" PROVE Regular(ToCome, framesOut, framesIn, toDiscard)'
  <2>1. d # 0 /\ ToCome = s  BY <1>2, <1>3, <1>5 DEF ToCome
  <2>2. Regular(s, n, f, d)  BY <2>1, <1>2, <1>3, <1>8 DEF FramesInv
  <2>3. s # <<>>  BY <1>3, <1>4, <1>5, EmptySeq
  <2>4. PICK rest : rest = IF d = 0 THEN PacketLength(s[1].kind) ELSE d  OBVIOUS
  <2>5. rest = d /\ len \in 1..rest  BY <2>1, <2>4, <1>3
  <2>6. Len(t) = Len(s) - len /\ \A i \in 1..Len(t) : t[i] = s[i + len]  BY <1>4
  <2>7. Regular(t, n, IF len < rest THEN f ELSE (f + 1) % Frames, rest - len)
    BY <2>2, <2>3, <2>4, <2>5, <2>6, <1>4, <1>5, TakeFromPacket
  <2>8. toDiscard' = rest - len /\ (toDiscard' = 0 <=> ~(len < rest))  BY <2>5, <1>3, <1>5
  <2>9. framesIn' = IF len < rest THEN f ELSE (f + 1) % Frames  BY <2>8, <1>3
  <2>10. ToCome' = t
    <3>1. CASE toDiscard' = 0
      <4>1. buffer' = <<>>  BY <3>1, <1>3
      <4>2. <<>> \o t = t  BY <1>4, ConcatEmptySeq
      <4> QED  BY <3>1, <4>1, <4>2, <1>2 DEF ToCome
    <3>2. CASE toDiscard' # 0  BY <3>2, <1>2 DEF ToCome
    <3> QED  BY <3>1, <3>2
  <2> QED  BY <2>7, <2>8, <2>9, <2>10, <1>3
<1>9. loopAt' # "connack"  BY <1>2, <1>3, <1>5 DEF FramesInv
<1> QED  BY <1>6, <1>7, <1>8, <1>9 DEF FramesInv

\* The steps that end something: a subscription, an iteration, a session, a packet.
LEMMA EndingKeeps ==
  ASSUME FramesInv, ReceiveConnackFails \/ Subscribed \/ IterationFails \/ DiscardFails
  PROVE  FramesInv'
<1>0. FramesTypeOK /\ FramesAreWhole  BY DEF FramesInv
<1>1. CASE ReceiveConnackFails \/ Subscribed \/ IterationFails
  <2>1. /\ <<stream, framesOut, buffer, toDiscard, framesIn, torn>>'
             = <<stream, framesOut, buffer, toDiscard, framesIn, torn>>
        /\ handled' = <<>> /\ loopAt' \in {"ended", "service", loopAt}
        /\ (loopAt' = "connack" => loopAt = "connack") /\ (loopAt' # "ended" => loopAt # "ended")
    BY <1>1 DEF ReceiveConnackFails, Subscribed, IterationFails, LoopEnds, Looping
  <2>2. FramesTypeOK'  BY <2>1, <1>0, EmptySeq DEF FramesTypeOK
  <2>3. FramesAreWhole'  BY <2>1, <1>0 DEF FramesAreWhole
  <2>4. ToCome' = ToCome  BY <2>1 DEF ToCome
  <2> QED  BY <2>1, <2>2, <2>3, <2>4 DEF FramesInv
<1>2. CASE DiscardFails
  <2>1. /\ stream' = stream /\ framesOut' = framesOut /\ framesIn' = framesIn
        /\ buffer' = <<>> /\ toDiscard' = 0 /\ handled' = <<>> /\ toDiscard > 0
        /\ loopAt' \in {"ended", loopAt}
    BY <1>2 DEF DiscardFails, LoopEnds
  <2>2. torn' \in BOOLEAN /\ (torn' <=> loopAt = "subscribe")  BY <1>2, Zenon DEF DiscardFails
  <2>3. toDiscard \in Nat  BY <1>0, ToComeIsASeq
  <2>4. loopAt # "connack"  BY <2>1, <2>3 DEF FramesInv
  <2>5. loopAt' = "ended" \/ torn'
    <3>1. CASE loopAt = "subscribe"  BY <3>1, <2>2
    <3>2. CASE loopAt = "service"  BY <3>2, <1>2 DEF DiscardFails, LoopEnds
    <3>3. CASE loopAt = "ended"  BY <3>3, <2>1
    <3> QED  BY <3>1, <3>2, <3>3, <2>4, <1>0 DEF FramesTypeOK
  <2>6. FramesTypeOK'
    <3>1. Len(buffer') <= BufferSize /\ {stream', buffer', handled'} \subseteq Seq(Byte)
            /\ toDiscard' \in 0..BufferSize + 1
      BY <2>1, <1>0, EmptySeq, Lengths DEF FramesTypeOK
    <3> QED  BY <3>1, <2>1, <2>2, <1>0 DEF FramesTypeOK
  <2>7. FramesAreWhole'
    <3>1. Len(buffer') # BufferSize /\ handled' = <<>>  BY <2>1, EmptySeq, Lengths
    <3> QED  BY <3>1 DEF FramesAreWhole
  <2>8. loopAt' # "connack"  BY <2>1, <2>4
  <2> QED  BY <2>5, <2>6, <2>7, <2>8, Zenon DEF FramesInv
<1> QED  BY <1>1, <1>2

\* The inductive invariant of MqttFrames.
LEMMA FramesStep == FramesInv /\ [FramesNext]_framesVars => FramesInv'
<1> SUFFICES ASSUME FramesInv, [FramesNext]_framesVars PROVE FramesInv'  OBVIOUS
<1>1. CASE \E kind \in Kinds : BrokerSendsFrame(kind)  BY <1>1, BrokerSendsFrameKeeps
<1>2. CASE NewSession  BY <1>2, FramesStart
<1>3. CASE ReceiveConnack  BY <1>3, ReceiveConnackKeeps
<1>4. CASE ReceiveConnackFails \/ Subscribed \/ IterationFails \/ DiscardFails  BY <1>4, EndingKeeps
<1>5. CASE \E len \in 0..BufferSize : ReceiveIteration(len)  BY <1>5, ReceiveIterationKeeps
<1>6. CASE \E len \in 0..BufferSize : BadResponse(len)  BY <1>6, BadResponseKeeps
<1>7. CASE \E len \in 0..BufferSize : Discard(len)  BY <1>7, DiscardKeeps
<1>8. CASE UNCHANGED framesVars
  <2>1. /\ <<stream, framesOut, buffer, toDiscard, loopAt, handled, framesIn, torn>>'
             = <<stream, framesOut, buffer, toDiscard, loopAt, handled, framesIn, torn>>
    BY <1>8 DEF framesVars
  <2>2. FramesTypeOK' /\ FramesAreWhole'  BY <2>1 DEF FramesInv, FramesTypeOK, FramesAreWhole
  <2>3. ToCome' = ToCome  BY <2>1 DEF ToCome
  <2> QED  BY <2>1, <2>2, <2>3 DEF FramesInv
<1> QED  BY <1>1, <1>2, <1>3, <1>4, <1>5, <1>6, <1>7, <1>8 DEF FramesNext

\* While no piece is left in the stream, the buffer and the stream hold, together, whole
\* packets in order, up to the one that the broker sends next, and the box is at the first
\* byte of one or in the middle of one that it discards.
THEOREM FramesInvariant == FramesSpec => []FramesInv
<1>1. FramesInit => FramesInv  BY FramesStart
<1>2. FramesInv /\ [FramesNext]_framesVars => FramesInv'  BY FramesStep
<1> QED  BY <1>1, <1>2, PTL DEF FramesSpec

\* What the callbacks get is a packet of the broker, whole, and the next one, and the buffer
\* never fills up with something that cannot be handled.
THEOREM FramesAreWholeCorrect == FramesSpec => []FramesAreWhole
<1>1. FramesInv => FramesAreWhole  BY DEF FramesInv
<1> QED  BY <1>1, FramesInvariant, PTL
=============================================================================
