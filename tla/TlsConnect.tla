----------------------------- MODULE TlsConnect -----------------------------
(***************************************************************************)
(* One call of aws_iot_provisioning_main after the other, down to the      *)
(* PKCS #11 module: the search for the certificate and the key, the        *)
(* signature that the handshake asks for, the back-off between attempts.   *)
(* All attempts of a call share a session, and all calls the list of       *)
(* objects.  Memory, flash, network and broker fail as they like.          *)
(***************************************************************************)
EXTENDS Integers, Sequences, SequencesExt

CONSTANTS
  MaxAttempts, \* CONNECTION_RETRY_MAX_ATTEMPTS
  MaxObjects   \* pkcs11configMAX_NUM_OBJECTS

ASSUME TlsAssumption == MaxAttempts \in Nat /\ MaxObjects \in Nat \ {0}

\* What the PAL has a file for.  No label is a prefix of another one.
Identities == {"claim", "device"}
Labels     == Identities \X {"cert", "key"}
NoLabel    == <<"no", "label">>
NoSignature == <<"no", "signature">>

VARIABLES
  inFlash,    \* the files there are; nobody writes one at run time
  registered, \* read_nvs_registration_flag
  objects,    \* xObjectList: an object's handle is its place
  searching,  \* pxFindObjectLabel of the session
  signing,    \* xOperationSignMechanism is set
  loadedKey,  \* xSignKeyHandle
  whose,      \* the labels that this connection has been asked to use
  target,     \* what is being looked for
  handles,    \* p11PrivateKey and certificateHandle
  attempts,   \* attemptsDone
  signature,  \* the key that the handshake's signature was made with
  tlsAt,      \* where aws_iot_main_entry is
  cause       \* in this attempt something has failed, or was not there

tlsSession == <<searching, signing, loadedKey>>
tlsVars == <<inFlash, registered, objects, tlsSession, whose, target, handles, attempts,
             signature, tlsAt, cause>>

TlsTypeOK ==
  /\ inFlash \subseteq Labels /\ {registered, signing, cause} \subseteq BOOLEAN
  /\ objects \in Seq(Labels) /\ IsInjective(objects) /\ Len(objects) <= MaxObjects
  /\ searching \in Labels \cup {NoLabel} /\ loadedKey \in 0..MaxObjects
  /\ whose \in Identities /\ target \in {"cert", "key"}
  /\ handles \in [{"cert", "key"} -> 0..MaxObjects] /\ attempts \in 0..MaxAttempts
  /\ signature \in Labels \cup {NoSignature}
  /\ tlsAt \in {"idle", "context", "init", "find", "final", "attribute", "connect", "signInit",
                "sign", "verify", "failed", "connected", "up"}

TlsInit ==
  /\ inFlash \in SUBSET Labels /\ registered \in BOOLEAN
  /\ objects = <<>> /\ searching = NoLabel /\ signing = FALSE /\ loadedKey = 0
  /\ whose = "claim" /\ target = "key" /\ handles = [o \in {"cert", "key"} |-> 0]
  /\ attempts = 0 /\ signature = NoSignature /\ tlsAt = "idle" /\ cause = FALSE

\* A buffer that is freed twice stops the box, and it starts again.
TlsReboot ==
  /\ objects' = <<>> /\ searching' = NoLabel /\ signing' = FALSE /\ loadedKey' = 0
  /\ whose' = "claim" /\ target' = "key" /\ handles' = [o \in {"cert", "key"} |-> 0]
  /\ attempts' = 0 /\ signature' = NoSignature /\ tlsAt' = "idle" /\ cause' = FALSE
  /\ UNCHANGED <<inFlash, registered>>

-----------------------------------------------------------------------------
(* aws_iot_provisioning_main *)

\* xInitializePkcs11Session: a session that nobody has used (CloudLink counts them).
OpenSession ==
  /\ tlsAt = "idle"
  /\ searching' = NoLabel /\ signing' = FALSE /\ loadedKey' = 0
  /\ whose' = IF registered THEN "device" ELSE "claim"
  /\ attempts' = 0 /\ tlsAt' = "context"
  /\ UNCHANGED <<inFlash, registered, objects, target, handles, signature, cause>>

\* EstablishMqttSession goes on with the broker, and disconnects if it is refused.  With
\* the claim, the box disconnects anyway and connects as itself, in the same session.
SessionFails ==
  /\ tlsAt = "connected" /\ tlsAt' = "idle"
  /\ UNCHANGED <<inFlash, registered, objects, tlsSession, whose, target, handles, attempts,
                 signature, cause>>

ClaimEnds ==
  /\ tlsAt = "connected" /\ whose = "claim"
  /\ whose' = "device" /\ attempts' = 0 /\ tlsAt' = "context"
  /\ UNCHANGED <<inFlash, registered, objects, tlsSession, target, handles, signature, cause>>

DeviceConnected ==
  /\ tlsAt = "connected" /\ whose = "device" /\ tlsAt' = "up"
  /\ UNCHANGED <<inFlash, registered, objects, tlsSession, whose, target, handles, attempts,
                 signature, cause>>

\* The server's answer to MESSEGE_REGISTRATION
ServerRegisters ==
  /\ tlsAt = "up" /\ ~registered /\ registered' = TRUE
  /\ UNCHANGED <<inFlash, objects, tlsSession, whose, target, handles, attempts, signature,
                 tlsAt, cause>>

Disconnect ==
  /\ tlsAt = "up" /\ tlsAt' = "idle"
  /\ UNCHANGED <<inFlash, registered, objects, tlsSession, whose, target, handles, attempts,
                 signature, cause>>

-----------------------------------------------------------------------------
(* connectToBrokerWithBackoffRetries and Mbedtls_Pkcs11_Connect *)

\* contextInit, the configuration and the root certificate
ConfigureMbedtls ==
  /\ tlsAt = "context" /\ target' = "key" /\ signature' = NoSignature
  /\ \/ tlsAt' = "init" /\ cause' = FALSE
     \/ tlsAt' = "failed" /\ cause' = TRUE
  /\ UNCHANGED <<inFlash, registered, objects, tlsSession, whose, handles, attempts>>

\* contextFree, and the next attempt after a while
Backoff ==
  /\ tlsAt = "failed"
  /\ IF attempts < MaxAttempts THEN attempts' = attempts + 1 /\ tlsAt' = "context"
     ELSE tlsAt' = "idle" /\ UNCHANGED attempts
  /\ UNCHANGED <<inFlash, registered, objects, tlsSession, whose, target, handles, signature, cause>>

\* mbedtls_ssl_setup, mbedtls_net_connect and the handshake up to the signature
SetupAndConnect ==
  /\ tlsAt = "connect"
  /\ \/ tlsAt' = "signInit" /\ UNCHANGED cause
     \/ tlsAt' = "failed" /\ cause' = TRUE
  /\ UNCHANGED <<inFlash, registered, objects, tlsSession, whose, target, handles, attempts, signature>>

\* The broker takes a signature for what the certificate says.
Shown == IF handles["cert"] = 0 THEN NoLabel ELSE objects[handles["cert"]]
Genuine == Shown = <<whose, "cert">> /\ signature = <<whose, "key">>

HandshakeEnds ==
  /\ tlsAt = "verify"
  /\ \/ Genuine /\ tlsAt' = "connected" /\ UNCHANGED cause
     \/ ~Genuine /\ tlsAt' = "failed" /\ UNCHANGED cause
     \/ tlsAt' = "failed" /\ cause' = TRUE
  /\ UNCHANGED <<inFlash, registered, objects, tlsSession, whose, target, handles, attempts, signature>>

-----------------------------------------------------------------------------
(* xFindObjectWithLabelAndClass: initializeClientKeys looks for the key, and *)
(* readCertificateIntoContext for the certificate; the class is ignored      *)

OperationActive == signing \/ searching # NoLabel

C_FindObjectsInit ==
  /\ tlsAt = "init"
  /\ \/ OperationActive /\ tlsAt' = "failed" /\ UNCHANGED <<searching, cause>>
     \/ ~OperationActive /\ searching' = <<whose, target>> /\ tlsAt' = "find" /\ UNCHANGED cause
     \/ ~OperationActive /\ tlsAt' = "failed" /\ cause' = TRUE /\ UNCHANGED searching
  /\ UNCHANGED <<inFlash, registered, objects, signing, loadedKey, whose, target, handles,
                 attempts, signature>>

\* PKCS11_PAL_GetObjectValue: a second read that fails frees the buffer, and the caller
\* still has its address.
GetObjectValue(label) == IF label \in inFlash THEN {"value", "none", "freed"} ELSE {"none"}

\* prvAddObjectToList, of an object that is not there yet
Added(label) ==
  IF Len(objects) < MaxObjects
  THEN /\ objects' = Append(objects, label)
       /\ handles' = [handles EXCEPT ![target] = Len(objects) + 1]
       /\ tlsAt' = "final" /\ UNCHANGED searching
  ELSE searching' = NoLabel /\ tlsAt' = "failed" /\ UNCHANGED <<objects, handles>>

C_FindObjects ==
  /\ tlsAt = "find"
  /\ UNCHANGED <<inFlash, registered, signing, loadedKey, whose, target, attempts, signature>>
  /\ IF \E h \in DOMAIN objects : objects[h] = searching
     THEN /\ handles' = [handles EXCEPT ![target] = CHOOSE h \in DOMAIN objects : objects[h] = searching]
          /\ tlsAt' = "final" /\ UNCHANGED <<objects, searching, cause>>
     ELSE \/ "value" \in GetObjectValue(searching) /\ Added(searching) /\ UNCHANGED cause
          \/ /\ handles' = [handles EXCEPT ![target] = 0] /\ cause' = TRUE
             /\ tlsAt' = "final" /\ UNCHANGED <<objects, searching>>

\* PKCS11_PAL_FindObject cleans up whatever GetObjectValue has said.
FindObjectFreesTwice ==
  /\ tlsAt = "find" /\ \A h \in DOMAIN objects : objects[h] # searching
  /\ "freed" \in GetObjectValue(searching)
  /\ TlsReboot

\* Mutant: a search that has found nothing is left open.
C_FindObjectsFinalIfFound ==
  /\ tlsAt = "final" /\ tlsAt' = "attribute"
  /\ searching' = IF handles[target] = 0 THEN searching ELSE NoLabel
  /\ UNCHANGED <<inFlash, registered, objects, signing, loadedKey, whose, target, handles,
                 attempts, signature, cause>>

C_FindObjectsFinal ==
  /\ tlsAt = "final" /\ tlsAt' = "attribute" /\ searching' = NoLabel
  /\ UNCHANGED <<inFlash, registered, objects, signing, loadedKey, whose, target, handles,
                 attempts, signature, cause>>

\* The type of the key; the certificate, twice, and its parsing.  Without a handle it fails.
C_GetAttributeValue ==
  /\ tlsAt = "attribute"
  /\ \/ /\ handles[target] # 0 /\ "value" \in GetObjectValue(objects[handles[target]])
        /\ IF target = "key" THEN target' = "cert" /\ tlsAt' = "init"
           ELSE tlsAt' = "connect" /\ UNCHANGED target
        /\ UNCHANGED cause
     \/ tlsAt' = "failed" /\ UNCHANGED target /\ cause' = (cause \/ handles[target] # 0)
  /\ UNCHANGED <<inFlash, registered, objects, tlsSession, whose, handles, attempts, signature>>

-----------------------------------------------------------------------------
(* privateKeySigningCallback returns 0 whatever happens: the broker notices *)

KeyIsLoaded == loadedKey # 0 /\ loadedKey = handles["key"]

C_SignInit ==
  /\ tlsAt = "signInit"
  /\ \/ OperationActive /\ tlsAt' = "verify" /\ UNCHANGED <<signing, loadedKey, cause>>
     \/ /\ ~OperationActive /\ "value" \in GetObjectValue(objects[handles["key"]])
        /\ loadedKey' = IF KeyIsLoaded THEN loadedKey ELSE handles["key"]
        /\ signing' = TRUE /\ tlsAt' = "sign" /\ UNCHANGED cause
     \/ /\ ~OperationActive /\ cause' = TRUE /\ tlsAt' = "verify"
        /\ loadedKey' \in {loadedKey, 0} \* prvSignInitEC_RSACleanUp, if it got that far
        /\ UNCHANGED signing
  /\ UNCHANGED <<inFlash, registered, objects, searching, whose, target, handles, attempts, signature>>

SignInitFreesTwice ==
  /\ tlsAt = "signInit" /\ ~OperationActive
  /\ "freed" \in GetObjectValue(objects[handles["key"]])
  /\ TlsReboot

C_Sign ==
  /\ tlsAt = "sign" /\ tlsAt' = "verify"
  /\ \/ signature' = objects[loadedKey] /\ UNCHANGED cause
     \/ UNCHANGED signature /\ cause' = TRUE
  /\ signing' = FALSE /\ loadedKey' = 0
  /\ UNCHANGED <<inFlash, registered, objects, searching, whose, target, handles, attempts>>

-----------------------------------------------------------------------------
TlsNext ==
  \/ OpenSession \/ SessionFails \/ ClaimEnds \/ DeviceConnected \/ ServerRegisters \/ Disconnect
  \/ ConfigureMbedtls \/ Backoff \/ SetupAndConnect \/ HandshakeEnds
  \/ C_FindObjectsInit \/ C_FindObjects \/ FindObjectFreesTwice \/ C_FindObjectsFinal
  \/ C_GetAttributeValue \/ C_SignInit \/ SignInitFreesTwice \/ C_Sign

TlsSpec == TlsInit /\ [][TlsNext]_tlsVars

-----------------------------------------------------------------------------
(* Properties *)

\* An attempt to connect fails because of what happens in it: memory, the flash, the
\* network or the broker, or an object that is not there.  It never fails because of what
\* an earlier one has left in the session (an open search, an operation, a key) or in
\* the list of objects, nor because it has shown or used an identity it was not asked to.
FailsForACause == tlsAt = "failed" => cause
=============================================================================
