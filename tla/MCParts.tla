------------------------------- MODULE MCParts -------------------------------
(***************************************************************************)
(* The parts that share no state with one another nor with the motors, in  *)
(* one run: a behaviour is one of one part, and the others stand still.    *)
(***************************************************************************)
EXTENDS TofRing, CatFsm, BleMotion, AppConfig, ConsoleLine, CloudLink, LedShow, Diag,
        StepMotor, TlsConnect, SensorLine, MqttFrames, KeyScan

VARIABLE part

partsVars ==
  <<part, tofVars, catVars, bleVars, configVars, consoleVars, cloudVars, ledVars, diagVars, vars,
    tlsVars, sensorVars, framesVars, keyVars>>

\* Where the initial states of a part are several, it stands still in one of them.
PartsInit ==
  /\ part \in {"tof", "cat", "ble", "config", "console", "cloud", "led", "diag", "step", "tls",
              "sensor", "frames", "key"}
  /\ TofInit /\ CatInit /\ BleInit /\ ConfigInit /\ ConsoleInit /\ CloudInit /\ LedInit /\ DiagInit
  /\ Init /\ TlsInit /\ SensorInit /\ FramesInit /\ KeyInit
  /\ part # "cat" => ~cat
  /\ part # "cloud" => ~apUp /\ ~brokerUp /\ stored = "none"
  /\ part # "diag" => where["scoop"] = "close" /\ where["waste"] = "close"
  /\ part # "tls" => inFlash = {} /\ ~registered
  /\ part # "step" => place["waste"] = "close" /\ ordered = {"waste"}
  /\ "waste" \notin ordered => place["waste"] = "close"
  /\ "spin" \notin ordered => place["spin"] = "on"

PartsNext ==
  /\ UNCHANGED part
  /\ \/ /\ part = "tof" /\ TofNext
        /\ UNCHANGED <<catVars, bleVars, configVars, consoleVars, cloudVars, ledVars, diagVars, vars, tlsVars, sensorVars, framesVars, keyVars>>
     \/ /\ part = "cat" /\ CatNext
        /\ UNCHANGED <<tofVars, bleVars, configVars, consoleVars, cloudVars, ledVars, diagVars, vars, tlsVars, sensorVars, framesVars, keyVars>>
     \/ /\ part = "ble" /\ BleNext
        /\ UNCHANGED <<tofVars, catVars, configVars, consoleVars, cloudVars, ledVars, diagVars, vars, tlsVars, sensorVars, framesVars, keyVars>>
     \/ /\ part = "config" /\ ConfigNext
        /\ UNCHANGED <<tofVars, catVars, bleVars, consoleVars, cloudVars, ledVars, diagVars, vars, tlsVars, sensorVars, framesVars, keyVars>>
     \/ /\ part = "console" /\ ConsoleNext
        /\ UNCHANGED <<tofVars, catVars, bleVars, configVars, cloudVars, ledVars, diagVars, vars, tlsVars, sensorVars, framesVars, keyVars>>
     \/ /\ part = "cloud" /\ CloudNext
        /\ UNCHANGED <<tofVars, catVars, bleVars, configVars, consoleVars, ledVars, diagVars, vars, tlsVars, sensorVars, framesVars, keyVars>>
     \/ /\ part = "led" /\ LedNext
        /\ UNCHANGED <<tofVars, catVars, bleVars, configVars, consoleVars, cloudVars, diagVars, vars, tlsVars, sensorVars, framesVars, keyVars>>
     \/ /\ part = "diag" /\ DiagNext
        /\ UNCHANGED <<tofVars, catVars, bleVars, configVars, consoleVars, cloudVars, ledVars, vars, tlsVars, sensorVars, framesVars, keyVars>>
     \/ /\ part = "step" /\ Next
        /\ UNCHANGED <<tofVars, catVars, bleVars, configVars, consoleVars, cloudVars, ledVars, diagVars, tlsVars, sensorVars, framesVars, keyVars>>
     \/ /\ part = "tls" /\ TlsNext
        /\ UNCHANGED <<tofVars, catVars, bleVars, configVars, consoleVars, cloudVars, ledVars, diagVars, vars, sensorVars, framesVars, keyVars>>
     \/ /\ part = "sensor" /\ SensorNext
        /\ UNCHANGED <<tofVars, catVars, bleVars, configVars, consoleVars, cloudVars, ledVars, diagVars, vars, tlsVars, framesVars, keyVars>>
     \/ /\ part = "frames" /\ FramesNext
        /\ UNCHANGED <<tofVars, catVars, bleVars, configVars, consoleVars, cloudVars, ledVars, diagVars, vars, tlsVars, sensorVars, keyVars>>
     \/ /\ part = "key" /\ KeyNext
        /\ UNCHANGED <<tofVars, catVars, bleVars, configVars, consoleVars, cloudVars, ledVars, diagVars, vars, tlsVars, sensorVars, framesVars>>

\* CatFairness, BleFairness, CloudFairness and that of StepMotor, each for the behaviours of its part
PartsFairness ==
  /\ WF_catVars(part = "cat" /\ CatSample)
  /\ WF_bleVars(part = "ble" /\ ReceiveData)
  /\ WF_bleVars(part = "ble" /\ (MotionTimeout \/ CaptureTick))
  /\ WF_bleVars(part = "ble" /\ TransmitData)
  /\ WF_bleVars(part = "ble" /\ AirDelivers)
  /\ WF_cloudVars(part = "cloud" /\ WifiWorks)
  /\ WF_cloudVars(part = "cloud" /\ AwsWorks)
  /\ \A m \in Steppers : /\ WF_vars(part = "step" /\ TaskStep(m))
                         /\ WF_vars(part = "step" /\ IsrStep(m))

PartsSpec == PartsInit /\ [][PartsNext]_partsVars /\ PartsFairness

-----------------------------------------------------------------------------
\* Every variable has its type, and every buffer and queue its bound.
PartsTypeOK ==
  TofTypeOK /\ CatTypeOK /\ BleTypeOK /\ ConfigTypeOK /\ ConsoleTypeOK /\ CloudTypeOK
    /\ LedTypeOK /\ DiagTypeOK /\ TypeOK /\ TlsTypeOK /\ SensorTypeOK
    /\ FramesTypeOK /\ KeyTypeOK
=============================================================================
