------------------------------ MODULE CloudLink ------------------------------
(***************************************************************************)
(* How the box gets to its broker and back: the Wi-Fi connection and its   *)
(* event handler (main/wifi/wifi_task.c), and the cloud task that          *)
(* connects, tries again and restarts the box (main/provisioning/).  The   *)
(* access point, the broker, the phone and the power are the environment;  *)
(* MqttSession has what happens in a session.                              *)
(***************************************************************************)
EXTENDS Integers

CONSTANTS
  MaximumRetry, \* MAXIMUM_RETRY
  MaxTries,     \* how many failures aws_iot_main_entry takes before it restarts
  MaxSessions   \* PKCS #11 sessions there are; nobody closes one

ASSUME CloudAssumption == {MaximumRetry, MaxTries, MaxSessions} \subseteq Nat \ {0}

VARIABLES
  apUp, brokerUp, \* what can be reached
  stored,    \* the credentials in the flash: none, or the right or wrong ones
  config,    \* those of the Wi-Fi driver
  station,   \* what the driver does
  allow,     \* s_allow_reconnect
  retryNum,  \* s_retry_num
  connectedBit, failBit, \* s_wifi_event_group
  connector, \* where Wifi_Connect is
  saveAfter, \* its caller saves the credentials only if it succeeds
  aws,       \* where aws_iot_main_entry is
  tries,     \* provisioning_count
  sessions   \* PKCS #11 sessions open

wifiState == <<config, station, allow, retryNum, connectedBit, failBit>>
awsState  == <<aws, tries, sessions>>
cloudVars == <<apUp, brokerUp, stored, wifiState, connector, saveAfter, awsState>>

CloudTypeOK ==
  /\ {apUp, brokerUp, allow, connectedBit, failBit, saveAfter} \subseteq BOOLEAN
  /\ {stored, config} \subseteq {"none", "right", "wrong"}
  /\ station \in {"down", "trying", "up"} /\ retryNum \in 0..MaximumRetry
  /\ connector \in {"none", "leaving", "waiting"}
  /\ aws \in {"unborn", "waiting", "connecting", "serving"}
  /\ tries \in 0..MaxTries /\ sessions \in 0..MaxSessions

\* wifi_init, before aws_iot_task_init; without credentials it does not connect.
FirstStation(credentials)   == IF credentials = "none" THEN "down" ELSE "trying"
FirstConnector(credentials) == IF credentials = "none" THEN "none" ELSE "waiting"

CloudInit ==
  /\ apUp \in BOOLEAN /\ brokerUp \in BOOLEAN /\ stored \in {"none", "right", "wrong"}
  /\ config = stored /\ station = FirstStation(stored) /\ connector = FirstConnector(stored)
  /\ allow = TRUE /\ retryNum = 0 /\ connectedBit = FALSE /\ failBit = FALSE /\ saveAfter = FALSE
  /\ aws = "unborn" /\ tries = 0 /\ sessions = 0

Reboot ==
  /\ config' = stored /\ station' = FirstStation(stored) /\ connector' = FirstConnector(stored)
  /\ allow' = TRUE /\ retryNum' = 0 /\ connectedBit' = FALSE /\ failBit' = FALSE /\ saveAfter' = FALSE
  /\ aws' = "unborn" /\ tries' = 0 /\ sessions' = 0
  /\ UNCHANGED <<apUp, brokerUp, stored>>

-----------------------------------------------------------------------------
(* wifi_event_handler *)

Associate ==
  /\ station = "trying" /\ apUp /\ config = "right"
  /\ station' = "up" /\ retryNum' = 0 /\ connectedBit' = TRUE
  /\ UNCHANGED <<apUp, brokerUp, stored, config, allow, failBit, connector, saveAfter, awsState>>

\* WIFI_EVENT_STA_DISCONNECTED; WIFI_CONNECTED_BIT is left as it is.
OnDisconnected ==
  IF allow /\ retryNum < MaximumRetry
  THEN station' = "trying" /\ retryNum' = retryNum + 1 /\ UNCHANGED failBit
  ELSE station' = "down" /\ failBit' = (allow \/ failBit) /\ UNCHANGED retryNum

Unreachable == (station = "trying" /\ ~(apUp /\ config = "right")) \/ (station = "up" /\ ~apUp)

Disconnected ==
  /\ Unreachable /\ OnDisconnected
  /\ UNCHANGED <<apUp, brokerUp, stored, config, allow, connectedBit, connector, saveAfter, awsState>>

-----------------------------------------------------------------------------
(* Wifi_Connect, called by the phone's command (and in Boot) *)

\* Wifi_Disconnect: from here on the handler does not connect again.
CallConnect(credentials, after) ==
  /\ connector = "none" /\ aws # "unborn"
  /\ connector' = "leaving" /\ saveAfter' = after
  /\ station' = IF station = "up" THEN "down" ELSE station
  /\ allow' = (allow /\ station # "up")
  /\ config' = credentials \* esp_wifi_set_config
  /\ stored' = IF after THEN stored ELSE credentials
  /\ UNCHANGED <<apUp, brokerUp, retryNum, connectedBit, failBit, awsState>>

StartConnect ==
  /\ connector = "leaving" /\ connector' = "waiting"
  /\ connectedBit' = FALSE /\ failBit' = FALSE /\ retryNum' = 0 /\ station' = "trying"
  /\ UNCHANGED <<apUp, brokerUp, stored, config, allow, saveAfter, awsState>>

ConnectEnds ==
  /\ connector = "waiting" /\ (connectedBit \/ failBit) /\ connector' = "none"
  /\ stored' = IF connectedBit /\ saveAfter THEN config ELSE stored
  /\ UNCHANGED <<apUp, brokerUp, wifiState, saveAfter, awsState>>

\* After 15 s it disconnects, which the handler takes for a failed attempt.
ConnectTimesOut ==
  /\ connector = "waiting" /\ ~connectedBit /\ ~failBit /\ connector' = "none"
  /\ IF station = "down" THEN UNCHANGED <<station, retryNum, failBit>> ELSE OnDisconnected
  /\ UNCHANGED <<apUp, brokerUp, stored, config, allow, connectedBit, saveAfter, awsState>>

-----------------------------------------------------------------------------
(* aws_iot_main_entry *)

\* It is created when wifi_init is over, and waits for WIFI_CONNECTED_BIT.
TaskBegins ==
  /\ aws = "unborn" /\ connector = "none" /\ aws' = "waiting"
  /\ UNCHANGED <<apUp, brokerUp, stored, wifiState, connector, saveAfter, tries, sessions>>

BitIsSet ==
  /\ aws = "waiting" /\ connectedBit /\ aws' = "connecting"
  /\ UNCHANGED <<apUp, brokerUp, stored, wifiState, connector, saveAfter, tries, sessions>>

\* aws_iot_provisioning_main: it opens a session first, and a connection with it.
OpensSession == sessions < MaxSessions
Reachable    == station = "up" /\ brokerUp

Connected ==
  /\ aws = "connecting" /\ OpensSession /\ Reachable
  /\ aws' = "serving" /\ sessions' = sessions + 1
  /\ UNCHANGED <<apUp, brokerUp, stored, wifiState, connector, saveAfter, tries>>

\* Mutant: it goes on for ever.
GivesUpNever == FALSE

GivesUp == tries >= MaxTries

ConnectFails ==
  /\ aws = "connecting" /\ ~(OpensSession /\ Reachable)
  /\ \/ GivesUp /\ Reboot
     \/ /\ ~GivesUp
        /\ tries' = IF tries < MaxTries THEN tries + 1 ELSE tries
        /\ sessions' = IF OpensSession THEN sessions + 1 ELSE sessions
        /\ UNCHANGED <<apUp, brokerUp, stored, wifiState, connector, saveAfter, aws>>

\* ProcessLoopWithTimeout fails; provisioning_count is not reset.
ConnectionLost ==
  /\ aws = "serving" /\ ~Reachable /\ aws' = "waiting"
  /\ UNCHANGED <<apUp, brokerUp, stored, wifiState, connector, saveAfter, tries, sessions>>

-----------------------------------------------------------------------------
(* The environment *)

NetworkChanges ==
  /\ apUp' \in BOOLEAN /\ brokerUp' \in BOOLEAN
  /\ UNCHANGED <<stored, wifiState, connector, saveAfter, awsState>>

PhoneConnects == \E credentials \in {"right", "wrong"}, after \in BOOLEAN : CallConnect(credentials, after)

CloudDisturbed == PhoneConnects \/ Reboot

WifiWorks == Associate \/ Disconnected \/ StartConnect \/ ConnectEnds \/ ConnectTimesOut
AwsWorks  == TaskBegins \/ BitIsSet \/ Connected \/ ConnectFails \/ ConnectionLost

CloudNext == WifiWorks \/ AwsWorks \/ NetworkChanges \/ CloudDisturbed

CloudSpec     == CloudInit /\ [][CloudNext]_cloudVars
CloudFairness == WF_cloudVars(WifiWorks) /\ WF_cloudVars(AwsWorks)
CloudFairSpec == CloudSpec /\ CloudFairness

-----------------------------------------------------------------------------
(* Properties *)

\* Nobody connects any more: the handler does not, and the cloud task waits for a bit that
\* nobody sets.
GivenUp == station = "down" /\ ~connectedBit

\* With the network back and nobody interfering, the box gets to its broker or has given
\* up: it is the restart by the cloud task that repairs a connection that the handler does
\* not, and the sessions that nobody closes.
OnlineAgain ==
  <>[](apUp /\ brokerUp) /\ <>[][~CloudDisturbed]_cloudVars
    => <>[](aws = "serving") \/ <>[]GivenUp
=============================================================================
