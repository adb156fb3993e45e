CONSTANTS
  Slots = 2
  Records = 2
  LastId = 3
  Topics = 1
  Messages = {"m1", "m2"}
  Commands = {"c1"}
  BrokerIds = {1}
  InFlight = 3
  Intact = FALSE
SPECIFICATION MqttSpec
INVARIANTS MqttTypeOK KeptCanBeAcknowledged AcknowledgedIsHanded
PROPERTIES KeepsItsPromise
