CONSTANTS
  Slots = 2
  Records = 2
  LastId = 3
  Topics = 1
  Messages = {"m1"}
  Commands = {"c1"}
  BrokerIds = {1}
  InFlight = 3
  Intact = FALSE
SPECIFICATION MqttFairSpec
PROPERTIES Delivered
