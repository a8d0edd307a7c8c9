--------------------------- MODULE MCMqttSimulation ---------------------------
EXTENDS MqttSimulation
=============================================================================
