\* The cycle of the sensor task.
SPECIFICATION FairSensorSpec
PROPERTY SensorsOffAgain
CHECK_DEADLOCK FALSE
