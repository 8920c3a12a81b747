SPECIFICATION Utf8Spec
CONSTANT Bytes = {0, 128, 160, 161, 175, 176, 191, 237}
PROPERTY SurrogatesAsCommented
CHECK_DEADLOCK FALSE
