SPECIFICATION Spec
CONSTANT Clients = {c1, c2, c3}
PROPERTIES SpeakerIsServed EndIsNoticed
CHECK_DEADLOCK FALSE
