---------------------------- MODULE MCListeners ----------------------------
EXTENDS Listeners

Logs == {2, 3, 4}
Bad  == {3}
None == {}
============================================================================
