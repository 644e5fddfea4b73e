---------------------------- MODULE MCBagRecorder ----------------------------
EXTENDS BagRecorderProperties
===============================================================================
