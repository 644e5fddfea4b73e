----------------------------- MODULE MCBagPlayer -----------------------------
EXTENDS BagPlayerProperties

CONSTANTS drive, empty, lidar, odom

\* Two topics; two messages at once, a small gap and a long one.
MCMessages ==
  drive :> <<[time |-> 1, topic |-> lidar], [time |-> 5, topic |-> odom],
             [time |-> 6, topic |-> lidar]>> @@
  empty :> <<>>
===============================================================================
