---------------------------- MODULE MCSplitEvents ----------------------------
EXTENDS SplitEventsProperties
===============================================================================
