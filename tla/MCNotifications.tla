--------------------------- MODULE MCNotifications ---------------------------
\* The instances of Notifications that are model-checked: MCNotifications.cfg
\* has two scheduler threads and a server thread, MCShutdownJoin.cfg the one
\* scheduler thread of the node and its load-block thread.

EXTENDS Notifications
=============================================================================
