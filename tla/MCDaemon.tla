------------------------------- MODULE MCDaemon -------------------------------
(* An instance of Daemon for TLC: two handlers and a request of each shape.  *)
EXTENDS Daemon, TLC

CONSTANTS h1, h2
MCHandlers == {h1, h2}
===============================================================================
