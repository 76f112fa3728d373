------------------------------- MODULE MCBringup -------------------------------
EXTENDS Bringup
===============================================================================
