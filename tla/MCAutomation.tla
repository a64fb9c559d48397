----------------------------- MODULE MCAutomation ----------------------------
\* An instance of Automation for TLC.
EXTENDS Automation
=============================================================================
