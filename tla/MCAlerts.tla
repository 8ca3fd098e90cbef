------------------------------ MODULE MCAlerts -------------------------------
EXTENDS Alerts
=============================================================================
