---------------------------- MODULE MCHubDelivery ---------------------------
\* HubDelivery for TLC: orgs, Flusher objects and markers are model values.
EXTENDS HubDelivery
=============================================================================
