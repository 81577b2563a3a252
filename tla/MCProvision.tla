----------------------------- MODULE MCProvision -----------------------------
EXTENDS ProvisionProperties
=============================================================================
