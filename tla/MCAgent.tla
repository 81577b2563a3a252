------------------------------ MODULE MCAgent -------------------------------
EXTENDS AgentProperties
=============================================================================
