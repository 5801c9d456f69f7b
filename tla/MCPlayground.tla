---------------------------- MODULE MCPlayground ----------------------------
\* The instance of Playground for TLC: three incoming calls for the agent; two
\* devices and two packets for the SRTP programs.
EXTENDS Playground
=============================================================================
