---------------------------- MODULE MCLoopTests -----------------------------
\* The instance of LoopTests for TLC: with one datagram from outside per local
\* STUN server the ICE loop test can succeed, without any it cannot; three strange
\* datagrams at the DTLS server: a stranger can connect, be established and close.
EXTENDS LoopTests
=============================================================================
