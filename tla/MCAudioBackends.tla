-------------------------- MODULE MCAudioBackends ---------------------------
\* The instance of AudioBackends for TLC: two devices of which either may have
\* no, one or two channels of either direction; two calls and two set-ups, so
\* that a second one meets what the first has left; three handles, so that two
\* calls can open their ports with or without one being given out again.
EXTENDS AudioBackends
=============================================================================
