-------------------------- MODULE MCInterruptedResched --------------------------
EXTENDS InterruptedResched

ThreeEquals ==
  {[calls |-> {"releaseall", "sleep", "resume"}, prios |-> <<1, 1, 1>>]}
==============================================================================
