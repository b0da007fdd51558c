---------------------------- MODULE MCEmailWorker ----------------------------
\* Values of the constants for the run of EmailWorker.
EXTENDS EmailWorker

CONSTANTS j1, j2, j3, w1, w2
===============================================================================
