---------------------------- MODULE MCEventStream ---------------------------
EXTENDS EventStream

=============================================================================
