------------------------ MODULE MCStreamingRecovery ------------------------
EXTENDS StreamingRecovery
=============================================================================
