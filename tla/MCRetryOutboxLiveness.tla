----------------------- MODULE MCRetryOutboxLiveness -----------------------
(* The small instances of MCRetryOutbox, for temporal properties.           *)
EXTENDS MCRetryOutbox, RetryOutboxLiveness
=============================================================================
