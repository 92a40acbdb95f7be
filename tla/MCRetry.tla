------------------------------- MODULE MCRetry -------------------------------
(***************************************************************************)
(* Instances of Retry for TLC.  Messages contain a retryable pattern, a    *)
(* skipped one, both, or neither; timeouts range from none and zero to one *)
(* that several attempts and sleeps use up.                                *)
(***************************************************************************)
EXTENDS Retry

CONSTANTS connection, oauth

TimeoutValues == {NoTimeout, 0, 1, 2, 3, 4}
ErrorValues == {{connection}, {oauth}, {connection, oauth}, {}}
=============================================================================
