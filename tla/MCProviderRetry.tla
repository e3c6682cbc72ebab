--------------------------- MODULE MCProviderRetry ---------------------------
(* Both CLIs, a new or an existing session, two idle attempts, two lines of  *)
(* output per subprocess.                                                    *)
EXTENDS ProviderRetry

MCRetries == 2
MCMaxLines == 2
=============================================================================
