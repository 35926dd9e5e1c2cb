------------------------------- MODULE MCQuota -------------------------------
\* Quota for a few seconds and requests.
EXTENDS Quota

MCQuotas == 0..2
=============================================================================
