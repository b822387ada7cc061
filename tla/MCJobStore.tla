------------------------------ MODULE MCJobStore ------------------------------
(* One job, one excluded path, a request of the web interface and a backup *)
EXTENDS JobStore
CONSTANT j1
MCIds == <<j1>>
=============================================================================
