------------------------------ MODULE MCStartup ------------------------------
(* What the documentation says of the start that TLC refutes.               *)
EXTENDS Startup

(* "--sync is ... blocked for Omni-managed clusters" (README.md:161-162):   *)
(* no mount of an Omni cluster is writable.  The gate looks only at the     *)
(* context's cluster field, once, and lets an unreadable file pass.         *)
OmniNeverWritable == omni => ~ writeable
=============================================================================
