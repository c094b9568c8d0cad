---------------------------- MODULE MCSecureLearn ----------------------------
(* A node is included, once or twice, while another one that has the key    *)
(* reports its scheme, verifies the key and asks for the supported commands.*)
EXTENDS SecureLearn

CONSTANTS n1, n2
=============================================================================
