------------------------------ MODULE MCRpcRouter ------------------------------
(* An instance of RpcRouter for TLC: its constants are in the cfg.         *)
EXTENDS RpcRouter

=============================================================================
