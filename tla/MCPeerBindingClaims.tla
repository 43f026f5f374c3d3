-------------------------- MODULE MCPeerBindingClaims --------------------------
EXTENDS PeerBindingClaims

MCOperations == <<3>>

=============================================================================
