----------------------------- MODULE MCPeerBinding -----------------------------
EXTENDS PeerBindingProperties

MCOperations == <<3, 1>>

=============================================================================
