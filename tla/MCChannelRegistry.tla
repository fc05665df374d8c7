-------------------------- MODULE MCChannelRegistry --------------------------
(* Small instances of ChannelRegistry.                                     *)
EXTENDS ChannelRegistry, TLC

Symmetry == Permutations(Channels) \cup Permutations(Fds)
=============================================================================
