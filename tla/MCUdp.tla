------------------------------- MODULE MCUdp --------------------------------
EXTENDS Udp, TLC

Symmetry == Permutations(Addrs)
=============================================================================
