------------------------------ MODULE MCPollLoop ------------------------------
EXTENDS PollLoop, TLC

CONSTANTS c1, c2, c3

ConnSymmetry == Permutations(Conns)

=============================================================================
