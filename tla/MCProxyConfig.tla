---------------------------- MODULE MCProxyConfig ----------------------------
EXTENDS ProxyConfig, TLC
CONSTANTS t1, t2, t3

\* Ints of four bits: 3 * 2 is one, 3 * 3 is not, and -1 is the poll() that never times out.
MCValues == {-1, 2, 3}
CallerSymmetry == Permutations(Callers)

==============================================================================
