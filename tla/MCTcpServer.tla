------------------------------ MODULE MCTcpServer ------------------------------
EXTENDS TcpServer, TLC
CONSTANTS u1, u2, s1, s2, s3, n1, n2, n3

Sym == Permutations({u1, u2}) \cup Permutations({s1, s2, s3})
       \cup Permutations({n1, n2, n3})
================================================================================
