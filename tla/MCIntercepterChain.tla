-------------------------- MODULE MCIntercepterChain --------------------------
\* Every chain of at most MaxChain intercepters, for TLC.
EXTENDS IntercepterChain

MaxChain == 4

MCChains == UNION {[1..n -> Intercepters] : n \in 0..MaxChain}
===============================================================================
