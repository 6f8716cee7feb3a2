------------------------------- MODULE MCCli -------------------------------
EXTENDS Cli

Chain(n, i, b) == [name |-> n, nid |-> i, on |-> b]

SomeChains == {Chain("a", 1, TRUE), Chain("b", 2, TRUE), Chain("a", 3, TRUE),
               Chain("c", 4, FALSE)}
ByHand == {Chain("a", 1, TRUE), Chain("c", 4, FALSE)}
============================================================================
