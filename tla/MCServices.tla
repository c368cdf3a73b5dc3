----------------------------- MODULE MCServices ------------------------------
\* The parts of Services, small: two callers of the worker, who type a good token
\* or a bad one, and servers with and without billing and feedback.
EXTENDS Services

CONSTANTS h1, h2, good, bad

MCContacts == {h1, h2}
MCTyped == {good, bad}
MCValid == {good}
MCServers == {[billing |-> b, local |-> ~b, settings |-> TRUE, feedback |-> f] : b, f \in BOOLEAN}

=============================================================================
