----------------------------- MODULE MCChatServer -----------------------------
\* Model checking of ChatServer: handler invocations are interchangeable.
EXTENDS ChatServer, TLC

CallSymmetry == Permutations(Calls)

=============================================================================
