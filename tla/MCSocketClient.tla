---------------------------- MODULE MCSocketClient ----------------------------
\* Model checking of SocketClient: client objects are interchangeable.
EXTENDS SocketClient, TLC

SocketSymmetry == Permutations(Sockets)

=============================================================================
