------------------------------- MODULE MCOutbox -------------------------------
\* Model checking of Outbox: users are interchangeable, and so are messages of
\* one kind.
EXTENDS Outbox, TLC

TabSymmetry == Permutations(Users) \cup Permutations(Messages \ Media)

=============================================================================
