---------------------------- MODULE MCMembership ----------------------------
EXTENDS Membership

\* No key is hashed here.
MCHash == [k \in Keys |-> 0]

=============================================================================
