--------------------------- MODULE MCInvitations ---------------------------
(* Instances of Invitations for TLC. *)
EXTENDS Invitations, TLC

CONSTANT t1

MCUser(t) == [type |-> "user", tenant |-> t, platform |-> FALSE]
MCOneTenant == {MCUser(t1)}

MCSymmetry == Permutations(Requests) \cup Permutations(Invitations) \cup Permutations(Users)
=============================================================================
