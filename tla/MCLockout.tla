------------------------------ MODULE MCLockout ------------------------------
(* Requests are not made interchangeable: the run checks LockLifts too. *)
EXTENDS Lockout
=============================================================================
