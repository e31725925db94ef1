------------------------------ MODULE MCInbox ------------------------------
(* A small instance of Inbox for TLC. *)
EXTENDS Inbox
=============================================================================
