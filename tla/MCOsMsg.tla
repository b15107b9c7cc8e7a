------------------------------ MODULE MCOsMsg ------------------------------
(***************************************************************************)
(* Instances of the mailboxes and queues for TLC.  Two messages, so that   *)
(* one cannot stand for the other.  MCMbox: three application tasks and a  *)
(* mailbox; MCMsgQ: two tasks, and two event blocks for one OS_Q of three  *)
(* entries, so that the ring wraps both ways and creations fail half way.  *)
(***************************************************************************)
EXTENDS OsMsg
=============================================================================
