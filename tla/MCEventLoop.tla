---------------------------- MODULE MCEventLoop ----------------------------
(***************************************************************************)
(* Two processes of the mail server and the submission service; two        *)
(* descriptors besides the listener's, a reply that needs two sends.       *)
(***************************************************************************)
EXTENDS EventLoop

MCFd == {3, 4, 5}
=============================================================================
