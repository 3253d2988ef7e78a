---------------------------- MODULE MCFtpServer ----------------------------
(* Bounded instances of FtpServer for TLC; the values are in the cfg files. *)
EXTENDS FtpServer
=============================================================================
