---------------------------- MODULE MCAcpSession ----------------------------
(* AcpSession on a small instance: its constants are numbers, given in the  *)
(* configuration.                                                          *)
EXTENDS AcpSession
=============================================================================
