---------------------------- MODULE MCS3Transfer ----------------------------
(* S3Transfer as TLC checks it: the .cfg files give the constants their    *)
(* values.                                                                 *)
EXTENDS S3Transfer
=============================================================================
