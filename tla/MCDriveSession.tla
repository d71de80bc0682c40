---------------------------- MODULE MCDriveSession ----------------------------
(* DriveSession with an image change of two cycles of the drive, the panel   *)
(* looked at on every second pass, three keys and two resets of the computer *)
(* (three keys and none where a mount follows a mount).                      *)
EXTENDS DriveSession
===============================================================================
