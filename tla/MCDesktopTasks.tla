--------------------------- MODULE MCDesktopTasks ---------------------------
(* Instances of the desktop downloads for TLC. *)
EXTENDS DesktopTasksProperties
=============================================================================
