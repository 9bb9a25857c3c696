------------------------------ MODULE Desktop ------------------------------
(***************************************************************************)
(* The parts of the desktop application that have a few requests or files  *)
(* each, side by side: the page's connection, its jobs, its preferences,   *)
(* the screen of the collections, and the host's list of workspaces.  What *)
(* is asked of more than one of them is stated here.                       *)
(***************************************************************************)
EXTENDS PageSession, JobView, PagePreferences, SchemaPage, WorkspaceRegistry

\* When nothing is under way, the list follows the job that has ended (useJob), and
\* the database follows the layout (AppShell).
QuietPageAgrees == EndedJobsAreListed /\ QuietLayoutIsSaved

=============================================================================
