------------------------------- MODULE Tools -------------------------------
(***************************************************************************)
(* The command-line tools and scripts of the repository side by side.      *)
(* They share no state; what is asked of the output of more than one of    *)
(* them is stated here.                                                    *)
(***************************************************************************)
EXTENDS UpstreamSync, SourceZip, DevStack, IssueTransport, PrototypeFiles

\* No tool reports success over a part of its output, or over another's
\* (zip_source_code.js, materialize-prototype.mjs).
OutputIsWhole == OnlyCopiesAreUnfinished /\ LinksStayOut /\ SuccessMeansCurrent

=============================================================================
