--------------------------- MODULE PrototypeFiles ---------------------------
(* materialize-prototype.mjs: the three files of a prototype are extracted  *)
(* from one Markdown document and written, or compared with it (--check).   *)
(* The program reads the document once and awaits between files, so that    *)
(* the document and the files may change while it runs; it may die.         *)
EXTENDS Naturals, Sequences

CONSTANTS
  Targets,    \* sequence: REQUIRED_TARGETS
  Versions,   \* contents a source block can have
  Makers,     \* runs of the program
  MaxHands,   \* bound: edits of the document or of a file by hand
  Missing     \* no such file, or no such block

VARIABLES
  document,   \* per target the content of its block, or Missing
  disk,       \* per target the file, or Missing
  maker,      \* per run
  edited,     \* edits so far
  disturbed   \* history, per run: something else wrote since it began

prototypeVars == <<document, disk, maker, edited, disturbed>>

Target == {Targets[i] : i \in DOMAIN Targets}

ASSUME TargetsAssumption == Targets \in Seq(Target)

New == [pc |-> "new"]
Over(result) == [pc |-> "over", result |-> result]

\* Another writer: every other run under way notices nothing.
Disturb(others) == disturbed' = [m \in Makers |-> disturbed[m] \/ m \in others]

EditDocument ==
  /\ edited < MaxHands
  /\ edited' = edited + 1
  /\ \E t \in Target, v \in Versions \cup {Missing} : document' = [document EXCEPT ![t] = v]
  /\ Disturb(Makers)
  /\ UNCHANGED <<disk, maker>>

EditFileByHand ==
  /\ edited < MaxHands
  /\ edited' = edited + 1
  /\ \E t \in Target, v \in Versions \cup {Missing} : disk' = [disk EXCEPT ![t] = v]
  /\ Disturb(Makers)
  /\ UNCHANGED <<document, maker>>

\* extractPrototypeSources: three blocks, one for each target, or an error.
Complete == \A t \in Target : document[t] # Missing

Extract(m) ==
  /\ maker[m] = New
  /\ \E check \in BOOLEAN :
       maker' = [maker EXCEPT ![m] =
         IF Complete
         THEN [pc |-> "file", check |-> check, sources |-> document, next |-> 1, same |-> TRUE]
         ELSE Over("error")]
  /\ disturbed' = [disturbed EXCEPT ![m] = FALSE]
  /\ UNCHANGED <<document, disk, edited>>

Here(m) == Targets[maker[m].next]
Under(m) == maker[m].pc = "file" /\ maker[m].next <= Len(Targets)

\* atomicWrite: the old file or the new one, never a part.
WriteFile(m) ==
  /\ Under(m) /\ ~maker[m].check
  /\ disk' = [disk EXCEPT ![Here(m)] = maker[m].sources[Here(m)]]
  /\ maker' = [maker EXCEPT ![m].next = @ + 1]
  /\ Disturb(Makers \ {m})
  /\ UNCHANGED <<document, edited>>

\* Mutant: only the last file decides.
CompareFile_Last(m) ==
  /\ Under(m) /\ maker[m].check
  /\ maker' = [maker EXCEPT ![m].next = @ + 1,
                            ![m].same = disk[Here(m)] = maker[m].sources[Here(m)]]
  /\ UNCHANGED <<document, disk, edited, disturbed>>

\* A missing file and a different one are mismatches; the rest is still read.
CompareFile(m) ==
  /\ Under(m) /\ maker[m].check
  /\ maker' = [maker EXCEPT ![m].next = @ + 1,
                            ![m].same = @ /\ disk[Here(m)] = maker[m].sources[Here(m)]]
  /\ UNCHANGED <<document, disk, edited, disturbed>>

Finish(m) ==
  /\ maker[m].pc = "file" /\ maker[m].next > Len(Targets)
  /\ maker' = [maker EXCEPT ![m] = Over(IF maker[m].same THEN "ok" ELSE "error")]
  /\ UNCHANGED <<document, disk, edited, disturbed>>

\* A write fails, a link is in the way, or the process dies.
Breaks(m) ==
  /\ maker[m].pc = "file"
  /\ maker' = [maker EXCEPT ![m] = Over("error")]
  /\ UNCHANGED <<document, disk, edited, disturbed>>

PrototypeInit ==
  /\ document \in [Target -> Versions]
  /\ disk = [t \in Target |-> Missing]
  /\ maker = [m \in Makers |-> New]
  /\ edited = 0
  /\ disturbed = [m \in Makers |-> FALSE]

PrototypeNext ==
  \/ EditDocument \/ EditFileByHand
  \/ \E m \in Makers : Extract(m) \/ WriteFile(m) \/ CompareFile(m) \/ Finish(m) \/ Breaks(m)

PrototypeSpec == PrototypeInit /\ [][PrototypeNext]_prototypeVars

-----------------------------------------------------------------------------
\* A run that reports success left, or found, every file as the document has
\* it, unless somebody else wrote while it ran.
SuccessMeansCurrent ==
  \A m \in Makers :
    maker[m] = Over("ok") /\ ~disturbed[m] => disk = document

=============================================================================
