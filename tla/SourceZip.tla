----------------------------- MODULE SourceZip -----------------------------
(* zip_source_code.js: a directory is scanned for source files, the files   *)
(* are streamed one by one into a temporary archive, and the archive is     *)
(* installed at the output path.  Several runs may share the path, the      *)
(* files change while they are read, file operations fail, and a run may be *)
(* interrupted (at an await) or killed (anywhere).  Sizes and offsets count *)
(* in units in which every header is one long; MaxUint32 and MaxUint16 are  *)
(* the largest values of the format's fields, which also mark an escape to  *)
(* the ZIP64 extension.  External: regexes, CRC, deflate beyond its bound.  *)
EXTENDS Naturals, Sequences, FiniteSets

CONSTANTS
  Names,       \* sequence: the paths under the source directory, in scan order
  Ignored,     \* the paths an IGNORE rule matches, or whose directory it matches
  Included,    \* the paths an --include rule matches
  Code,        \* the paths the code list or a shebang accepts
  OutputName,  \* the path that is the output archive itself, or None
  Zips,        \* runs of the program
  Options,     \* the command lines: [force, dryRun, allFiles, allowEmpty, store]
  Plans,       \* bounds: runs started, sizes a file can have, changes to the files
  MaxUint32, MaxUint16,
  None         \* no file, no value

VARIABLES
  plan,     \* the bounds of this behaviour
  files,    \* per path: what it is and its size
  edits,    \* changes so far
  output,   \* the file at the output path
  temps,    \* the runs whose temporary archive exists
  zip       \* per run: where it is and the archive it has written

zipVars == <<plan, files, edits, output, temps, zip>>

Path == {Names[i] : i \in DOMAIN Names}

ASSUME ArchiveInputs == Names \in Seq(Path) /\ \A p \in Plans : p.sizes \subseteq Nat
ASSUME NoneIsNoRecord == None \notin [count : Nat, offset : Nat]

NotStarted == [pc |-> "new"]
Ended(how) == [pc |-> "ended", how |-> how]

-----------------------------------------------------------------------------
\* The format.

\* An upper bound of what deflate makes of size bytes.
DeflateBound(size) == size + 1

UsesZip64(size, store) ==
  size > MaxUint32 \/ (~store /\ DeflateBound(size) > MaxUint32)

Escape(value) == IF value > MaxUint32 THEN MaxUint32 ELSE value

\* Mutant: the escaped offset is written before the escaped sizes.
CentralHeader_OffsetFirst(entry) ==
  LET sizes == entry.zip64 \/ entry.compressed > MaxUint32 \/ entry.size > MaxUint32
      far == entry.offset > MaxUint32
  IN [size |-> IF sizes THEN MaxUint32 ELSE entry.size,
      compressed |-> IF sizes THEN MaxUint32 ELSE entry.compressed,
      offset |-> IF far THEN MaxUint32 ELSE entry.offset,
      extra |-> (IF far THEN <<entry.offset>> ELSE <<>>)
                  \o (IF sizes THEN <<entry.size, entry.compressed>> ELSE <<>>)]

\* makeCentralHeader: both sizes are escaped together, the offset by itself,
\* and the escaped values follow in that order.
CentralHeader(entry) ==
  LET sizes == entry.zip64 \/ entry.compressed > MaxUint32 \/ entry.size > MaxUint32
      far == entry.offset > MaxUint32
  IN [size |-> IF sizes THEN MaxUint32 ELSE entry.size,
      compressed |-> IF sizes THEN MaxUint32 ELSE entry.compressed,
      offset |-> IF far THEN MaxUint32 ELSE entry.offset,
      extra |-> (IF sizes THEN <<entry.size, entry.compressed>> ELSE <<>>)
                  \o (IF far THEN <<entry.offset>> ELSE <<>>)]

\* The end records: the ZIP64 one is there when any value needs it.
EndRecords(entries, offset) ==
  LET central == Len(entries)
      large == \/ \E i \in DOMAIN entries :
                    \/ entries[i].zip64 \/ entries[i].compressed > MaxUint32
                    \/ entries[i].size > MaxUint32 \/ entries[i].offset > MaxUint32
               \/ Len(entries) >= MaxUint16 \/ central > MaxUint32 \/ offset > MaxUint32
  IN [zip64 |-> IF large THEN [count |-> Len(entries), offset |-> offset] ELSE None,
      count |-> IF Len(entries) >= MaxUint16 THEN MaxUint16 ELSE Len(entries),
      offset |-> Escape(offset)]

Archive(entries, offset) ==
  [headers |-> [i \in DOMAIN entries |-> CentralHeader(entries[i])],
   end |-> EndRecords(entries, offset)]

-----------------------------------------------------------------------------
\* The files under the source directory change.

EditFile ==
  /\ edits < plan.edits
  /\ edits' = edits + 1
  /\ \E path \in Path, kind \in {"file", "link", "gone"}, size \in plan.sizes :
       files' = [files EXCEPT ![path] = [kind |-> kind, size |-> size]]
  /\ UNCHANGED <<plan, output, temps, zip>>

-----------------------------------------------------------------------------
\* A run.

\* Every failure: the catch of createArchive, then the one of the program.
Fails(z) ==
  /\ zip' = [zip EXCEPT ![z] = Ended("failed")]
  /\ temps' = temps \ {z}

Begin(z) ==
  /\ z \in plan.zips /\ zip[z] = NotStarted
  /\ \E o \in Options :
       zip' = [zip EXCEPT ![z] =
         IF output # None /\ ~o.force /\ ~o.dryRun THEN Ended("failed")
         ELSE [pc |-> "scan", options |-> o, next |-> 1, candidates |-> <<>>]]
  /\ UNCHANGED <<plan, files, edits, output, temps>>

Wanted(path, o) ==
  /\ files[path].kind = "file"
  /\ path # OutputName
  /\ path \notin Ignored
  /\ o.allFiles \/ path \in Included \cup Code

\* scanSource, one path: links, special files, the output itself, ignored
\* paths and paths that are not code are skipped.
ScanPath(z) ==
  /\ zip[z].pc = "scan" /\ zip[z].next <= Len(Names)
  /\ LET path == Names[zip[z].next]
     IN zip' = [zip EXCEPT ![z] =
          [zip[z] EXCEPT !.next = @ + 1,
                         !.candidates = IF Wanted(path, zip[z].options) THEN Append(@, path) ELSE @]]
  /\ UNCHANGED <<plan, files, edits, output, temps>>

\* A path that was listed is gone before its lstat.
ScanFails(z) ==
  /\ zip[z].pc = "scan" /\ zip[z].next <= Len(Names)
  /\ files[Names[zip[z].next]].kind = "gone"
  /\ Fails(z)
  /\ UNCHANGED <<plan, files, edits, output>>

\* Mutant: the archive is written at the output path itself.
ScanEnds_InPlace(z) ==
  /\ zip[z].pc = "scan" /\ zip[z].next > Len(Names)
  /\ output' = [by |-> z, whole |-> FALSE, entries |-> <<>>]
  /\ zip' = [zip EXCEPT ![z] = [pc |-> "entry", options |-> zip[z].options,
        candidates |-> zip[z].candidates, entries |-> <<>>, position |-> 0,
        opened |-> None]]
  /\ UNCHANGED <<plan, files, edits, temps>>

ScanEnds(z) ==
  /\ zip[z].pc = "scan" /\ zip[z].next > Len(Names)
  /\ LET o == zip[z].options
     IN IF zip[z].candidates = <<>> /\ ~o.allowEmpty THEN Fails(z)
        ELSE IF o.dryRun
        THEN zip' = [zip EXCEPT ![z] = Ended("done")] /\ UNCHANGED temps
        ELSE /\ temps' = temps \cup {z}
             /\ zip' = [zip EXCEPT ![z] = [pc |-> "entry", options |-> o,
                   candidates |-> zip[z].candidates, entries |-> <<>>, position |-> 0,
                   opened |-> None]]
  /\ UNCHANGED <<plan, files, edits, output>>

\* The next candidate is looked at again and its local header written.
EntryStarts(z) ==
  /\ zip[z].pc = "entry" /\ zip[z].candidates # <<>>
  /\ LET path == Head(zip[z].candidates)
         file == files[path]
     IN IF file.kind # "file" THEN Fails(z)
        ELSE /\ zip' = [zip EXCEPT ![z] =
                  [zip[z] EXCEPT !.pc = "open", !.position = @ + 1,
                     !.entries = Append(@, [path |-> path, offset |-> zip[z].position,
                          zip64 |-> UsesZip64(file.size, zip[z].options.store)])]]
             /\ UNCHANGED temps
  /\ UNCHANGED <<plan, files, edits, output>>

\* O_NOFOLLOW: a link that took the file's place is not opened.  On a platform
\* without the flag it would be followed; such platforms are not modelled.
EntryOpens(z) ==
  /\ zip[z].pc = "open"
  /\ LET file == files[Head(zip[z].candidates)]
     IN IF file.kind # "file" THEN Fails(z)
        ELSE /\ zip' = [zip EXCEPT ![z] = [@ EXCEPT !.pc = "stream", !.opened = file]]
             /\ UNCHANGED temps
  /\ UNCHANGED <<plan, files, edits, output>>

\* What is read: the file as it was opened, or as it is by now when it was
\* written in place.
ReadSizes(z) ==
  LET now == files[Head(zip[z].candidates)]
  IN {zip[z].opened.size} \cup IF now.kind = "file" THEN {now.size} ELSE {}

Compressed(size, store) == IF store THEN {size} ELSE 0..DeflateBound(size)

\* The data descriptor of an entry without ZIP64 holds at most MaxUint32.
Overflows(entry, size, compressed) ==
  ~entry.zip64 /\ (compressed > MaxUint32 \/ size > MaxUint32)

\* The sizes are what the streams counted, whatever lstat said.
EntryStreams(z) ==
  /\ zip[z].pc = "stream"
  /\ LET entries == zip[z].entries
         entry == entries[Len(entries)]
     IN \E size \in ReadSizes(z) : \E compressed \in Compressed(size, zip[z].options.store) :
          IF Overflows(entry, size, compressed) THEN Fails(z)
          ELSE /\ zip' = [zip EXCEPT ![z] =
                    [zip[z] EXCEPT !.pc = "entry", !.candidates = Tail(@),
                       !.position = @ + compressed + 1,
                       !.entries = [entries EXCEPT ![Len(entries)] =
                          [path |-> entry.path, offset |-> entry.offset, zip64 |-> entry.zip64,
                           size |-> size, compressed |-> compressed,
                           kind |-> zip[z].opened.kind]]]]
               /\ UNCHANGED temps
  /\ UNCHANGED <<plan, files, edits, output>>

ReadFails(z) ==
  /\ zip[z].pc = "stream"
  /\ Fails(z)
  /\ UNCHANGED <<plan, files, edits, output>>

\* Central directory, end records, fsync, close.
Closes(z) ==
  /\ zip[z].pc = "entry" /\ zip[z].candidates = <<>>
  /\ zip' = [zip EXCEPT ![z] =
       [pc |-> IF zip[z].options.force THEN "rename" ELSE "link", options |-> zip[z].options,
        archive |-> [by |-> z, whole |-> TRUE, entries |-> zip[z].entries,
                     content |-> Archive(zip[z].entries, zip[z].position)]]]
  /\ UNCHANGED <<plan, files, edits, output, temps>>

Step(z, from, to) == zip[z].pc = from /\ zip' = [zip EXCEPT ![z] = [@ EXCEPT !.pc = to]]

Installed(z) ==
  /\ zip' = [zip EXCEPT ![z] = Ended("done")]
  /\ temps' = temps \ {z}

\* --force: rename over the output; where the system refuses that, the output
\* is removed first and the rename tried once more.
ForceInstalls(z) ==
  /\ \/ /\ zip[z].pc \in {"rename", "renameAgain"}
        /\ \/ output' = zip[z].archive /\ Installed(z)
           \/ output' = output /\ Fails(z)
     \/ /\ Step(z, "rename", "unlink") /\ UNCHANGED <<output, temps>>
     \/ /\ Step(z, "unlink", "renameAgain") /\ output' = None /\ UNCHANGED temps
     \/ /\ zip[z].pc = "unlink" /\ output' = output /\ Fails(z)
  /\ UNCHANGED <<plan, files, edits>>

\* Mutant: without --force the archive is renamed over what is there.
LinkInstalls_Renames(z) ==
  /\ zip[z].pc = "link"
  /\ output' = zip[z].archive
  /\ Installed(z)
  /\ UNCHANGED <<plan, files, edits>>

\* Without --force: a hard link, which an existing output refuses; where there
\* are no hard links, an exclusive copy.
LinkInstalls(z) ==
  /\ zip[z].pc = "link"
  /\ \/ output = None /\ output' = zip[z].archive
        /\ Step(z, "link", "unlinkTemp") /\ UNCHANGED temps
     \/ Step(z, "link", "copy") /\ UNCHANGED <<output, temps>>
     \/ output' = output /\ Fails(z)
  /\ UNCHANGED <<plan, files, edits>>

\* A temporary archive that cannot be removed after the link sends the run to
\* the copy, which finds the output it has just made.
TempRemoved(z) ==
  /\ zip[z].pc \in {"unlinkTemp", "unlinkCopied"}
  /\ \/ Installed(z)
     \/ Step(z, "unlinkTemp", "copy") /\ UNCHANGED temps
     \/ Fails(z)
  /\ UNCHANGED <<plan, files, edits, output>>

CopyStarts(z) ==
  /\ zip[z].pc = "copy"
  /\ IF output # None
     THEN Fails(z) /\ UNCHANGED output
     ELSE /\ output' = [zip[z].archive EXCEPT !.whole = FALSE]
          /\ Step(z, "copy", "copying") /\ UNCHANGED temps
  /\ UNCHANGED <<plan, files, edits>>

\* External (copyFileSync): a copy that fails removes what it has written.
CopyEnds(z) ==
  /\ zip[z].pc = "copying"
  /\ LET mine == output # None /\ output.by = z
     IN \/ /\ output' = IF mine THEN zip[z].archive ELSE output
           /\ Step(z, "copying", "unlinkCopied") /\ UNCHANGED temps
        \/ /\ output' = IF mine THEN None ELSE output
           /\ Fails(z)
  /\ UNCHANGED <<plan, files, edits>>

\* SIGINT and SIGTERM are handled where the program awaits a stream.
Signal(z) ==
  /\ zip[z].pc = "stream"
  /\ zip' = [zip EXCEPT ![z] = Ended("cancelled")]
  /\ temps' = temps \ {z}
  /\ UNCHANGED <<plan, files, edits, output>>

Killed(z) ==
  /\ zip[z].pc \notin {"new", "ended"}
  /\ zip' = [zip EXCEPT ![z] = Ended("killed")]
  /\ UNCHANGED <<plan, files, edits, output, temps>>

ZipInit ==
  /\ plan \in Plans
  /\ files \in [Path -> [kind : {"file", "link"}, size : plan.sizes]]
  /\ edits = 0
  /\ output \in {None, [by |-> None, whole |-> TRUE]}
  /\ temps = {}
  /\ zip = [z \in Zips |-> NotStarted]

ZipNext ==
  \/ EditFile
  \/ \E z \in Zips :
       \/ Begin(z) \/ ScanPath(z) \/ ScanFails(z) \/ ScanEnds(z)
       \/ EntryStarts(z) \/ EntryOpens(z) \/ EntryStreams(z) \/ ReadFails(z) \/ Closes(z)
       \/ ForceInstalls(z) \/ LinkInstalls(z) \/ TempRemoved(z)
       \/ CopyStarts(z) \/ CopyEnds(z)
       \/ Signal(z) \/ Killed(z)

ZipSpec == ZipInit /\ [][ZipNext]_zipVars

-----------------------------------------------------------------------------
\* Properties.

\* What a reader of the format makes of a header: an escaped field is taken
\* from the extra values, which come in the order of the fields; a field that
\* holds the marker without any extra value is taken as it is.
Reader(header) ==
  LET fields == <<"size", "compressed", "offset">>
      escaped(n) == header.extra # <<>> /\ header[fields[n]] = MaxUint32
      place(n) == Cardinality({m \in 1..n : escaped(m)})
      value(n) == IF ~escaped(n) THEN header[fields[n]]
                  ELSE IF place(n) <= Len(header.extra) THEN header.extra[place(n)] ELSE None
  IN [size |-> value(1), compressed |-> value(2), offset |-> value(3)]

ReadCount(end) == IF end.zip64 # None THEN end.zip64.count ELSE end.count

\* Values the code takes for small although they are the escape marker.
OnTheMarker(entry) ==
  \/ entry.offset = MaxUint32
  \/ ~entry.zip64 /\ MaxUint32 \in {entry.size, entry.compressed}

\* A reader finds every entry of an installed archive where it is and with the
\* sizes that were streamed, however large they are and however the file grew
\* since its lstat, as long as no value is the escape marker itself.
EntriesDecode ==
  output # None /\ output.by # None /\ output.whole =>
    /\ ReadCount(output.content.end) = Len(output.entries)
    /\ \A i \in DOMAIN output.entries :
         LET entry == output.entries[i]
         IN ~OnTheMarker(entry) =>
              Reader(output.content.headers[i]) =
                [size |-> entry.size, compressed |-> entry.compressed,
                 offset |-> entry.offset]

\* No link's target gets into an archive, although links may replace files
\* between the scan, the second look and the open.
LinksStayOut ==
  output # None /\ output.by # None =>
    \A i \in DOMAIN output.entries : output.entries[i].kind = "file"

\* At the output path is the old file or a finished archive, whatever failed
\* or was interrupted; only an exclusive copy shows an unfinished one, which
\* stays if the copy is killed.
OnlyCopiesAreUnfinished ==
  output # None /\ ~output.whole =>
    zip[output.by].pc = "copying" \/ zip[output.by] = Ended("killed")

\* A run without --force never replaces or removes a file that it did not
\* create, even one that appeared after it looked.
UnforcedNeverReplaces ==
  [][\A z \in Zips :
       /\ zip'[z] # zip[z] /\ "options" \in DOMAIN zip[z] /\ ~zip[z].options.force
       /\ output # None /\ output.by # z
       => output' = output]_zipVars

=============================================================================
