-------------------------------- MODULE Wzip --------------------------------
(***************************************************************************)
(* concurrency-pzip/wzip/wzip.c and initial-utilities/wzip/wzip.c: the     *)
(* sequential zip.  It reads the files of the command line byte after      *)
(* byte, keeps the run that is open in last_read and count, and writes a   *)
(* run when the next byte is another one.  It gives up at the first file   *)
(* that it cannot open.                                                    *)
(***************************************************************************)
EXTENDS RunLength

CONSTANTS Inputs,        \* command lines: each a sequence of files
          CannotOpen     \* in place of a file that cannot be opened

VARIABLES files,         \* the files of the command line
          file, pos,     \* the file being read, and the bytes read of it
          last_read, count,
          written,       \* the runs written so far
          status         \* "running", "done" or "return1"

vars == <<files, file, pos, last_read, count, written, status>>

Init ==
    /\ files \in Inputs
    /\ file = 1 /\ pos = 0
    /\ last_read = 0 /\ count = 0
    /\ written = <<>>
    /\ status = "running"

\* fopen fails: the program returns at once.
OpenFails ==
    /\ status = "running" /\ file <= Len(files)
    /\ files[file] = CannotOpen
    /\ status' = "return1"
    /\ UNCHANGED <<files, file, pos, last_read, count, written>>

diwrite_Always(runs) == Append(runs, Run(count, last_read))   \* fault

\* diwrite of the open run, if it has any bytes.
diwrite(runs) == IF count > 0 THEN Append(runs, Run(count, last_read)) ELSE runs

\* fread of one byte: it lengthens the open run, or ends it and opens one.
ReadByte ==
    /\ status = "running" /\ file <= Len(files)
    /\ files[file] # CannotOpen /\ pos < Len(files[file])
    /\ LET char_read == files[file][pos + 1] IN
       IF char_read = last_read
       THEN /\ count' = count + 1
            /\ UNCHANGED <<written, last_read>>
       ELSE /\ written' = diwrite(written)
            /\ count' = 1
            /\ last_read' = char_read
    /\ pos' = pos + 1
    /\ UNCHANGED <<files, file, status>>

\* End of the file: the next file goes on with the run that is open.
NextFile ==
    /\ status = "running" /\ file <= Len(files)
    /\ files[file] # CannotOpen /\ pos = Len(files[file])
    /\ file' = file + 1 /\ pos' = 0
    /\ UNCHANGED <<files, last_read, count, written, status>>

WriteLast_Never ==                      \* fault: returns without it
    /\ status = "running" /\ file > Len(files)
    /\ status' = "done"
    /\ UNCHANGED <<files, file, pos, last_read, count, written>>

\* After the last file the open run is written, also if it has no bytes.
WriteLast ==
    /\ status = "running" /\ file > Len(files)
    /\ written' = Append(written, Run(count, last_read))
    /\ status' = "done"
    /\ UNCHANGED <<files, file, pos, last_read, count>>

Next == OpenFails \/ ReadByte \/ NextFile \/ WriteLast

Spec == Init /\ [][Next]_vars

-----------------------------------------------------------------------------
(* Properties.                                                             *)

\* The bytes read so far, and those of all the files.
ReadSoFar ==
    FlattenSeq([n \in 1 .. file |->
        IF n < file THEN files[n]
        ELSE IF n <= Len(files) /\ files[n] # CannotOpen
             THEN SubSeq(files[n], 1, pos) ELSE <<>>])

\* What is written and the open run are the compression of what has been
\* read, at every moment and across the ends of files: so what is written
\* when a later file cannot be opened lacks exactly the open run.
WrittenAndOpenRun ==
    status # "done" =>
        IsRunLengthOf(IF count = 0 THEN written
                      ELSE Append(written, Run(count, last_read)), ReadSoFar)
=============================================================================
