------------------------------- MODULE Wunzip -------------------------------
(***************************************************************************)
(* initial-utilities/wunzip/wunzip.c: prints every record of the files of  *)
(* the command line as so many times its byte.  The files are taken to     *)
(* hold whole records.                                                     *)
(***************************************************************************)
EXTENDS RunLength

CONSTANT NoArchive       \* in place of a file that cannot be opened

VARIABLES archives,      \* the files of the command line: sequences of runs
          archive, record, \* the one being read, the records read of it
          text,          \* what has been printed
          unzipping      \* "waiting" to be started, "running", "done" or
                         \* "return1"

uvars == <<archives, archive, record, text, unzipping>>

UnzipInit ==
    /\ archives = <<>> /\ archive = 1 /\ record = 0
    /\ text = <<>>
    /\ unzipping = "waiting"

\* The program is called with these files.
Call(files) ==
    /\ unzipping = "waiting"
    /\ archives' = files
    /\ unzipping' = "running"
    /\ UNCHANGED <<archive, record, text>>

OpenArchiveFails ==
    /\ unzipping = "running" /\ archive <= Len(archives)
    /\ archives[archive] = NoArchive
    /\ unzipping' = "return1"
    /\ UNCHANGED <<archives, archive, record, text>>

\* fread of a count and a byte, and the loop that prints the byte.
ReadRecord ==
    /\ unzipping = "running" /\ archive <= Len(archives)
    /\ archives[archive] # NoArchive /\ record < Len(archives[archive])
    /\ LET r == archives[archive][record + 1]
       IN  text' = text \o [j \in 1 .. r.count |-> r.char]
    /\ record' = record + 1
    /\ UNCHANGED <<archives, archive, unzipping>>

NextArchive ==
    /\ unzipping = "running" /\ archive <= Len(archives)
    /\ archives[archive] # NoArchive /\ record = Len(archives[archive])
    /\ archive' = archive + 1 /\ record' = 0
    /\ UNCHANGED <<archives, text, unzipping>>

Return ==
    /\ unzipping = "running" /\ archive > Len(archives)
    /\ unzipping' = "done"
    /\ UNCHANGED <<archives, archive, record, text>>

UnzipNext == OpenArchiveFails \/ ReadRecord \/ NextArchive \/ Return
=============================================================================
