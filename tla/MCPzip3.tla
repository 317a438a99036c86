------------------------------ MODULE MCPzip3 ------------------------------
(* Small instances of Pzip3.                                               *)
EXTENDS Pzip3, TLC

CONSTANTS c1, c2, c3

MCBytes == {"a", "b"}

\* Two files with a run that goes on over two pages and over the end of the
\* file; three files of one page; a file of many pages; an empty file last.
MCInputs ==
    { << <<"a", "a", "a">>, <<"a", "b">> >>,
      << <<"a">>, <<"b", "b">>, <<"b">> >>,
      << <<"a", "b", "b", "b", "b", "b", "a", "b">> >>,
      << <<"b", "a", "a">>, <<>> >> }

\* An empty file before one that is not.
MCInputsEmptyFile ==
    { << <<"a">>, <<>>, <<"b", "b", "b">> >>,
      << <<>>, <<"a">> >> }

MCAllInputs == MCInputs \cup MCInputsEmptyFile
=============================================================================
