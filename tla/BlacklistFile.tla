----------------------------- MODULE BlacklistFile -----------------------------
(***************************************************************************)
(* The lines of blacklist.txt, as loadPredefinedBlacklist reads them.  Of  *)
(* a line matters whether blanks stand at its head, whether what follows   *)
(* begins with '#', the text after that, and whether the line ends with a  *)
(* carriage return, which is not one of the blanks.                        *)
(***************************************************************************)
EXTENDS Sequences

NoText == ""

Line(blanks, hash, text, cr) ==
  [blanks |-> blanks, hash |-> hash, text |-> text, cr |-> cr]

\* line.empty() || line[0] == '#', or nothing but blanks.
Skipped(line) == IF line.hash THEN ~line.blanks
                              ELSE line.text = NoText /\ ~line.cr

\* What is left of a line without its blanks.
Trimmed(line) == [hash |-> line.hash, text |-> line.text, cr |-> line.cr]

\* An entry that can be the address of a client.
Plain(text) == [hash |-> FALSE, text |-> text, cr |-> FALSE]

=============================================================================
