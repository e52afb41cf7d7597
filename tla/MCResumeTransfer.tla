-------------------------- MODULE MCResumeTransfer --------------------------
(* Downloads of two files to one output path, of every scheme, fresh and     *)
(* resumed from every length, tried several times.                           *)
EXTENDS ResumeTransfer, TLC

CONSTANTS
  a, b,
  MaxAttempts  \* bound: number of attempts

\* SFTP behaves as FTP does; split, ranges and checksums in all combinations.
MCTasks ==
  [file : Files, scheme : {"http"}, split : BOOLEAN, checksum : Checksums, ranges : BOOLEAN]
  \cup [file : Files, scheme : {"ftp", "sftp"}, split : {FALSE}, checksum : {"none", "sha-256"},
        ranges : {TRUE}]

\* No file, a shorter one, a longer one with other content.
MCOldFiles ==
  {<<>>} \cup {<< <<f, 1>> >> : f \in Files} \cup {[i \in 1..4 |-> <<f, 3>>] : f \in Files}

MCSymmetry == Permutations(Files)

MCNext == (attempts < MaxAttempts /\ control_completed_length) \/ TransferStep

MCSpec == TransferInit /\ [][MCNext]_vars
=============================================================================
