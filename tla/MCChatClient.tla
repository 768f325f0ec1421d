---------------------------- MODULE MCChatClient ----------------------------
(* Small instances of ChatClient for TLC.                                  *)
EXTENDS ChatClient, TLC

\* Conversations are interchangeable, and so are messages; used in the runs
\* without temporal properties.
NameSymmetry == Permutations(Messages) \cup Permutations(Convs)
=============================================================================
