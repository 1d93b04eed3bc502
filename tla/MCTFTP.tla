------------------------------- MODULE MCTFTP -------------------------------
(* TLC instances of module TFTP.                                            *)
EXTENDS TFTP, TLC

\* Handlers are told apart only by the exchanges they take part in.
HandlerSymmetry == Permutations(Handlers)
=============================================================================
