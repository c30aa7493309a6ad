---------------------------- MODULE MCIOManager ----------------------------
EXTENDS IOManager, TLC

CONSTANTS r, w

\* One fiber reads the descriptor, another writes it.
ReaderWriter == (r :> "READ") @@ (w :> "WRITE")
============================================================================
