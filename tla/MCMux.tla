----------------------------- MODULE MCMux -----------------------------
(***************************************************************************)
(* Instances of the multiplexer for TLC: sets a .cfg cannot spell.         *)
(***************************************************************************)
EXTENDS MuxImplementsRelay, MuxImplementsBoundary

SessionCommands == {"initialize", "launch", "configurationDone", "restart",
                    "terminate", "disconnect"}

NoOffers == {{}}

FullOrNothing == {{}, Capabilities}

FullOffer == {Capabilities}

=============================================================================
