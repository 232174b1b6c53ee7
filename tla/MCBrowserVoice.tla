--------------------------- MODULE MCBrowserVoice ---------------------------
(* Instances of BrowserVoiceService for TLC. *)
EXTENDS BrowserVoiceService, TLC

\* Messages are interchangeable, and so are the calls of endSession().
Symmetry == Permutations(Starts) \cup Permutations(Ends)
=============================================================================
