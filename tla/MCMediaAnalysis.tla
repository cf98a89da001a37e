--------------------------- MODULE MCMediaAnalysis ---------------------------
\* Objects, callers and requests for the model checking of MediaAnalysis.
EXTENDS MediaAnalysis, TLC

CONSTANTS song1, song2, tab1, tab2, tab3, first, second, other

\* Two requests of one object, so that an abandoned one meets its successor.
RequestKeys == (first :> song1) @@ (second :> song1) @@ (other :> song2)
=============================================================================
