--------------------------- MODULE MCLivePlayback ---------------------------
EXTENDS LivePlayback

MCFormats == {"sd", "hd"}
MCSteps == {-1}
Piece(format, start) == [format |-> format, start |-> start]
\* One setup throughout; a new setup at a picture one can start at, and one
\* whose first picture comes later.
MCChannels ==
  {<<Piece("sd", TRUE), Piece("sd", FALSE), Piece("sd", TRUE)>>,
   <<Piece("sd", TRUE), Piece("hd", TRUE), Piece("hd", TRUE)>>,
   <<Piece("sd", TRUE), Piece("hd", FALSE), Piece("sd", TRUE)>>}

=============================================================================
